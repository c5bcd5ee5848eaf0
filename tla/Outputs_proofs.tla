--------------------------- MODULE Outputs_proofs ---------------------------
(***************************************************************************)
(* Proofs about what carries a reply out: the channels, the provider       *)
(* streams and the fallback adapters; the playout with its transcript, an  *)
(* avatar, the published transcripts and the console: for any number of    *)
(* tasks, providers, replies, frames, texts and segments.                  *)
(***************************************************************************)
EXTENDS Console, FallbackStreams, SequenceLemmas

(* Channel *)

\* A waiter that is pending is what its task waits for.
PendingOwned ==
    \A i \in DOMAIN futures : futures[i].state = "pending" =>
        task[futures[i].owner] = [step |-> "waits", future |-> i]

\* A task that waits has a waiter of its own, which is done once the task is cancelled.
TasksKnown ==
    \A t \in Senders \cup Receivers :
        IF task[t].step \in {"waits", "cancelling"}
        THEN /\ task[t].future \in DOMAIN futures /\ futures[task[t].future].owner = t
             /\ task[t].step = "cancelling" => futures[task[t].future].state # "pending"
        ELSE task[t].future = 0

\* Senders and receivers wait in queues of their own.
QueuesKnown ==
    /\ \A n \in DOMAIN puts : futures[puts[n]].owner \in Senders
    /\ \A n \in DOMAIN gets : futures[gets[n]].owner \in Receivers

\* The wake-ups that a sender has still to use.
WakeUps(f, tasks) == {i \in DOMAIN f :
                         /\ f[i].state = "woken" /\ f[i].owner \in Senders
                         /\ tasks[f[i].owner].future = i}

\* The inductive invariant: the free places that nobody has a wake-up for are not waited for.
RoomForWakeUps == Pending(puts) /\ ~chanClosed => MaxSize - Len(chan) <= Cardinality(WakeUps(futures, task))

WaiterType == [owner : Senders \cup Receivers, state : {"pending", "woken", "cancelled", "closed"}]
Steps == {"idle", "waits", "cancelling", "sent", "raised", "cancelled"}

ChanShape ==
    /\ futures \in Seq(WaiterType) /\ gets \in Seq(DOMAIN futures) /\ puts \in Seq(DOMAIN futures)
    /\ chan \in Seq(Senders) /\ Len(chan) <= MaxSize /\ chanClosed \in BOOLEAN
    /\ task \in [Senders \cup Receivers -> [step : Steps, future : Nat]]

ChanInv == ChanShape /\ PendingOwned /\ TasksKnown /\ QueuesKnown /\ RoomForWakeUps

\* The waiter that _wakeup_next() wakes, and what stays in its queue.
LEMMA FirstPendingIs ==
    ASSUME NEW D \in SUBSET Nat, NEW queue \in Seq(D), NEW f
    PROVE  LET n == FirstPending(queue, f)
               rest == LeftAfterWake(queue, f)
           IN /\ n \in 0..Len(queue)
              /\ n = 0 => (\A i \in DOMAIN queue : f[queue[i]].state # "pending") /\ rest = <<>>
              /\ n # 0 => queue[n] \in D /\ f[queue[n]].state = "pending"
              /\ rest \in Seq(D) /\ \A i \in DOMAIN rest : \E j \in DOMAIN queue : rest[i] = queue[j]
<1> DEFINE I == {i \in 1..Len(queue) : f[queue[i]].state = "pending"}
           n == FirstPending(queue, f)
           rest == LeftAfterWake(queue, f)
<1>1. Len(queue) \in Nat /\ DOMAIN queue = 1..Len(queue) /\ \A i \in 1..Len(queue) : queue[i] \in D
  BY LenProperties, ElementOfSeq
<1>2. n = IF I # {} THEN Min(I) ELSE 0
  BY DEF FirstPending, SelectInSeq
<1>3. I # {} => n \in I
  <2> I \in SUBSET Nat
    BY <1>1
  <2> HIDE DEF I, n
  <2> QED BY <1>2, MinIsLeast
<1>4. I = {} => n = 0 /\ \A i \in DOMAIN queue : f[queue[i]].state # "pending"
  BY <1>1, <1>2
<1>5. n \in 0..Len(queue) /\ (n = 0 => I = {}) /\ (n # 0 => n \in I)
  <2>1. I \subseteq 1..Len(queue) /\ Len(queue) \in Nat
    BY <1>1
  <2>2. I = {} => n = 0
    BY <1>4
  <2> HIDE DEF I, n
  <2>3. CASE I = {}
    BY <2>1, <2>2, <2>3
  <2>4. CASE I # {}
    <3>1. n \in I /\ n \in 1..Len(queue)
      BY <1>3, <2>1, <2>4
    <3> QED BY <2>1, <2>4, <3>1
  <2> QED BY <2>3, <2>4
<1>6. CASE n = 0
  <2>1. rest = <<>>
    BY <1>6 DEF LeftAfterWake
  <2>2. rest \in Seq(D) /\ DOMAIN rest = {}
    BY <2>1, EmptySeq
  <2> HIDE DEF n, rest
  <2> QED BY <1>4, <1>5, <1>6, <2>1, <2>2 DEF n, rest
<1>7. CASE n # 0
  <2>1. rest = SubSeq(queue, n + 1, Len(queue))
    BY <1>7 DEF LeftAfterWake
  <2>2. queue[n] \in D /\ f[queue[n]].state = "pending"
    <3> HIDE DEF n
    <3> QED BY <1>1, <1>5, <1>7
  <2>0. n \in 1..Len(queue)
    BY <1>5, <1>7
  <2> HIDE DEF n, rest, I
  <2>3. /\ rest \in Seq(D) /\ Len(rest) = Len(queue) - n
        /\ \A i \in 1..(Len(queue) - n) : rest[i] = queue[n + i]
    <3>1. n + 1 \in 1..(Len(queue) + 1) /\ Len(queue) \in n..Len(queue)
      BY <1>1, <2>0
    <3>2. rest \in Seq(D) /\ Len(rest) = IF n + 1 <= Len(queue) THEN Len(queue) - (n + 1) + 1 ELSE 0
      BY <1>1, <2>0, <2>1, <3>1, SubSeqProperties
    <3>3. ASSUME NEW i \in 1..(Len(queue) - n) PROVE rest[i] = queue[n + i]
      <4>1. i \in 1..(Len(queue) - (n + 1) + 1) /\ (n + 1) + i - 1 = n + i
        BY <1>1, <2>0
      <4>2. \A k \in (n + 1)..Len(queue) : queue[k] \in D
        BY <1>1, <2>0
      <4> QED BY <1>1, <2>0, <2>1, <3>1, <4>1, <4>2, SubSeqProperties
    <3>4. Len(rest) = Len(queue) - n
      <4>1. CASE n = Len(queue)
        <5>1. ~(n + 1 <= Len(queue)) /\ Len(queue) - n = 0
          BY <1>1, <4>1
        <5> QED BY <3>2, <5>1
      <4>2. CASE n # Len(queue)
        <5>1. Len(queue) \in Nat /\ n \in Nat /\ n <= Len(queue)
          BY <1>1, <2>0
        <5>2. n + 1 <= Len(queue) /\ Len(queue) - n = Len(queue) - (n + 1) + 1
          BY <4>2, <5>1
        <5> QED BY <3>2, <5>2
      <4> QED BY <4>1, <4>2
    <3> QED BY <3>2, <3>3, <3>4
  <2>4. \A i \in DOMAIN rest : \E j \in DOMAIN queue : rest[i] = queue[j]
    <3>1. DOMAIN rest = 1..(Len(queue) - n)
      BY <2>3, LenProperties
    <3>2. ASSUME NEW i \in DOMAIN rest PROVE rest[i] = queue[n + i] /\ n + i \in DOMAIN queue
      BY <1>1, <2>0, <2>3, <3>1
    <3> QED BY <3>2
  <2> QED BY <1>5, <1>7, <2>2, <2>3, <2>4 DEF n, rest
<1> QED BY <1>6, <1>7

LEMMA ChanInitInv == ChannelAssumption /\ ChanInit => ChanInv
<1> SUFFICES ASSUME ChannelAssumption, ChanInit PROVE ChanInv OBVIOUS
<1> USE DEF ChanInit
<1>1. \A S : <<>> \in Seq(S)
  BY EmptySeq
<1>2. Len(<<>>) = 0 /\ DOMAIN <<>> = {}
  BY EmptySeq
<1>3. ChanShape
  <2>1. 0 \in Nat /\ "idle" \in Steps /\ MaxSize \in Nat
    BY DEF Steps, ChannelAssumption
  <2> HIDE DEF Steps
  <2>2. task \in [Senders \cup Receivers -> [step : Steps, future : Nat]]
    BY <2>1
  <2>3. Len(chan) <= MaxSize
    BY <1>2, <2>1
  <2> QED BY <1>1, <2>2, <2>3 DEF ChanShape
<1>4. PendingOwned /\ TasksKnown /\ QueuesKnown
  BY <1>2 DEF PendingOwned, TasksKnown, QueuesKnown
<1>5. ~Pending(puts)
  <2>1. puts \in Seq({}) /\ DOMAIN puts = {}
    BY <1>1, <1>2
  <2> QED BY <2>1, FirstPendingIs, EmptySeq DEF Pending
<1> QED BY <1>3, <1>4, <1>5 DEF ChanInv, RoomForWakeUps

\* A sequence over a set is one over any larger set.
LEMMA SeqMonotone ==
    ASSUME NEW S, NEW T, S \subseteq T
    PROVE  Seq(S) \subseteq Seq(T)
<1> SUFFICES ASSUME NEW s \in Seq(S) PROVE s \in Seq(T) OBVIOUS
<1>1. Len(s) \in Nat /\ s \in [1..Len(s) -> S]
  BY LenProperties
<1>2. s \in [1..Len(s) -> T]
  BY <1>1
<1> QED BY <1>1, <1>2, SeqDef

\* The first pending waiter of a queue is woken, the others stay as they are.
LEMMA WokenIs ==
    ASSUME futures \in Seq(WaiterType), NEW queue \in Seq(DOMAIN futures)
    PROVE  LET n == FirstPending(queue, futures)
               g == Woken(queue, futures)
           IN /\ g \in Seq(WaiterType) /\ DOMAIN g = DOMAIN futures /\ Len(g) = Len(futures)
              /\ \A i \in DOMAIN futures :
                    /\ g[i].owner = futures[i].owner
                    /\ g[i].state = IF n # 0 /\ i = queue[n] THEN "woken" ELSE futures[i].state
              /\ n # 0 => queue[n] \in DOMAIN futures /\ futures[queue[n]].state = "pending"
<1> DEFINE n == FirstPending(queue, futures)
           g == Woken(queue, futures)
<1>1. Len(futures) \in Nat /\ DOMAIN futures = 1..Len(futures) /\ futures \in [1..Len(futures) -> WaiterType]
  BY LenProperties
<1>2. n # 0 => queue[n] \in DOMAIN futures /\ futures[queue[n]].state = "pending"
  BY <1>1, FirstPendingIs
<1>3. g = IF n = 0 THEN futures ELSE [futures EXCEPT ![queue[n]].state = "woken"]
  BY DEF Woken
<1> HIDE DEF n, g
<1>4. CASE n = 0
  BY <1>1, <1>3, <1>4 DEF n, g
<1>5. CASE n # 0
  <2>1. futures[queue[n]] \in WaiterType /\ [futures[queue[n]] EXCEPT !.state = "woken"] \in WaiterType
    BY <1>1, <1>2, <1>5 DEF WaiterType
  <2>2. g = [futures EXCEPT ![queue[n]] = [futures[queue[n]] EXCEPT !.state = "woken"]]
    BY <1>3, <1>5
  <2>3. g \in Seq(WaiterType) /\ Len(g) = Len(futures)
    BY <1>1, <1>2, <1>5, <2>1, <2>2, ExceptSeq
  <2>4. DOMAIN g = DOMAIN futures
    BY <1>1, <2>3, LenProperties
  <2>5. ASSUME NEW i \in DOMAIN futures
        PROVE  /\ g[i].owner = futures[i].owner
               /\ g[i].state = IF i = queue[n] THEN "woken" ELSE futures[i].state
    BY <1>1, <2>1, <2>2 DEF WaiterType
  <2> QED BY <1>2, <1>5, <2>3, <2>4, <2>5 DEF n, g
<1> QED BY <1>4, <1>5

\* The wake-ups are a finite set.
LEMMA WakeUpsFinite ==
    ASSUME NEW S, NEW f \in Seq(S), NEW tasks
    PROVE  IsFiniteSet(WakeUps(f, tasks)) /\ Cardinality(WakeUps(f, tasks)) \in Nat
<1>1. Len(f) \in Nat /\ DOMAIN f = 1..Len(f)
  BY LenProperties
<1>2. WakeUps(f, tasks) \subseteq 1..Len(f)
  BY <1>1 DEF WakeUps
<1>3. IsFiniteSet(1..Len(f))
  BY <1>1, FS_Interval
<1> QED BY <1>2, <1>3, FS_Subset, FS_CardinalityType

\* A queue has a pending waiter or none.
LEMMA PendingIs ==
    ASSUME NEW S, NEW f \in Seq(S), NEW queue \in Seq(DOMAIN f)
    PROVE  FirstPending(queue, f) # 0 <=> \E n \in DOMAIN queue : f[queue[n]].state = "pending"
<1>1. DOMAIN f \in SUBSET Nat
  BY LenProperties
<1>2. DOMAIN queue = 1..Len(queue) /\ Len(queue) \in Nat
  BY LenProperties
<1> DEFINE n == FirstPending(queue, f)
<1>3. /\ n \in 0..Len(queue)
      /\ n = 0 => \A i \in DOMAIN queue : f[queue[i]].state # "pending"
      /\ n # 0 => f[queue[n]].state = "pending"
  BY <1>1, FirstPendingIs
<1> HIDE DEF n
<1>4. n # 0 => n \in DOMAIN queue
  BY <1>2, <1>3
<1> QED BY <1>3, <1>4 DEF n

\* While nobody new waits, no wake-up goes and no place becomes free, there is one for each free place.
LEMMA RoomStays ==
    ASSUME ChannelAssumption, ChanInv, ChanShape', chanClosed => chanClosed', Len(chan') >= Len(chan),
           \A n \in DOMAIN puts' : futures'[puts'[n]].state = "pending" =>
              \E m \in DOMAIN puts : futures[puts[m]].state = "pending",
           WakeUps(futures, task) \subseteq WakeUps(futures', task')
    PROVE  RoomForWakeUps'
<1> SUFFICES ASSUME FirstPending(puts', futures') # 0, ~chanClosed'
             PROVE  MaxSize - Len(chan') <= Cardinality(WakeUps(futures', task'))
  BY DEF RoomForWakeUps, Pending
<1>1. futures \in Seq(WaiterType) /\ puts \in Seq(DOMAIN futures) /\ chan \in Seq(Senders)
  BY DEF ChanInv, ChanShape
<1>2. futures' \in Seq(WaiterType) /\ puts' \in Seq(DOMAIN futures') /\ chan' \in Seq(Senders)
  BY DEF ChanShape
<1>3. \E n \in DOMAIN puts' : futures'[puts'[n]].state = "pending"
  BY <1>2, PendingIs
<1>4. FirstPending(puts, futures) # 0
  BY <1>1, <1>3, PendingIs
<1>5. MaxSize - Len(chan) <= Cardinality(WakeUps(futures, task))
  BY <1>4 DEF ChanInv, RoomForWakeUps, Pending
<1>6. /\ Cardinality(WakeUps(futures, task)) \in Nat /\ Cardinality(WakeUps(futures', task')) \in Nat
      /\ IsFiniteSet(WakeUps(futures', task'))
  BY <1>1, <1>2, WakeUpsFinite
<1>7. Cardinality(WakeUps(futures, task)) <= Cardinality(WakeUps(futures', task'))
  BY <1>6, FS_Subset
<1>8. Len(chan) \in Nat /\ Len(chan') \in Nat /\ MaxSize \in Nat
  BY <1>1, <1>2, LenProperties DEF ChannelAssumption
<1> QED BY <1>5, <1>6, <1>7, <1>8

\* A step of a task changes that of no other.
LEMMA FinishedIs ==
    ASSUME ChanShape, NEW t \in Senders \cup Receivers, NEW step \in Steps, Finished(t, step)
    PROVE  /\ task' \in [Senders \cup Receivers -> [step : Steps, future : Nat]]
           /\ task'[t] = [step |-> step, future |-> 0]
           /\ \A u \in Senders \cup Receivers : u # t => task'[u] = task[u]
<1>1. task \in [Senders \cup Receivers -> [step : Steps, future : Nat]]
  BY DEF ChanShape
<1>2. [step |-> step, future |-> 0] \in [step : Steps, future : Nat]
  OBVIOUS
<1>3. task' = [task EXCEPT ![t] = [step |-> step, future |-> 0]]
  BY DEF Finished
<1> QED BY <1>1, <1>2, <1>3

\* A task waits with a new waiter.
LEMMA WaitIs ==
    ASSUME ChanInv, NEW t \in Senders \cup Receivers, TaskRuns(t), Wait(t)
    PROVE  /\ futures' \in Seq(WaiterType) /\ Len(futures) + 1 \in DOMAIN futures'
           /\ DOMAIN futures \subseteq DOMAIN futures' /\ \A i \in DOMAIN futures : futures'[i] = futures[i]
           /\ futures'[Len(futures) + 1].owner = t
           /\ task' \in [Senders \cup Receivers -> [step : Steps, future : Nat]]
           /\ PendingOwned' /\ TasksKnown'
           /\ t \in Receivers /\ ChannelAssumption =>
                 WakeUps(futures, task) \subseteq WakeUps(futures', task')
<1> DEFINE new == [owner |-> t, state |-> "pending"]
<1>1. futures \in Seq(WaiterType) /\ Len(futures) \in Nat /\ DOMAIN futures = 1..Len(futures)
  BY LenProperties DEF ChanInv, ChanShape
<1>2. \A i \in 1..Len(futures) : futures[i] \in WaiterType
  BY <1>1, ElementOfSeq
<1>3. futures' = Append(futures, new) /\ new \in WaiterType
  BY DEF Wait, WaiterType
<1>4. new.owner = t
  OBVIOUS
<1> HIDE DEF new
<1>5. /\ futures' \in Seq(WaiterType) /\ Len(futures') = Len(futures) + 1
      /\ \A i \in 1..Len(futures) : futures'[i] = futures[i]
      /\ futures'[Len(futures) + 1] = new
  BY <1>1, <1>3, AppendProperties
<1>6. DOMAIN futures' = 1..(Len(futures) + 1)
  BY <1>5, LenProperties
<1>7. task \in [Senders \cup Receivers -> [step : Steps, future : Nat]]
  BY DEF ChanInv, ChanShape
<1>8. [step |-> "waits", future |-> Len(futures) + 1] \in [step : Steps, future : Nat]
  BY <1>1 DEF Steps
<1>9. /\ task' \in [Senders \cup Receivers -> [step : Steps, future : Nat]]
      /\ task'[t] = [step |-> "waits", future |-> Len(futures) + 1]
      /\ \A u \in Senders \cup Receivers : u # t => task'[u] = task[u]
  BY <1>7, <1>8 DEF Wait
<1>10. PendingOwned'
  <2> SUFFICES ASSUME NEW i \in DOMAIN futures', futures'[i].state = "pending"
               PROVE  task'[futures'[i].owner] = [step |-> "waits", future |-> i]
    BY DEF PendingOwned
  <2>1. CASE i = Len(futures) + 1
    BY <1>4, <1>5, <1>9, <2>1
  <2>2. CASE i # Len(futures) + 1
    <3>1. i \in DOMAIN futures /\ futures'[i] = futures[i]
      BY <1>1, <1>5, <1>6, <2>2
    <3>2. task[futures[i].owner] = [step |-> "waits", future |-> i] /\ futures[i].owner \in Senders \cup Receivers
      BY <1>1, <1>2, <3>1 DEF ChanInv, PendingOwned, WaiterType
    <3>3. futures[i].owner # t
      BY <3>1, <3>2 DEF TaskRuns
    <3> QED BY <1>9, <3>1, <3>2, <3>3
  <2> QED BY <2>1, <2>2
<1>11. TasksKnown'
  <2> SUFFICES ASSUME NEW u \in Senders \cup Receivers
               PROVE  IF task'[u].step \in {"waits", "cancelling"}
                      THEN /\ task'[u].future \in DOMAIN futures' /\ futures'[task'[u].future].owner = u
                           /\ task'[u].step = "cancelling" => futures'[task'[u].future].state # "pending"
                      ELSE task'[u].future = 0
    BY DEF TasksKnown
  <2>1. CASE u = t
    <3>1. task'[u].step = "waits" /\ task'[u].future = Len(futures) + 1
      BY <1>9, <2>1
    <3>2. Len(futures) + 1 \in DOMAIN futures' /\ futures'[Len(futures) + 1].owner = u
      BY <1>1, <1>4, <1>5, <1>6, <2>1
    <3> QED BY <3>1, <3>2
  <2>2. CASE u # t
    <3>1. task'[u] = task[u]
      BY <1>9, <2>2
    <3>2. IF task[u].step \in {"waits", "cancelling"}
          THEN /\ task[u].future \in DOMAIN futures /\ futures[task[u].future].owner = u
               /\ task[u].step = "cancelling" => futures[task[u].future].state # "pending"
          ELSE task[u].future = 0
      BY DEF ChanInv, TasksKnown
    <3>3. \A i \in DOMAIN futures : i \in DOMAIN futures' /\ futures'[i] = futures[i]
      BY <1>1, <1>5, <1>6
    <3> QED BY <3>1, <3>2, <3>3
  <2> QED BY <2>1, <2>2
<1>12. ASSUME t \in Receivers, ChannelAssumption PROVE WakeUps(futures, task) \subseteq WakeUps(futures', task')
  <2> SUFFICES ASSUME NEW i \in DOMAIN futures, futures[i].state = "woken", futures[i].owner \in Senders,
                      task[futures[i].owner].future = i
               PROVE  i \in WakeUps(futures', task')
    BY DEF WakeUps
  <2>1. i \in DOMAIN futures' /\ futures'[i] = futures[i]
    BY <1>1, <1>5, <1>6
  <2>2. futures[i].owner # t
    BY <1>12 DEF ChannelAssumption
  <2>3. task'[futures[i].owner] = task[futures[i].owner]
    BY <1>9, <2>2
  <2> QED BY <2>1, <2>3 DEF WakeUps
<1>13. Len(futures) + 1 \in DOMAIN futures' /\ DOMAIN futures \subseteq DOMAIN futures'
       /\ \A i \in DOMAIN futures : futures'[i] = futures[i]
  BY <1>1, <1>5, <1>6
<1> QED BY <1>4, <1>5, <1>9, <1>10, <1>11, <1>12, <1>13

\* A task that does not wait any more goes on, and may wake one waiter of a queue.
LEMMA WakeKeeps ==
    ASSUME ChanInv, NEW t \in Senders \cup Receivers, NEW step \in Steps \ {"waits", "cancelling"},
           NEW queue \in Seq(DOMAIN futures), Finished(t, step),
           task[t].future # 0 => futures[task[t].future].state # "pending",
           futures' \in {futures, Woken(queue, futures)}
    PROVE  /\ futures' \in Seq(WaiterType) /\ DOMAIN futures' = DOMAIN futures
           /\ \A i \in DOMAIN futures :
                 /\ futures'[i].owner = futures[i].owner
                 /\ futures'[i].state = "pending" => futures[i].state = "pending"
           /\ task' \in [Senders \cup Receivers -> [step : Steps, future : Nat]]
           /\ PendingOwned' /\ TasksKnown'
           /\ WakeUps(futures, task) \ {task[t].future} \subseteq WakeUps(futures', task')
           /\ LET n == FirstPending(queue, futures)
              IN n # 0 /\ futures' = Woken(queue, futures) /\ futures[queue[n]].owner \in Senders =>
                    /\ queue[n] \in WakeUps(futures', task') /\ queue[n] \notin WakeUps(futures, task)
                    /\ queue[n] # task[t].future
<1> DEFINE n == FirstPending(queue, futures)
<1>1. futures \in Seq(WaiterType) /\ Len(futures) \in Nat /\ DOMAIN futures = 1..Len(futures)
  BY LenProperties DEF ChanInv, ChanShape
<1>2. \A i \in DOMAIN futures : futures[i].owner \in Senders \cup Receivers
  <2>1. \A i \in DOMAIN futures : futures[i] \in WaiterType
    BY <1>1, ElementOfSeq
  <2> QED BY <2>1 DEF WaiterType
<1>3. /\ futures' \in Seq(WaiterType) /\ DOMAIN futures' = DOMAIN futures
      /\ \A i \in DOMAIN futures :
            /\ futures'[i].owner = futures[i].owner
            /\ futures'[i].state \in {"woken", futures[i].state}
            /\ futures'[i].state = "woken" => futures[i].state \in {"woken", "pending"}
      /\ n # 0 => queue[n] \in DOMAIN futures /\ futures[queue[n]].state = "pending"
      /\ n # 0 /\ futures' = Woken(queue, futures) => futures'[queue[n]].state = "woken"
  <2> HIDE DEF n
  <2>1. n # 0 => queue[n] \in DOMAIN futures /\ futures[queue[n]].state = "pending"
    BY <1>1, WokenIs DEF n
  <2>2. CASE futures' = Woken(queue, futures)
    <3>1. /\ futures' \in Seq(WaiterType) /\ DOMAIN futures' = DOMAIN futures
          /\ \A i \in DOMAIN futures :
                /\ futures'[i].owner = futures[i].owner
                /\ futures'[i].state = IF n # 0 /\ i = queue[n] THEN "woken" ELSE futures[i].state
      BY <1>1, <2>2, WokenIs DEF n
    <3> QED BY <2>1, <3>1
  <2>3. CASE futures' = futures /\ futures' # Woken(queue, futures)
    BY <1>1, <2>1, <2>3
  <2> QED BY <2>2, <2>3
<1> HIDE DEF n
<1>4. /\ task' \in [Senders \cup Receivers -> [step : Steps, future : Nat]]
      /\ task'[t] = [step |-> step, future |-> 0]
      /\ \A u \in Senders \cup Receivers : u # t => task'[u] = task[u]
  BY FinishedIs DEF ChanInv
<1>5. ASSUME NEW i \in DOMAIN futures, futures[i].state = "pending"
      PROVE  /\ futures[i].owner # t /\ i # task[t].future
             /\ task[futures[i].owner] = [step |-> "waits", future |-> i]
             /\ task'[futures[i].owner] = task[futures[i].owner]
  <2>1. task[futures[i].owner] = [step |-> "waits", future |-> i]
    BY <1>5 DEF ChanInv, PendingOwned
  <2>2. i # 0 /\ i # task[t].future
    BY <1>1, <1>5
  <2>3. futures[i].owner # t
    BY <2>1, <2>2
  <2> QED BY <1>2, <1>4, <2>1, <2>2, <2>3
<1>6. PendingOwned'
  <2> SUFFICES ASSUME NEW i \in DOMAIN futures', futures'[i].state = "pending"
               PROVE  task'[futures'[i].owner] = [step |-> "waits", future |-> i]
    BY DEF PendingOwned
  <2>1. futures[i].state = "pending" /\ i \in DOMAIN futures
    BY <1>3
  <2> QED BY <1>3, <1>5, <2>1
<1>7. TasksKnown'
  <2> SUFFICES ASSUME NEW u \in Senders \cup Receivers
               PROVE  IF task'[u].step \in {"waits", "cancelling"}
                      THEN /\ task'[u].future \in DOMAIN futures' /\ futures'[task'[u].future].owner = u
                           /\ task'[u].step = "cancelling" => futures'[task'[u].future].state # "pending"
                      ELSE task'[u].future = 0
    BY DEF TasksKnown
  <2>1. CASE u = t
    BY <1>4, <2>1
  <2>2. CASE u # t
    <3>1. task'[u] = task[u]
      BY <1>4, <2>2
    <3>2. IF task[u].step \in {"waits", "cancelling"}
          THEN /\ task[u].future \in DOMAIN futures /\ futures[task[u].future].owner = u
               /\ task[u].step = "cancelling" => futures[task[u].future].state # "pending"
          ELSE task[u].future = 0
      BY DEF ChanInv, TasksKnown
    <3> QED BY <1>3, <3>1, <3>2
  <2> QED BY <2>1, <2>2
<1>8. WakeUps(futures, task) \ {task[t].future} \subseteq WakeUps(futures', task')
  <2> SUFFICES ASSUME NEW i \in DOMAIN futures, futures[i].state = "woken", futures[i].owner \in Senders,
                      task[futures[i].owner].future = i, i # task[t].future
               PROVE  i \in WakeUps(futures', task')
    BY DEF WakeUps
  <2>1. i \in DOMAIN futures' /\ futures'[i].owner = futures[i].owner /\ futures'[i].state = "woken"
    BY <1>3
  <2>2. task'[futures[i].owner] = task[futures[i].owner]
    BY <1>4
  <2> QED BY <2>1, <2>2 DEF WakeUps
<1>9. ASSUME n # 0, futures' = Woken(queue, futures), futures[queue[n]].owner \in Senders
      PROVE  /\ queue[n] \in WakeUps(futures', task') /\ queue[n] \notin WakeUps(futures, task)
             /\ queue[n] # task[t].future
  <2>1. queue[n] \in DOMAIN futures /\ futures[queue[n]].state = "pending" /\ futures'[queue[n]].state = "woken"
        /\ futures'[queue[n]].owner = futures[queue[n]].owner
    BY <1>3, <1>9
  <2> DEFINE i == queue[n]
  <2>2. i \in DOMAIN futures /\ futures[i].state = "pending"
    BY <2>1
  <2> HIDE DEF i
  <2>3. /\ task[futures[i].owner] = [step |-> "waits", future |-> i] /\ i # task[t].future
        /\ task'[futures[i].owner] = task[futures[i].owner]
    BY <1>5, <2>2
  <2>4. task'[futures[queue[n]].owner].future = queue[n] /\ queue[n] # task[t].future
    BY <2>3 DEF i
  <2> QED BY <1>3, <1>9, <2>1, <2>4 DEF WakeUps
<1>10. \A i \in DOMAIN futures : /\ futures'[i].owner = futures[i].owner
                                 /\ futures'[i].state = "pending" => futures[i].state = "pending"
  BY <1>3
<1> QED BY <1>3, <1>4, <1>6, <1>7, <1>8, <1>9, <1>10 DEF n

\* Two sets of wake-ups of which one has an element more.
LEMMA OneMore ==
    ASSUME NEW S, IsFiniteSet(S), NEW T, IsFiniteSet(T), NEW x, NEW y \in T \ S, S \ {x} \subseteq T, x # y
    PROVE  Cardinality(S) <= Cardinality(T) /\ (x \notin S => Cardinality(S) + 1 <= Cardinality(T))
<1>1. IsFiniteSet(S \ {x}) /\ Cardinality(S \ {x}) = IF x \in S THEN Cardinality(S) - 1 ELSE Cardinality(S)
  BY FS_RemoveElement
<1>2. /\ IsFiniteSet((S \ {x}) \cup {y})
      /\ Cardinality((S \ {x}) \cup {y}) = Cardinality(S \ {x}) + 1
  BY <1>1, FS_AddElement
<1>3. Cardinality((S \ {x}) \cup {y}) <= Cardinality(T)
  <2>1. (S \ {x}) \cup {y} \subseteq T
    OBVIOUS
  <2> QED BY <2>1, FS_Subset
<1>4. Cardinality(S) \in Nat /\ Cardinality(T) \in Nat
  BY FS_CardinalityType
<1> QED BY <1>1, <1>2, <1>3, <1>4

\* A set of wake-ups that lost at most one.
LEMMA OneLess ==
    ASSUME NEW S, IsFiniteSet(S), NEW T, IsFiniteSet(T), NEW x, S \ {x} \subseteq T
    PROVE  Cardinality(S) - 1 <= Cardinality(T)
<1>1. IsFiniteSet(S \ {x}) /\ Cardinality(S \ {x}) = IF x \in S THEN Cardinality(S) - 1 ELSE Cardinality(S)
  BY FS_RemoveElement
<1>2. Cardinality(S \ {x}) <= Cardinality(T)
  BY FS_Subset
<1>3. Cardinality(S) \in Nat /\ Cardinality(T) \in Nat
  BY FS_CardinalityType
<1> QED BY <1>1, <1>2, <1>3

\* A task that runs, or was told to stop, has no waiter that is pending.
LEMMA NothingAwaited ==
    ASSUME ChanInv, NEW t \in Senders \cup Receivers,
           \/ TaskRuns(t) \/ task[t].step = "cancelling"
           \/ task[t].step = "waits" /\ futures[task[t].future].state = "closed"
    PROVE  task[t].future # 0 => futures[task[t].future].state # "pending"
BY DEF ChanInv, TasksKnown, TaskRuns

\* What stays of a queue is in the queue.
LEMMA LeftIs ==
    ASSUME ChanInv, NEW queue \in Seq(DOMAIN futures)
    PROVE  /\ LeftAfterWake(queue, futures) \in Seq(DOMAIN futures)
           /\ \A i \in DOMAIN LeftAfterWake(queue, futures) :
                 \E j \in DOMAIN queue : LeftAfterWake(queue, futures)[i] = queue[j]
           /\ FirstPending(queue, futures) = 0 => LeftAfterWake(queue, futures) = <<>>
<1>1. DOMAIN futures \in SUBSET Nat
  BY LenProperties DEF ChanInv, ChanShape
<1> QED BY <1>1, FirstPendingIs

LEMMA SendKeeps ==
    ASSUME ChannelAssumption, ChanInv, NEW s \in Senders, Send(s) PROVE ChanInv'
<1>1. /\ futures \in Seq(WaiterType) /\ gets \in Seq(DOMAIN futures) /\ puts \in Seq(DOMAIN futures)
      /\ chan \in Seq(Senders) /\ Len(chan) \in Nat /\ Len(chan) <= MaxSize /\ MaxSize \in Nat /\ chanClosed \in BOOLEAN
      /\ s \in Senders \cup Receivers /\ {"raised", "sent"} \subseteq Steps \ {"waits", "cancelling"}
      /\ TaskRuns(s) /\ chanClosed' = chanClosed
  BY LenProperties DEF ChanInv, ChanShape, ChannelAssumption, Steps, Send
<1>2. /\ \A n \in DOMAIN puts : futures[puts[n]].owner \in Senders /\ puts[n] \in DOMAIN futures
      /\ \A n \in DOMAIN gets : futures[gets[n]].owner \in Receivers /\ gets[n] \in DOMAIN futures
  <2>1. /\ \A n \in DOMAIN puts : puts[n] \in DOMAIN futures
        /\ \A n \in DOMAIN gets : gets[n] \in DOMAIN futures
    BY <1>1, ElementsType
  <2> QED BY <2>1 DEF ChanInv, QueuesKnown
<1>3. CASE Full /\ ~chanClosed
  <2>1. Wait(s) /\ puts' = Append(puts, Len(futures) + 1) /\ UNCHANGED <<gets, chan>>
    BY <1>3 DEF Send
  <2>2. /\ futures' \in Seq(WaiterType) /\ Len(futures) + 1 \in DOMAIN futures'
        /\ DOMAIN futures \subseteq DOMAIN futures' /\ \A i \in DOMAIN futures : futures'[i] = futures[i]
        /\ futures'[Len(futures) + 1].owner = s
        /\ task' \in [Senders \cup Receivers -> [step : Steps, future : Nat]]
        /\ PendingOwned' /\ TasksKnown'
    BY <1>1, <2>1, WaitIs
  <2>3. puts \in Seq(DOMAIN futures') /\ gets \in Seq(DOMAIN futures')
    BY <1>1, <2>2, SeqMonotone
  <2>4. /\ puts' \in Seq(DOMAIN futures') /\ Len(puts') = Len(puts) + 1 /\ Len(puts) \in Nat
        /\ \A n \in 1..Len(puts) : puts'[n] = puts[n]
        /\ puts'[Len(puts) + 1] = Len(futures) + 1 /\ DOMAIN puts = 1..Len(puts)
    BY <2>1, <2>2, <2>3, AppendProperties, LenProperties
  <2>5. DOMAIN puts' = 1..(Len(puts) + 1)
    BY <2>4, LenProperties
  <2>6. ChanShape'
    BY <1>1, <2>1, <2>2, <2>3, <2>4 DEF ChanShape
  <2>7. QueuesKnown'
    <3>1. ASSUME NEW n \in DOMAIN puts' PROVE futures'[puts'[n]].owner \in Senders
      <4>1. n = Len(puts) + 1 \/ n \in DOMAIN puts
        BY <2>4, <2>5
      <4> QED BY <1>2, <2>2, <2>4, <4>1
    <3>2. \A n \in DOMAIN gets' : futures'[gets'[n]].owner \in Receivers
      BY <1>2, <2>1, <2>2
    <3> QED BY <3>1, <3>2 DEF QueuesKnown
  <2>8. RoomForWakeUps'
    <3>1. Cardinality(WakeUps(futures', task')) \in Nat
      BY <2>2, WakeUpsFinite
    <3>2. MaxSize - Len(chan') <= 0
      BY <1>1, <1>3, <2>1 DEF Full
    <3>3. MaxSize - Len(chan') \in Int
      BY <1>1, <2>1
    <3> QED BY <3>1, <3>2, <3>3 DEF RoomForWakeUps
  <2> QED BY <2>2, <2>6, <2>7, <2>8 DEF ChanInv
<1>4. CASE ~(Full /\ ~chanClosed) /\ (Full \/ chanClosed)
  <2>1. chanClosed /\ Finished(s, "raised") /\ UNCHANGED <<futures, gets, puts, chan>>
    BY <1>1, <1>4 DEF Send, SendNow
  <2>2. /\ task' \in [Senders \cup Receivers -> [step : Steps, future : Nat]]
        /\ PendingOwned' /\ TasksKnown'
    <3>1. "raised" \in Steps \ {"waits", "cancelling"}
      BY <1>1
    <3> QED BY <1>1, <2>1, <3>1, NothingAwaited, WakeKeeps
  <2>3. ChanShape'
    BY <1>1, <2>1, <2>2 DEF ChanShape
  <2>4. QueuesKnown' /\ RoomForWakeUps'
    BY <1>1, <1>2, <2>1 DEF QueuesKnown, RoomForWakeUps
  <2> QED BY <2>2, <2>3, <2>4 DEF ChanInv
<1>5. CASE ~Full /\ ~chanClosed
  <2>1. /\ Finished(s, "sent") /\ chan' = Append(chan, s) /\ puts' = puts
        /\ gets' = LeftAfterWake(gets, futures) /\ futures' = Woken(gets, futures)
    BY <1>5 DEF Send, SendNow
  <2>2. /\ futures' \in Seq(WaiterType) /\ DOMAIN futures' = DOMAIN futures
        /\ \A i \in DOMAIN futures :
              /\ futures'[i].owner = futures[i].owner
              /\ futures'[i].state = "pending" => futures[i].state = "pending"
        /\ task' \in [Senders \cup Receivers -> [step : Steps, future : Nat]]
        /\ PendingOwned' /\ TasksKnown'
        /\ WakeUps(futures, task) \ {task[s].future} \subseteq WakeUps(futures', task')
    <3>1. "sent" \in Steps \ {"waits", "cancelling"} /\ futures' \in {futures, Woken(gets, futures)}
      BY <1>1, <2>1
    <3> QED BY <1>1, <2>1, <3>1, NothingAwaited, WakeKeeps
  <2>3. /\ gets' \in Seq(DOMAIN futures)
        /\ \A i \in DOMAIN gets' : \E j \in DOMAIN gets : gets'[i] = gets[j]
    BY <1>1, <2>1, LeftIs
  <2>4. chan' \in Seq(Senders) /\ Len(chan') = Len(chan) + 1
    BY <1>1, <2>1, AppendProperties
  <2>5. ChanShape'
    <3>1. Len(chan') <= MaxSize
      BY <1>1, <1>5, <2>4 DEF Full
    <3> QED BY <1>1, <2>1, <2>2, <2>3, <2>4, <3>1 DEF ChanShape
  <2>6. QueuesKnown'
    <3>1. \A n \in DOMAIN puts' : futures'[puts'[n]].owner \in Senders
      BY <1>2, <2>1, <2>2
    <3>2. ASSUME NEW n \in DOMAIN gets' PROVE futures'[gets'[n]].owner \in Receivers
      <4>1. PICK m \in DOMAIN gets : gets'[n] = gets[m]
        BY <2>3
      <4> QED BY <1>2, <2>2, <4>1
    <3> QED BY <3>1, <3>2 DEF QueuesKnown
  <2>7. ASSUME FirstPending(puts', futures') # 0
        PROVE  MaxSize - Len(chan') <= Cardinality(WakeUps(futures', task'))
    <3> DEFINE W == WakeUps(futures, task)
               V == WakeUps(futures', task')
    <3>1. \E n \in DOMAIN puts : futures'[puts[n]].state = "pending"
      <4>1. puts \in Seq(DOMAIN futures') /\ FirstPending(puts, futures') # 0
        BY <1>1, <2>1, <2>2, <2>7
      <4> QED BY <2>2, <4>1, PendingIs
    <3>2. FirstPending(puts, futures) # 0
      BY <1>1, <1>2, <2>2, <3>1, PendingIs
    <3>3. MaxSize - Len(chan) <= Cardinality(W)
      BY <1>5, <3>2 DEF ChanInv, RoomForWakeUps, Pending
    <3>4. IsFiniteSet(W) /\ Cardinality(W) \in Nat /\ IsFiniteSet(V) /\ Cardinality(V) \in Nat
      BY <1>1, <2>2, WakeUpsFinite
    <3>5. W \ {task[s].future} \subseteq V
      BY <2>2
    <3> HIDE DEF W, V
    <3>6. Cardinality(W) - 1 <= Cardinality(V)
      BY <3>4, <3>5, OneLess
    <3>7. MaxSize - Len(chan') <= Cardinality(V)
      BY <1>1, <2>4, <3>3, <3>4, <3>6
    <3> QED BY <3>7 DEF V
  <2>8. RoomForWakeUps'
    BY <2>7 DEF RoomForWakeUps, Pending
  <2> QED BY <2>2, <2>5, <2>6, <2>8 DEF ChanInv
<1> QED BY <1>3, <1>4, <1>5

\* A step that wakes the first pending sender leaves a wake-up for each free place.
LEMMA RoomPassedOn ==
    ASSUME ChannelAssumption, ChanInv, ChanShape', NEW t \in Senders \cup Receivers,
           NEW step \in Steps \ {"waits", "cancelling"}, NEW queue \in Seq(DOMAIN futures), Finished(t, step),
           task[t].future # 0 => futures[task[t].future].state # "pending",
           futures' = Woken(queue, futures), puts' = LeftAfterWake(queue, futures),
           \A n \in DOMAIN queue : \E m \in DOMAIN puts : queue[n] = puts[m],
           chanClosed' = chanClosed,
           \/ Len(chan') = Len(chan)
           \/ Len(chan') = Len(chan) - 1 /\ task[t].future \notin WakeUps(futures, task)
    PROVE  RoomForWakeUps'
<1> SUFFICES ASSUME FirstPending(puts', futures') # 0, ~chanClosed'
             PROVE  MaxSize - Len(chan') <= Cardinality(WakeUps(futures', task'))
  BY DEF RoomForWakeUps, Pending
<1> DEFINE n == FirstPending(queue, futures)
           W == WakeUps(futures, task)
           V == WakeUps(futures', task')
<1>1. futures \in Seq(WaiterType) /\ puts \in Seq(DOMAIN futures) /\ chan \in Seq(Senders)
  BY DEF ChanInv, ChanShape
<1>2. futures' \in Seq(WaiterType) /\ puts' \in Seq(DOMAIN futures') /\ chan' \in Seq(Senders)
  BY DEF ChanShape
<1>3. DOMAIN futures \in SUBSET Nat
  BY <1>1, LenProperties
<1>4. n # 0
  <2>1. puts' # <<>>
    <3>1. PICK i \in DOMAIN puts' : futures'[puts'[i]].state = "pending"
      BY <1>2, PendingIs
    <3> QED BY <3>1, EmptySeq
  <2> QED BY <1>3, <2>1, FirstPendingIs
<1>5. n \in DOMAIN queue /\ queue[n] \in DOMAIN futures /\ futures[queue[n]].state = "pending"
  <2>1. n \in 0..Len(queue) /\ (n # 0 => queue[n] \in DOMAIN futures /\ futures[queue[n]].state = "pending")
    BY <1>3, FirstPendingIs
  <2>2. DOMAIN queue = 1..Len(queue) /\ Len(queue) \in Nat
    BY LenProperties
  <2> HIDE DEF n
  <2> QED BY <1>4, <2>1, <2>2
<1>6. PICK m \in DOMAIN puts : queue[n] = puts[m]
  BY <1>5
<1>7. futures[queue[n]].owner \in Senders
  BY <1>6 DEF ChanInv, QueuesKnown
<1>8. /\ W \ {task[t].future} \subseteq V
      /\ queue[n] \in V /\ queue[n] \notin W /\ queue[n] # task[t].future
  <2>1. futures' \in {futures, Woken(queue, futures)}
    OBVIOUS
  <2> QED BY <1>4, <1>7, <2>1, WakeKeeps
<1>9. IsFiniteSet(W) /\ Cardinality(W) \in Nat /\ IsFiniteSet(V) /\ Cardinality(V) \in Nat
  BY <1>1, <1>2, WakeUpsFinite
<1>10. FirstPending(puts, futures) # 0
  BY <1>1, <1>5, <1>6, PendingIs
<1>11. MaxSize - Len(chan) <= Cardinality(W)
  BY <1>10 DEF ChanInv, RoomForWakeUps, Pending
<1>12. Len(chan) \in Nat /\ Len(chan') \in Nat /\ MaxSize \in Nat
  BY <1>1, <1>2, LenProperties DEF ChannelAssumption
<1> HIDE DEF n, W, V
<1>13. Cardinality(W) <= Cardinality(V) /\ (task[t].future \notin W => Cardinality(W) + 1 <= Cardinality(V))
  <2>1. queue[n] \in V \ W
    BY <1>8
  <2> QED BY <1>8, <1>9, <2>1, OneMore
<1>14. MaxSize - Len(chan') <= Cardinality(V)
  <2>1. CASE Len(chan') = Len(chan)
    BY <1>9, <1>11, <1>12, <1>13, <2>1
  <2>2. CASE Len(chan') = Len(chan) - 1 /\ task[t].future \notin W
    BY <1>9, <1>11, <1>12, <1>13, <2>2
  <2> QED BY <2>1, <2>2 DEF W
<1> QED BY <1>14 DEF V

LEMMA ReceiveKeeps ==
    ASSUME ChannelAssumption, ChanInv, NEW r \in Receivers, Receive(r) PROVE ChanInv'
<1>1. /\ futures \in Seq(WaiterType) /\ gets \in Seq(DOMAIN futures) /\ puts \in Seq(DOMAIN futures)
      /\ chan \in Seq(Senders) /\ Len(chan) \in Nat /\ Len(chan) <= MaxSize /\ MaxSize \in Nat /\ chanClosed \in BOOLEAN
      /\ r \in Senders \cup Receivers /\ {"raised", "idle"} \subseteq Steps \ {"waits", "cancelling"}
      /\ TaskRuns(r) /\ chanClosed' = chanClosed
  BY LenProperties DEF ChanInv, ChanShape, ChannelAssumption, Steps, Receive
<1>2. /\ \A n \in DOMAIN puts : futures[puts[n]].owner \in Senders /\ puts[n] \in DOMAIN futures
      /\ \A n \in DOMAIN gets : futures[gets[n]].owner \in Receivers /\ gets[n] \in DOMAIN futures
  <2>1. /\ \A n \in DOMAIN puts : puts[n] \in DOMAIN futures
        /\ \A n \in DOMAIN gets : gets[n] \in DOMAIN futures
    BY <1>1, ElementsType
  <2> QED BY <2>1 DEF ChanInv, QueuesKnown
<1>3. CASE chan # <<>>
  <2>1. /\ Finished(r, "idle") /\ chan' = Tail(chan) /\ gets' = gets
        /\ puts' = LeftAfterWake(puts, futures) /\ futures' = Woken(puts, futures)
    BY <1>3 DEF Receive
  <2>2. "idle" \in Steps \ {"waits", "cancelling"} /\ futures' \in {futures, Woken(puts, futures)}
    BY <1>1, <2>1
  <2>3. /\ futures' \in Seq(WaiterType) /\ DOMAIN futures' = DOMAIN futures
        /\ \A i \in DOMAIN futures : futures'[i].owner = futures[i].owner
        /\ task' \in [Senders \cup Receivers -> [step : Steps, future : Nat]]
        /\ PendingOwned' /\ TasksKnown'
    BY <1>1, <2>1, <2>2, NothingAwaited, WakeKeeps
  <2>4. /\ puts' \in Seq(DOMAIN futures)
        /\ \A i \in DOMAIN puts' : \E j \in DOMAIN puts : puts'[i] = puts[j]
    BY <1>1, <2>1, LeftIs
  <2>5. chan' \in Seq(Senders) /\ Len(chan') = Len(chan) - 1
    BY <1>1, <1>3, <2>1, HeadTailProperties
  <2>6. ChanShape'
    <3>1. Len(chan') <= MaxSize
      BY <1>1, <2>5
    <3> QED BY <1>1, <2>1, <2>3, <2>4, <2>5, <3>1 DEF ChanShape
  <2>7. QueuesKnown'
    <3>1. ASSUME NEW n \in DOMAIN puts' PROVE futures'[puts'[n]].owner \in Senders
      <4>1. PICK m \in DOMAIN puts : puts'[n] = puts[m]
        BY <2>4
      <4> QED BY <1>2, <2>3, <4>1
    <3>2. \A n \in DOMAIN gets' : futures'[gets'[n]].owner \in Receivers
      BY <1>2, <2>1, <2>3
    <3> QED BY <3>1, <3>2 DEF QueuesKnown
  <2>8. task[r].future \notin WakeUps(futures, task)
    <3>1. task[r].future \in DOMAIN futures => futures[task[r].future].owner = r
      <4>1. DOMAIN futures = 1..Len(futures) /\ Len(futures) \in Nat
        BY <1>1, LenProperties
      <4> QED BY <1>1, <4>1 DEF ChanInv, TasksKnown
    <3> QED BY <3>1 DEF WakeUps, ChannelAssumption
  <2>9. RoomForWakeUps'
    BY <1>1, <2>1, <2>2, <2>5, <2>6, <2>8, NothingAwaited, RoomPassedOn
  <2> QED BY <2>3, <2>6, <2>7, <2>9 DEF ChanInv
<1>4. CASE chan = <<>> /\ chanClosed
  <2>1. Finished(r, "raised") /\ UNCHANGED <<futures, gets, puts, chan>>
    BY <1>4 DEF Receive
  <2>2. /\ task' \in [Senders \cup Receivers -> [step : Steps, future : Nat]]
        /\ PendingOwned' /\ TasksKnown'
    <3>1. "raised" \in Steps \ {"waits", "cancelling"}
      BY <1>1
    <3> QED BY <1>1, <2>1, <3>1, NothingAwaited, WakeKeeps
  <2>3. ChanShape'
    BY <1>1, <2>1, <2>2 DEF ChanShape
  <2>4. QueuesKnown' /\ RoomForWakeUps'
    BY <1>1, <1>2, <1>4, <2>1 DEF QueuesKnown, RoomForWakeUps
  <2> QED BY <2>2, <2>3, <2>4 DEF ChanInv
<1>5. CASE chan = <<>> /\ ~chanClosed
  <2>1. Wait(r) /\ gets' = Append(gets, Len(futures) + 1) /\ UNCHANGED <<puts, chan>>
    BY <1>5 DEF Receive
  <2>2. /\ futures' \in Seq(WaiterType) /\ Len(futures) + 1 \in DOMAIN futures'
        /\ DOMAIN futures \subseteq DOMAIN futures' /\ \A i \in DOMAIN futures : futures'[i] = futures[i]
        /\ futures'[Len(futures) + 1].owner = r
        /\ task' \in [Senders \cup Receivers -> [step : Steps, future : Nat]]
        /\ PendingOwned' /\ TasksKnown'
        /\ WakeUps(futures, task) \subseteq WakeUps(futures', task')
    BY <1>1, <2>1, WaitIs
  <2>3. puts \in Seq(DOMAIN futures') /\ gets \in Seq(DOMAIN futures')
    BY <1>1, <2>2, SeqMonotone
  <2>4. /\ gets' \in Seq(DOMAIN futures') /\ Len(gets') = Len(gets) + 1 /\ Len(gets) \in Nat
        /\ \A n \in 1..Len(gets) : gets'[n] = gets[n]
        /\ gets'[Len(gets) + 1] = Len(futures) + 1 /\ DOMAIN gets = 1..Len(gets)
    BY <2>1, <2>2, <2>3, AppendProperties, LenProperties
  <2>5. DOMAIN gets' = 1..(Len(gets) + 1)
    BY <2>4, LenProperties
  <2>6. ChanShape'
    BY <1>1, <2>1, <2>2, <2>3, <2>4 DEF ChanShape
  <2>7. QueuesKnown'
    <3>1. ASSUME NEW n \in DOMAIN gets' PROVE futures'[gets'[n]].owner \in Receivers
      <4>1. n = Len(gets) + 1 \/ n \in DOMAIN gets
        BY <2>4, <2>5
      <4> QED BY <1>2, <2>2, <2>4, <4>1
    <3>2. \A n \in DOMAIN puts' : futures'[puts'[n]].owner \in Senders
      BY <1>2, <2>1, <2>2
    <3> QED BY <3>1, <3>2 DEF QueuesKnown
  <2>8. RoomForWakeUps'
    <3>1. \A n \in DOMAIN puts' : futures'[puts'[n]] = futures[puts[n]] /\ n \in DOMAIN puts
      BY <1>2, <2>1, <2>2
    <3>2. Len(chan') >= Len(chan) /\ (chanClosed => chanClosed')
      BY <1>1, <2>1
    <3> QED BY <2>2, <2>6, <3>1, <3>2, RoomStays
  <2> QED BY <2>2, <2>6, <2>7, <2>8 DEF ChanInv
<1> QED BY <1>1, <1>3, <1>4, <1>5

LEMMA SendCancelledKeeps ==
    ASSUME ChannelAssumption, ChanInv, NEW s \in Senders, SendCancelled(s) PROVE ChanInv'
<1> DEFINE future == task[s].future
           rest == RemoveFirst(puts, future)
           passOn == ~Full /\ futures[future].state # "cancelled"
<1>1. /\ futures \in Seq(WaiterType) /\ gets \in Seq(DOMAIN futures) /\ puts \in Seq(DOMAIN futures)
      /\ chan \in Seq(Senders) /\ Len(chan) \in Nat /\ Len(chan) <= MaxSize /\ MaxSize \in Nat /\ chanClosed \in BOOLEAN
      /\ s \in Senders \cup Receivers /\ "cancelled" \in Steps \ {"waits", "cancelling"}
  BY LenProperties DEF ChanInv, ChanShape, ChannelAssumption, Steps
<1>2. /\ task[s].step = "cancelling" /\ Finished(s, "cancelled")
      /\ puts' = IF passOn THEN LeftAfterWake(rest, futures) ELSE rest
      /\ futures' = IF passOn THEN Woken(rest, futures) ELSE futures
      /\ UNCHANGED <<gets, chan, chanClosed>>
  BY DEF SendCancelled
<1>3. future \in DOMAIN futures /\ futures[future].state # "pending"
  BY <1>1, <1>2 DEF ChanInv, TasksKnown
<1>4. rest \in Seq(DOMAIN futures) /\ \A n \in DOMAIN rest : \E m \in DOMAIN puts : rest[n] = puts[m]
  <2>1. rest \in Seq(DOMAIN futures) /\ ToSet(rest) \subseteq ToSet(puts)
    BY <1>1, RemoveFirstElements
  <2> HIDE DEF rest
  <2> QED BY <2>1 DEF ToSet
<1> HIDE DEF future, rest, passOn
<1>5. /\ futures' \in Seq(WaiterType) /\ DOMAIN futures' = DOMAIN futures
      /\ \A i \in DOMAIN futures : futures'[i].owner = futures[i].owner
      /\ task' \in [Senders \cup Receivers -> [step : Steps, future : Nat]]
      /\ PendingOwned' /\ TasksKnown'
      /\ WakeUps(futures, task) \ {future} \subseteq WakeUps(futures', task')
  <2>1. futures' \in {futures, Woken(rest, futures)}
    BY <1>2
  <2>2. task[s].future # 0 => futures[task[s].future].state # "pending"
    BY <1>3 DEF future
  <2> QED BY <1>1, <1>2, <1>4, <2>1, <2>2, WakeKeeps DEF future
<1>6. puts' \in Seq(DOMAIN futures) /\ \A n \in DOMAIN puts' : \E m \in DOMAIN puts : puts'[n] = puts[m]
  <2>1. CASE passOn
    <3>1. /\ puts' \in Seq(DOMAIN futures)
          /\ \A i \in DOMAIN puts' : \E j \in DOMAIN rest : puts'[i] = rest[j]
      BY <1>2, <1>4, <2>1, LeftIs
    <3> QED BY <1>4, <3>1
  <2>2. CASE ~passOn
    BY <1>2, <1>4, <2>2
  <2> QED BY <2>1, <2>2
<1>7. ChanShape'
  BY <1>1, <1>2, <1>5, <1>6 DEF ChanShape
<1>8. QueuesKnown'
  <2>1. ASSUME NEW n \in DOMAIN puts' PROVE futures'[puts'[n]].owner \in Senders
    <3>1. PICK m \in DOMAIN puts : puts'[n] = puts[m]
      BY <1>6
    <3>2. puts[m] \in DOMAIN futures
      BY <1>1, ElementsType
    <3> QED BY <1>5, <3>1, <3>2 DEF ChanInv, QueuesKnown
  <2>2. ASSUME NEW n \in DOMAIN gets' PROVE futures'[gets'[n]].owner \in Receivers
    <3>1. gets[n] \in DOMAIN futures
      BY <1>1, <1>2, <2>2, ElementsType
    <3> QED BY <1>2, <1>5, <3>1 DEF ChanInv, QueuesKnown
  <2> QED BY <2>1, <2>2 DEF QueuesKnown
<1>9. RoomForWakeUps'
  <2>1. CASE passOn
    <3>1. /\ futures' = Woken(rest, futures) /\ puts' = LeftAfterWake(rest, futures)
          /\ chanClosed' = chanClosed /\ Len(chan') = Len(chan)
      BY <1>2, <2>1
    <3>2. task[s].future # 0 => futures[task[s].future].state # "pending"
      BY <1>3 DEF future
    <3> QED BY <1>1, <1>2, <1>4, <1>7, <3>1, <3>2, RoomPassedOn
  <2>2. CASE Full
    <3>1. Cardinality(WakeUps(futures', task')) \in Nat
      BY <1>5, WakeUpsFinite
    <3>2. MaxSize - Len(chan') <= 0 /\ MaxSize - Len(chan') \in Int
      BY <1>1, <1>2, <2>2 DEF Full
    <3> QED BY <3>1, <3>2 DEF RoomForWakeUps
  <2>3. CASE ~passOn /\ futures[future].state = "cancelled"
    <3>1. future \notin WakeUps(futures, task)
      BY <2>3 DEF WakeUps
    <3>2. WakeUps(futures, task) \subseteq WakeUps(futures', task')
      BY <1>5, <3>1
    <3>3. futures' = futures /\ Len(chan') >= Len(chan) /\ (chanClosed => chanClosed')
      BY <1>1, <1>2, <2>3
    <3>4. ASSUME NEW n \in DOMAIN puts', futures'[puts'[n]].state = "pending"
          PROVE  \E m \in DOMAIN puts : futures[puts[m]].state = "pending"
      BY <1>6, <3>3, <3>4
    <3> QED BY <1>7, <3>2, <3>3, <3>4, RoomStays
  <2> QED BY <2>1, <2>2, <2>3 DEF passOn
<1> QED BY <1>5, <1>7, <1>8, <1>9 DEF ChanInv

\* A task that ends its wait without waking anybody.
LEMMA GoesOn ==
    ASSUME ChannelAssumption, ChanInv, NEW t \in Senders \cup Receivers,
           NEW step \in Steps \ {"waits", "cancelling"}, Finished(t, step),
           task[t].future # 0 => futures[task[t].future].state # "pending",
           task[t].future \notin WakeUps(futures, task),
           UNCHANGED <<futures, gets, puts, chan, chanClosed>>
    PROVE  ChanInv'
<1>1. /\ futures \in Seq(WaiterType) /\ gets \in Seq(DOMAIN futures) /\ chan \in Seq(Senders) /\ Len(chan) \in Nat
      /\ chanClosed \in BOOLEAN
  BY LenProperties DEF ChanInv, ChanShape
<1>2. /\ task' \in [Senders \cup Receivers -> [step : Steps, future : Nat]]
      /\ PendingOwned' /\ TasksKnown'
      /\ WakeUps(futures, task) \ {task[t].future} \subseteq WakeUps(futures', task')
  BY <1>1, WakeKeeps
<1>3. ChanShape'
  BY <1>2 DEF ChanInv, ChanShape
<1>4. QueuesKnown'
  BY DEF ChanInv, QueuesKnown
<1>5. RoomForWakeUps'
  <2>1. WakeUps(futures, task) \subseteq WakeUps(futures', task')
    BY <1>2
  <2> QED BY <1>1, <1>3, <2>1, RoomStays
<1> QED BY <1>2, <1>3, <1>4, <1>5 DEF ChanInv

LEMMA ReceiveCancelledKeeps ==
    ASSUME ChannelAssumption, ChanInv, NEW r \in Receivers, ReceiveCancelled(r) PROVE ChanInv'
<1>1. /\ task[r].step = "cancelling" /\ Finished(r, "idle") /\ UNCHANGED <<futures, gets, puts, chan, chanClosed>>
      /\ r \in Senders \cup Receivers /\ "idle" \in Steps \ {"waits", "cancelling"}
  BY DEF ReceiveCancelled, Steps
<1>2. task[r].future \in DOMAIN futures /\ futures[task[r].future].owner = r
  BY <1>1 DEF ChanInv, TasksKnown
<1>3. task[r].future \notin WakeUps(futures, task)
  BY <1>2 DEF WakeUps, ChannelAssumption
<1> QED BY <1>1, <1>3, NothingAwaited, GoesOn

LEMMA ClosedUnderKeeps ==
    ASSUME ChannelAssumption, ChanInv, NEW t \in Senders \cup Receivers, ClosedUnder(t) PROVE ChanInv'
<1>1. /\ task[t].step = "waits" /\ futures[task[t].future].state = "closed"
      /\ Finished(t, "raised") /\ UNCHANGED <<futures, gets, puts, chan, chanClosed>>
      /\ "raised" \in Steps \ {"waits", "cancelling"}
  BY DEF ClosedUnder, Steps
<1>2. task[t].future \notin WakeUps(futures, task)
  BY <1>1 DEF WakeUps
<1> QED BY <1>1, <1>2, NothingAwaited, GoesOn

LEMMA CancelKeeps ==
    ASSUME ChannelAssumption, ChanInv, NEW t \in Senders \cup Receivers, Cancel(t) PROVE ChanInv'
<1> DEFINE future == task[t].future
           state == IF futures[future].state = "pending" THEN "cancelled" ELSE futures[future].state
<1>1. futures \in Seq(WaiterType) /\ Len(futures) \in Nat /\ DOMAIN futures = 1..Len(futures)
  BY LenProperties DEF ChanInv, ChanShape
<1>2. future \in DOMAIN futures /\ futures[future].owner = t /\ task[t].step = "waits"
  BY DEF ChanInv, TasksKnown, Cancel
<1>3. \A i \in DOMAIN futures : futures[i] \in WaiterType
  BY <1>1, ElementOfSeq
<1>4. [futures[future] EXCEPT !.state = state] \in WaiterType
  BY <1>2, <1>3 DEF WaiterType
<1>5. futures' = [futures EXCEPT ![future] = [futures[future] EXCEPT !.state = state]]
  BY DEF Cancel
<1>6. futures[future] \in WaiterType
  BY <1>2, <1>3
<1>7. /\ task \in [Senders \cup Receivers -> [step : Steps, future : Nat]]
      /\ task' = [task EXCEPT ![t].step = "cancelling"]
      /\ UNCHANGED <<gets, puts, chan, chanClosed>>
  BY DEF ChanInv, ChanShape, Cancel
<1>8. /\ task' \in [Senders \cup Receivers -> [step : Steps, future : Nat]]
      /\ task'[t].step = "cancelling" /\ task'[t].future = future
      /\ \A u \in Senders \cup Receivers : u # t => task'[u] = task[u]
  BY <1>7 DEF Steps
<1> HIDE DEF future
<1>9. futures' \in Seq(WaiterType) /\ Len(futures') = Len(futures)
  BY <1>1, <1>2, <1>4, <1>5, ExceptSeq
<1>10. DOMAIN futures' = DOMAIN futures
  BY <1>1, <1>9, LenProperties
<1>11. \A i \in DOMAIN futures :
          /\ futures'[i].owner = futures[i].owner
          /\ i # future => futures'[i] = futures[i]
          /\ i = future => futures'[i].state = state
  BY <1>1, <1>2, <1>5, <1>6 DEF WaiterType
<1>12. state # "pending" /\ (futures[future].state # "pending" => state = futures[future].state)
  OBVIOUS
<1> HIDE DEF state
<1>13. PendingOwned'
  <2> SUFFICES ASSUME NEW i \in DOMAIN futures', futures'[i].state = "pending"
               PROVE  task'[futures'[i].owner] = [step |-> "waits", future |-> i]
    BY DEF PendingOwned
  <2>1. i \in DOMAIN futures /\ i # future /\ futures[i].state = "pending" /\ futures'[i].owner = futures[i].owner
    BY <1>10, <1>11, <1>12
  <2>2. task[futures[i].owner] = [step |-> "waits", future |-> i] /\ futures[i].owner \in Senders \cup Receivers
    BY <1>3, <2>1 DEF ChanInv, PendingOwned, WaiterType
  <2>3. futures[i].owner # t
    BY <2>1, <2>2 DEF future
  <2> QED BY <1>8, <2>1, <2>2, <2>3
<1>14. TasksKnown'
  <2> SUFFICES ASSUME NEW u \in Senders \cup Receivers
               PROVE  IF task'[u].step \in {"waits", "cancelling"}
                      THEN /\ task'[u].future \in DOMAIN futures' /\ futures'[task'[u].future].owner = u
                           /\ task'[u].step = "cancelling" => futures'[task'[u].future].state # "pending"
                      ELSE task'[u].future = 0
    BY DEF TasksKnown
  <2>1. CASE u = t
    BY <1>2, <1>8, <1>10, <1>11, <1>12, <2>1
  <2>2. CASE u # t
    <3>1. task'[u] = task[u]
      BY <1>8, <2>2
    <3>2. IF task[u].step \in {"waits", "cancelling"}
          THEN /\ task[u].future \in DOMAIN futures /\ futures[task[u].future].owner = u
               /\ task[u].step = "cancelling" => futures[task[u].future].state # "pending"
          ELSE task[u].future = 0
      BY DEF ChanInv, TasksKnown
    <3>3. \A i \in DOMAIN futures : futures'[i].owner = futures[i].owner
                                    /\ (futures[i].state # "pending" => futures'[i].state # "pending")
      BY <1>11, <1>12
    <3> QED BY <1>10, <3>1, <3>2, <3>3
  <2> QED BY <2>1, <2>2
<1>15. ChanShape'
  BY <1>7, <1>8, <1>9, <1>10 DEF ChanInv, ChanShape
<1>16. QueuesKnown'
  <2>1. /\ \A n \in DOMAIN puts : puts[n] \in DOMAIN futures
        /\ \A n \in DOMAIN gets : gets[n] \in DOMAIN futures
    BY ElementsType DEF ChanInv, ChanShape
  <2> QED BY <1>7, <1>11, <2>1 DEF ChanInv, QueuesKnown
<1>17. RoomForWakeUps'
  <2>1. WakeUps(futures, task) \subseteq WakeUps(futures', task')
    <3> SUFFICES ASSUME NEW i \in DOMAIN futures, futures[i].state = "woken", futures[i].owner \in Senders,
                        task[futures[i].owner].future = i
                 PROVE  i \in WakeUps(futures', task')
      BY DEF WakeUps
    <3>1. futures'[i].state = "woken" /\ futures'[i].owner = futures[i].owner
      BY <1>11, <1>12
    <3>2. task'[futures[i].owner].future = task[futures[i].owner].future
      BY <1>8 DEF future
    <3> QED BY <1>10, <3>1, <3>2 DEF WakeUps
  <2>2. ASSUME NEW n \in DOMAIN puts', futures'[puts'[n]].state = "pending"
        PROVE  \E m \in DOMAIN puts : futures[puts[m]].state = "pending"
    <3>1. n \in DOMAIN puts /\ puts'[n] = puts[n] /\ puts[n] \in DOMAIN futures
      BY <1>7, <2>2, ElementsType DEF ChanInv, ChanShape
    <3> QED BY <1>11, <1>12, <2>2, <3>1
  <2>3. Len(chan') >= Len(chan) /\ (chanClosed => chanClosed')
    <3>1. Len(chan) \in Nat
      BY LenProperties DEF ChanInv, ChanShape
    <3> QED BY <1>7, <3>1
  <2> QED BY <1>15, <2>1, <2>2, <2>3, RoomStays
<1> QED BY <1>13, <1>14, <1>15, <1>16, <1>17 DEF ChanInv

LEMMA CloseKeeps ==
    ASSUME ChannelAssumption, ChanInv, Close PROVE ChanInv'
<1>1. futures \in Seq(WaiterType) /\ Len(futures) \in Nat /\ DOMAIN futures = 1..Len(futures)
  BY LenProperties DEF ChanInv, ChanShape
<1>2. \A i \in DOMAIN futures : futures[i] \in WaiterType
  BY <1>1, ElementOfSeq
<1>3. chanClosed' = TRUE /\ gets' = <<>> /\ UNCHANGED <<puts, chan, task>>
  BY DEF Close
<1>4. PICK refused, woken :
         futures' = [i \in DOMAIN futures |->
                        IF futures[i].state # "pending" THEN futures[i]
                        ELSE IF i \in refused THEN [futures[i] EXCEPT !.state = "closed"]
                        ELSE IF i \in woken THEN [futures[i] EXCEPT !.state = "woken"] ELSE futures[i]]
  <2> DEFINE stay == SubSeq(gets, 1, IF Len(gets) > Len(chan) THEN Len(chan) ELSE Len(gets))
             refused == {puts[n] : n \in DOMAIN puts} \cup {gets[n] : n \in (Len(stay) + 1)..Len(gets)}
             woken == {stay[n] : n \in DOMAIN stay}
  <2>1. \A i : i \in woken <=> \E n \in DOMAIN stay : stay[n] = i
    OBVIOUS
  <2>2. futures' = [i \in DOMAIN futures |->
                       IF futures[i].state # "pending" THEN futures[i]
                       ELSE IF i \in refused THEN [futures[i] EXCEPT !.state = "closed"]
                       ELSE IF \E n \in DOMAIN stay : stay[n] = i
                       THEN [futures[i] EXCEPT !.state = "woken"] ELSE futures[i]]
    BY DEF Close
  <2> HIDE DEF refused, stay
  <2>3. futures' = [i \in DOMAIN futures |->
                       IF futures[i].state # "pending" THEN futures[i]
                       ELSE IF i \in refused THEN [futures[i] EXCEPT !.state = "closed"]
                       ELSE IF i \in woken THEN [futures[i] EXCEPT !.state = "woken"] ELSE futures[i]]
    BY <2>2
  <2> HIDE DEF woken
  <2> QED BY <2>3, Zenon
<1>5. \A i \in DOMAIN futures : /\ futures'[i] \in WaiterType /\ futures'[i].owner = futures[i].owner
                                /\ futures'[i].state = "pending" => futures[i].state = "pending"
  <2> TAKE i \in DOMAIN futures
  <2>1. /\ futures[i] \in WaiterType
        /\ \A e \in {"closed", "woken"} :
              /\ [futures[i] EXCEPT !.state = e] \in WaiterType
              /\ [futures[i] EXCEPT !.state = e].owner = futures[i].owner
              /\ [futures[i] EXCEPT !.state = e].state = e
    BY <1>2 DEF WaiterType
  <2>2. futures'[i] \in {futures[i], [futures[i] EXCEPT !.state = "closed"], [futures[i] EXCEPT !.state = "woken"]}
    BY <1>4
  <2> QED BY <2>1, <2>2
<1>6. futures' \in Seq(WaiterType) /\ DOMAIN futures' = DOMAIN futures
  <2>1. DOMAIN futures' = DOMAIN futures /\ futures' = [i \in DOMAIN futures |-> futures'[i]]
    BY <1>4
  <2>2. futures' \in [1..Len(futures) -> WaiterType]
    BY <1>1, <1>5, <2>1
  <2> QED BY <1>1, <2>1, <2>2, SeqDef
<1>7. gets' \in Seq(DOMAIN futures') /\ DOMAIN gets' = {}
  BY <1>3, EmptySeq
<1>8. ChanShape'
  BY <1>3, <1>6, <1>7 DEF ChanInv, ChanShape
<1>9. PendingOwned' /\ TasksKnown'
  BY <1>3, <1>5, <1>6 DEF ChanInv, PendingOwned, TasksKnown
<1>10. QueuesKnown'
  <2>1. \A n \in DOMAIN puts : puts[n] \in DOMAIN futures
    BY ElementsType DEF ChanInv, ChanShape
  <2> QED BY <1>3, <1>5, <1>7, <2>1 DEF ChanInv, QueuesKnown
<1>11. RoomForWakeUps'
  BY <1>3 DEF RoomForWakeUps
<1> QED BY <1>8, <1>9, <1>10, <1>11 DEF ChanInv

LEMMA ChanStepKeeps ==
    ASSUME ChannelAssumption, ChanInv, [ChanNext]_chanVars PROVE ChanInv'
<1>1. CASE UNCHANGED chanVars
  BY <1>1 DEF ChanInv, ChanShape, PendingOwned, TasksKnown, QueuesKnown, RoomForWakeUps, Pending, chanVars
<1>2. CASE ChanNext
  BY <1>2, SendKeeps, SendCancelledKeeps, ReceiveKeeps, ReceiveCancelledKeeps, ClosedUnderKeeps, CancelKeeps, CloseKeeps
     DEF ChanNext
<1> QED BY <1>1, <1>2

LEMMA ChanSafe == ChannelAssumption /\ ChanInv => ChanTypeOK /\ NoSenderForgotten
<1> SUFFICES ASSUME ChannelAssumption, ChanInv PROVE ChanTypeOK /\ NoSenderForgotten OBVIOUS
<1>1. /\ futures \in Seq(WaiterType) /\ gets \in Seq(DOMAIN futures) /\ puts \in Seq(DOMAIN futures)
      /\ chan \in Seq(Senders) /\ Len(chan) <= MaxSize /\ chanClosed \in BOOLEAN /\ MaxSize \in Nat /\ Len(chan) \in Nat
  BY LenProperties DEF ChanInv, ChanShape, ChannelAssumption
<1>2. ChanTypeOK
  <2>1. \A i \in DOMAIN futures : futures[i] \in WaiterType
    BY <1>1, ElementsType
  <2>2. \A i \in DOMAIN futures : futures[i].state \in {"pending", "woken", "cancelled", "closed"}
    BY <2>1 DEF WaiterType
  <2>3. {gets[i] : i \in DOMAIN gets} \cup {puts[i] : i \in DOMAIN puts} \subseteq DOMAIN futures
    BY <1>1, ElementsType
  <2> QED BY <1>1, <2>2, <2>3 DEF ChanTypeOK
<1>3. ASSUME Pending(puts), ~chanClosed, ~Full PROVE \E s \in Senders : Running(s)
  <2>1. Cardinality(WakeUps(futures, task)) # 0 /\ IsFiniteSet(WakeUps(futures, task))
    <3>1. MaxSize - Len(chan) <= Cardinality(WakeUps(futures, task))
      BY <1>3 DEF ChanInv, RoomForWakeUps
    <3>2. MaxSize - Len(chan) > 0
      BY <1>1, <1>3 DEF Full
    <3> QED BY <1>1, <3>1, <3>2, WakeUpsFinite
  <2>2. PICK i : i \in WakeUps(futures, task)
    BY <2>1, FS_EmptySet
  <2>3. /\ i \in DOMAIN futures /\ futures[i].state = "woken" /\ futures[i].owner \in Senders
        /\ task[futures[i].owner].future = i /\ i # 0
    <3>1. DOMAIN futures = 1..Len(futures) /\ Len(futures) \in Nat
      BY <1>1, LenProperties
    <3> QED BY <2>2, <3>1 DEF WakeUps
  <2>4. task[futures[i].owner].step \in {"waits", "cancelling"}
    BY <2>3 DEF ChanInv, TasksKnown
  <2> QED BY <2>3, <2>4 DEF Running, TaskRuns
<1> QED BY <1>2, <1>3 DEF NoSenderForgotten

(* Calls of a fallback adapter *)

CallStates == {"idle", "tries"} \cup Ended
CallType == [state : CallStates, at : Providers \cup {0}, allFailed : BOOLEAN, audio : {"none", "some", "enough"}]

CallsShape ==
    /\ synthesizes \in BOOLEAN /\ up \in [Providers -> BOOLEAN] /\ changes \in 0..MaxChanges
    /\ ranked \in [Providers -> BOOLEAN] /\ recovering \in [Providers -> {0, 1}]
    /\ call \in [Calls -> CallType]
    /\ tried \in [Calls -> SUBSET Providers] /\ steady \in [Calls -> SUBSET Providers]
    /\ heard \in [Calls -> [whom : SUBSET Providers, enough : BOOLEAN]]

\* A provider that was available all along is, and a call that tries has asked it or is before it.
CallInOrder(c) ==
    /\ \A p \in steady[c] : ranked[p]
    /\ call[c].state = "tries" =>
          /\ call[c].at \in Providers /\ call[c].at \in tried[c]
          /\ \A p \in steady[c] : p \in tried[c] \/ p > call[c].at
    /\ call[c].state = "failed" => tried[c] # {} /\ steady[c] \subseteq tried[c]

\* A call whose caller heard enough does not ask anybody else.
CallHeard(c) ==
    heard[c].enough =>
        synthesizes /\ call[c].state # "idle" /\ (call[c].state = "tries" => call[c].audio = "enough")

\* The inductive invariant of the calls.
CallsInv == CallsShape /\ \A c \in Calls : CallInOrder(c) /\ CallHeard(c)

LEMMA CallsInitInv == FallbackCallsAssumption /\ FallbackCallsInit => CallsInv
<1> SUFFICES ASSUME FallbackCallsAssumption, FallbackCallsInit PROVE CallsInv OBVIOUS
<1> USE DEF FallbackCallsInit
<1>1. CallsShape
  <2>1. [state |-> "idle", at |-> 0, allFailed |-> FALSE, audio |-> "none"] \in CallType
    BY DEF CallType, CallStates
  <2> QED BY <2>1 DEF CallsShape, FallbackCallsAssumption
<1>2. \A c \in Calls : CallInOrder(c) /\ CallHeard(c)
  BY DEF CallInOrder, CallHeard
<1> QED BY <1>1, <1>2 DEF CallsInv

\* The loop asks the first provider that is available, or any if none was; none only if none is left.
LEMMA NextAskedIs ==
    ASSUME FallbackCallsAssumption, NEW p \in Nat, NEW avail \in [Providers -> BOOLEAN], NEW all \in BOOLEAN
    PROVE  LET q == NextAsked(p, avail, all)
           IN /\ q \in Providers \cup {0} /\ Providers \subseteq Nat \ {0}
              /\ \A r \in Providers : r >= p /\ (avail[r] \/ all) => q # 0 /\ q <= r
              /\ q # 0 => q >= p
<1> DEFINE toAsk == {q \in Providers : q >= p /\ (avail[q] \/ all)}
<1>1. Providers \subseteq Nat \ {0}
  BY FS_CardinalityType DEF FallbackCallsAssumption
<1>2. CASE toAsk = {}
  <2>1. NextAsked(p, avail, all) = 0
    BY <1>2 DEF NextAsked
  <2> QED BY <1>1, <1>2, <2>1
<1>3. CASE toAsk # {}
  <2>1. \E x \in toAsk : \A y \in toAsk : x <= y
    <3>1. toAsk \in SUBSET Nat
      BY <1>1
    <3> HIDE DEF toAsk
    <3> QED BY <1>3, <3>1, LeastExists
  <2>2. NextAsked(p, avail, all) = CHOOSE q \in toAsk : \A r \in toAsk : q <= r
    BY <1>3 DEF NextAsked
  <2> DEFINE q == NextAsked(p, avail, all)
  <2>3. q \in toAsk /\ \A r \in toAsk : q <= r
    <3> HIDE DEF toAsk
    <3> QED BY <2>1, <2>2
  <2> QED BY <1>1, <2>3
<1> QED BY <1>2, <1>3

\* A call goes on from a provider, having asked all before it that were available all along.
LEMMA ProceedKeeps ==
    ASSUME FallbackCallsAssumption, CallsShape, NEW c \in Calls, NEW p \in Nat,
           NEW avail \in [Providers -> BOOLEAN], NEW all \in BOOLEAN, NEW failed \in SUBSET Providers,
           Proceed(c, p, avail, all, failed), ranked' = avail,
           steady' \in [Calls -> SUBSET Providers], \A q \in steady'[c] : avail[q] /\ (q \in tried[c] \/ q >= p),
           tried[c] # {} \/ \E r \in Providers : r >= p /\ (avail[r] \/ all)
    PROVE  /\ call' \in [Calls -> CallType] /\ tried' \in [Calls -> SUBSET Providers]
           /\ recovering' \in [Providers -> {0, 1}]
           /\ CallInOrder(c)' /\ call'[c].state \in {"tries", "failed"} /\ call'[c].audio = "none"
           /\ \A d \in Calls : d # c => call'[d] = call[d] /\ tried'[d] = tried[d]
<1> DEFINE q == NextAsked(p, avail, all)
           new == [state |-> IF q = 0 THEN "failed" ELSE "tries", at |-> q, allFailed |-> all, audio |-> "none"]
<1>1. /\ q \in Providers \cup {0} /\ Providers \subseteq Nat \ {0}
      /\ \A r \in Providers : r >= p /\ (avail[r] \/ all) => q # 0 /\ q <= r
      /\ q # 0 => q >= p
  BY NextAskedIs
<1>2. /\ call' = [call EXCEPT ![c] = new]
      /\ tried' = IF q = 0 THEN tried ELSE [tried EXCEPT ![c] = tried[c] \cup {q}]
      /\ \E ps : recovering' = TryRecovery(ps)
  BY DEF Proceed
<1> HIDE DEF q
<1>3. new \in CallType
  BY <1>1 DEF CallType, CallStates, Ended
<1>4. new.state = (IF q = 0 THEN "failed" ELSE "tries") /\ new.at = q /\ new.audio = "none"
  OBVIOUS
<1> HIDE DEF new
<1>5. /\ call' \in [Calls -> CallType] /\ call'[c] = new /\ \A d \in Calls : d # c => call'[d] = call[d]
  BY <1>2, <1>3 DEF CallsShape
<1>6. /\ tried' \in [Calls -> SUBSET Providers] /\ \A d \in Calls : d # c => tried'[d] = tried[d]
      /\ tried'[c] = IF q = 0 THEN tried[c] ELSE tried[c] \cup {q}
  BY <1>1, <1>2 DEF CallsShape
<1>7. recovering' \in [Providers -> {0, 1}]
  BY <1>2 DEF TryRecovery, CallsShape
<1>8. CallInOrder(c)'
  <2>1. \A r \in steady'[c] : ranked'[r]
    OBVIOUS
  <2>2. ASSUME q # 0, NEW r \in steady'[c] PROVE r \in tried'[c] \/ r > q
    <3>1. r \in Providers /\ avail[r] /\ (r \in tried[c] \/ r >= p)
      OBVIOUS
    <3>2. r \in Nat
      BY <1>1, <3>1
    <3>3. q \in Nat
      BY <1>1
    <3> QED BY <1>1, <1>6, <2>2, <3>1, <3>2, <3>3
  <2>3. ASSUME q = 0 PROVE tried'[c] # {} /\ steady'[c] \subseteq tried'[c]
    <3>1. \A r \in Providers : ~(r >= p /\ (avail[r] \/ all))
      BY <1>1, <2>3
    <3> QED BY <1>6, <2>3, <3>1
  <2> QED BY <1>1, <1>4, <1>5, <1>6, <2>1, <2>2, <2>3 DEF CallInOrder
<1> QED BY <1>4, <1>5, <1>6, <1>7, <1>8

\* What a step leaves of a call that it does not touch, but for the availability of a provider.
LEMMA OtherCall ==
    ASSUME CallsInv, NEW d \in Calls, call'[d] = call[d], tried'[d] = tried[d], heard'[d] = heard[d],
           synthesizes' = synthesizes, steady'[d] \subseteq steady[d], \A q \in steady'[d] : ranked'[q]
    PROVE  CallInOrder(d)' /\ CallHeard(d)'
<1>1. CallInOrder(d) /\ CallHeard(d)
  BY DEF CallsInv
<1>2. CallInOrder(d)'
  BY <1>1 DEF CallInOrder
<1>3. CallHeard(d)'
  BY <1>1 DEF CallHeard
<1> QED BY <1>2, <1>3

LEMMA CallBeginsKeeps ==
    ASSUME FallbackCallsAssumption, CallsInv, NEW c \in Calls, CallBegins(c) PROVE CallsInv'
<1> DEFINE all == \A p \in Providers : ~ranked[p]
<1>1. /\ CallsShape /\ call[c].state = "idle" /\ Proceed(c, 1, ranked, all, {})
      /\ steady' = [steady EXCEPT ![c] = {p \in Providers : ranked[p]}]
      /\ UNCHANGED <<synthesizes, up, changes, ranked, heard>>
  BY DEF CallBegins, CallsInv
<1>2. ranked \in [Providers -> BOOLEAN] /\ all \in BOOLEAN /\ {} \in SUBSET Providers /\ 1 \in Nat
  BY <1>1 DEF CallsShape
<1>3. steady' \in [Calls -> SUBSET Providers] /\ steady'[c] = {p \in Providers : ranked[p]}
      /\ \A d \in Calls : d # c => steady'[d] = steady[d]
  BY <1>1 DEF CallsShape
<1>4. Providers \subseteq Nat \ {0} /\ Providers # {}
  BY FS_CardinalityType DEF FallbackCallsAssumption
<1>5. \A q \in steady'[c] : ranked[q] /\ (q \in tried[c] \/ q >= 1)
  BY <1>3, <1>4
<1>6. \E r \in Providers : r >= 1 /\ (ranked[r] \/ all)
  <2>1. \A r \in Providers : r >= 1
    BY <1>4
  <2>2. CASE all
    BY <1>4, <2>1, <2>2
  <2>3. CASE ~all
    BY <2>1, <2>3
  <2> QED BY <2>2, <2>3
<1> HIDE DEF all
<1>7. /\ call' \in [Calls -> CallType] /\ tried' \in [Calls -> SUBSET Providers]
      /\ recovering' \in [Providers -> {0, 1}]
      /\ CallInOrder(c)'
      /\ \A d \in Calls : d # c => call'[d] = call[d] /\ tried'[d] = tried[d]
  BY <1>1, <1>2, <1>3, <1>5, <1>6, ProceedKeeps
<1>8. CallsShape'
  BY <1>1, <1>3, <1>7 DEF CallsShape
<1>9. CallHeard(c)'
  BY <1>1 DEF CallsInv, CallHeard
<1>10. ASSUME NEW d \in Calls, d # c PROVE CallInOrder(d)' /\ CallHeard(d)'
  <2>1. \A q \in steady[d] : ranked[q]
    BY DEF CallsInv, CallInOrder
  <2> QED BY <1>1, <1>3, <1>7, <1>10, <2>1, OtherCall
<1> QED BY <1>7, <1>8, <1>9, <1>10 DEF CallsInv

LEMMA AudioKeeps ==
    ASSUME CallsInv, NEW c \in Calls, Audio(c) PROVE CallsInv' /\ HeardOnce
<1> DEFINE level == IF call[c].audio = "none" THEN "some" ELSE "enough"
           new == [call[c] EXCEPT !.audio = level]
           hears == [whom |-> heard[c].whom \cup {call[c].at}, enough |-> level = "enough"]
<1>1. /\ CallsShape /\ synthesizes /\ call[c].state = "tries" /\ call[c].audio # "enough"
      /\ UNCHANGED <<synthesizes, up, changes, ranked, recovering, tried, steady>>
  BY DEF Audio, CallsInv
<1>2. call[c] \in CallType /\ heard[c] \in [whom : SUBSET Providers, enough : BOOLEAN] /\ call[c].at \in Providers
  BY <1>1 DEF CallsShape, CallsInv, CallInOrder
<1>3. new \in CallType /\ new.state = call[c].state /\ new.at = call[c].at /\ new.audio = level
  BY <1>2 DEF CallType
<1>4. call' = [call EXCEPT ![c] = new]
  BY DEF Audio
<1>5. call' \in [Calls -> CallType] /\ call'[c] = new /\ \A d \in Calls : d # c => call'[d] = call[d]
  <2> HIDE DEF new
  <2> QED BY <1>1, <1>3, <1>4 DEF CallsShape
<1>6. heard' = [heard EXCEPT ![c] = hears]
  <2>1. call'[c].audio = level
    BY <1>3, <1>5
  <2> HIDE DEF level, new
  <2> QED BY <2>1 DEF Audio
<1>7. hears \in [whom : SUBSET Providers, enough : BOOLEAN] /\ hears.enough = (level = "enough")
  BY <1>2
<1>8. /\ heard' \in [Calls -> [whom : SUBSET Providers, enough : BOOLEAN]]
      /\ heard'[c] = hears /\ \A d \in Calls : d # c => heard'[d] = heard[d]
  <2> HIDE DEF hears
  <2> QED BY <1>1, <1>6, <1>7 DEF CallsShape
<1> HIDE DEF level, new, hears
<1>9. CallsShape'
  BY <1>1, <1>5, <1>8 DEF CallsShape
<1>10. CallInOrder(c)'
  <2>1. CallInOrder(c)
    BY DEF CallsInv
  <2> QED BY <1>1, <1>3, <1>5, <2>1 DEF CallInOrder
<1>11. CallHeard(c)'
  BY <1>1, <1>3, <1>5, <1>7, <1>8 DEF CallHeard
<1>12. ASSUME NEW d \in Calls, d # c PROVE CallInOrder(d)' /\ CallHeard(d)'
  <2>1. \A q \in steady[d] : ranked[q]
    BY DEF CallsInv, CallInOrder
  <2> QED BY <1>1, <1>5, <1>8, <1>12, <2>1, OtherCall
<1>13. HeardOnce
  <2>1. ~heard[c].enough
    BY <1>1 DEF CallsInv, CallHeard
  <2> QED BY <1>8, <2>1 DEF HeardOnce
<1> QED BY <1>9, <1>10, <1>11, <1>12, <1>13 DEF CallsInv

\* A call that ends in another way than by having asked everybody.
LEMMA EndsKeeps ==
    ASSUME CallsInv, NEW c \in Calls, NEW state \in {"answered", "cut"}, call' = [call EXCEPT ![c].state = state],
           call[c].state = "tries",
           UNCHANGED <<synthesizes, up, changes, recovering, tried, heard>>, ranked' \in [Providers -> BOOLEAN],
           \A d \in Calls : steady'[d] \subseteq steady[d] /\ \A q \in steady'[d] : ranked'[q],
           steady' \in [Calls -> SUBSET Providers]
    PROVE  CallsInv'
<1> DEFINE new == [call[c] EXCEPT !.state = state]
<1>1. CallsShape /\ call[c] \in CallType
  BY DEF CallsInv, CallsShape
<1>2. new \in CallType /\ new.state = state /\ new.audio = call[c].audio
  BY <1>1 DEF CallType, CallStates, Ended
<1>3. call' = [call EXCEPT ![c] = new]
  OBVIOUS
<1> HIDE DEF new
<1>4. call' \in [Calls -> CallType] /\ call'[c] = new /\ \A d \in Calls : d # c => call'[d] = call[d]
  BY <1>1, <1>2, <1>3 DEF CallsShape
<1>5. CallsShape'
  BY <1>1, <1>4 DEF CallsShape
<1>6. CallInOrder(c)'
  BY <1>2, <1>4 DEF CallInOrder
<1>7. CallHeard(c)'
  BY <1>2, <1>4 DEF CallsInv, CallHeard
<1>8. ASSUME NEW d \in Calls, d # c PROVE CallInOrder(d)' /\ CallHeard(d)'
  BY <1>4, <1>8, OtherCall
<1> QED BY <1>5, <1>6, <1>7, <1>8 DEF CallsInv

\* A provider that is marked is available to nobody.
LEMMA MarkedIs ==
    ASSUME CallsInv, NEW p \in Providers, MarkUnavailable(p)
    PROVE  /\ ranked' \in [Providers -> BOOLEAN] /\ steady' \in [Calls -> SUBSET Providers]
           /\ \A d \in Calls : /\ steady'[d] = steady[d] \ {p}
                               /\ \A q \in steady'[d] : ranked'[q] /\ q # p
<1>1. ranked \in [Providers -> BOOLEAN] /\ steady \in [Calls -> SUBSET Providers]
  BY DEF CallsInv, CallsShape
<1>2. \A d \in Calls : \A q \in steady[d] : ranked[q]
  BY DEF CallsInv, CallInOrder
<1> QED BY <1>1, <1>2 DEF MarkUnavailable

\* An attempt fails, and the call goes on behind the provider.
LEMMA FailsOver ==
    ASSUME FallbackCallsAssumption, CallsInv, NEW c \in Calls, call[c].state = "tries", ~heard[c].enough,
           MarkUnavailable(call[c].at),
           Proceed(c, call[c].at + 1, ranked', call[c].allFailed, {call[c].at}),
           UNCHANGED <<synthesizes, up, changes, heard>>
    PROVE  CallsInv'
<1> DEFINE p == call[c].at
<1>1. CallsShape /\ call[c] \in CallType /\ CallInOrder(c)
  BY DEF CallsInv, CallsShape
<1>2. p \in Providers /\ p \in tried[c] /\ call[c].allFailed \in BOOLEAN
  BY <1>1 DEF CallInOrder, CallType
<1>3. Providers \subseteq Nat \ {0}
  BY FS_CardinalityType DEF FallbackCallsAssumption
<1>4. /\ ranked' \in [Providers -> BOOLEAN] /\ steady' \in [Calls -> SUBSET Providers]
      /\ \A d \in Calls : /\ steady'[d] = steady[d] \ {p}
                          /\ \A q \in steady'[d] : ranked'[q] /\ q # p
  BY <1>2, MarkedIs
<1>5. ASSUME NEW q \in steady'[c] PROVE ranked'[q] /\ (q \in tried[c] \/ q >= p + 1)
  <2>1. q \in steady[c] /\ q \in Providers
    BY <1>4
  <2>2. q \in tried[c] \/ q > p
    BY <1>1, <2>1 DEF CallInOrder
  <2>3. q \in Nat /\ p \in Nat
    BY <1>2, <1>3, <2>1
  <2> QED BY <1>4, <2>2, <2>3
<1>6. p + 1 \in Nat /\ {p} \in SUBSET Providers
  BY <1>2, <1>3
<1>7. /\ call' \in [Calls -> CallType] /\ tried' \in [Calls -> SUBSET Providers]
      /\ recovering' \in [Providers -> {0, 1}]
      /\ CallInOrder(c)'
      /\ \A d \in Calls : d # c => call'[d] = call[d] /\ tried'[d] = tried[d]
  BY <1>1, <1>2, <1>4, <1>5, <1>6, ProceedKeeps
<1>8. CallsShape'
  BY <1>1, <1>4, <1>7 DEF CallsShape
<1>9. CallHeard(c)'
  BY DEF CallHeard
<1>10. ASSUME NEW d \in Calls, d # c PROVE CallInOrder(d)' /\ CallHeard(d)'
  BY <1>4, <1>7, <1>10, OtherCall
<1> QED BY <1>7, <1>8, <1>9, <1>10 DEF CallsInv

\* The calls keep their order when only the recoveries or the providers change.
LEMMA OnlyProviders ==
    ASSUME CallsInv, CallsShape', UNCHANGED <<synthesizes, call, tried, steady, heard>>,
           \A p \in Providers : ranked[p] => ranked'[p]
    PROVE  CallsInv' /\ HeardOnce
<1>1. steady \in [Calls -> SUBSET Providers]
  BY DEF CallsInv, CallsShape
<1>2. ASSUME NEW d \in Calls PROVE CallInOrder(d)' /\ CallHeard(d)'
  <2>1. \A q \in steady'[d] : ranked'[q]
    BY <1>1 DEF CallsInv, CallInOrder
  <2> QED BY <2>1, OtherCall
<1> QED BY <1>2 DEF CallsInv, HeardOnce

LEMMA CallsStepKeeps ==
    ASSUME FallbackCallsAssumption, CallsInv, [FallbackCallsNext]_callVars
    PROVE  CallsInv' /\ [HeardOnce]_callVars
<1>1. CASE UNCHANGED callVars
  BY <1>1 DEF CallsInv, CallsShape, CallInOrder, CallHeard, callVars
<1>2. ASSUME NEW c \in Calls, CallBegins(c) PROVE CallsInv' /\ HeardOnce
  <2>1. heard' = heard
    BY <1>2 DEF CallBegins
  <2> QED BY <1>2, <2>1, CallBeginsKeeps DEF HeardOnce
<1>3. ASSUME NEW c \in Calls, Audio(c) PROVE CallsInv' /\ HeardOnce
  BY <1>3, AudioKeeps
<1>4. ASSUME NEW c \in Calls, Answered(c) PROVE CallsInv' /\ HeardOnce
  <2>1. /\ call[c].state = "tries" /\ call' = [call EXCEPT ![c].state = "answered"]
        /\ UNCHANGED <<synthesizes, up, changes, ranked, recovering, tried, steady, heard>>
    BY <1>4 DEF Answered
  <2>2. /\ ranked' \in [Providers -> BOOLEAN] /\ steady' \in [Calls -> SUBSET Providers]
        /\ \A d \in Calls : steady'[d] \subseteq steady[d] /\ \A q \in steady'[d] : ranked'[q]
    BY <2>1 DEF CallsInv, CallsShape, CallInOrder
  <2> QED BY <2>1, <2>2, EndsKeeps DEF HeardOnce
<1>5. ASSUME NEW c \in Calls, SynthesisFails(c) PROVE CallsInv' /\ HeardOnce
  <2>1. /\ call[c].state = "tries" /\ MarkUnavailable(call[c].at) /\ call[c].at \in Providers
        /\ UNCHANGED <<synthesizes, up, changes, heard>>
    BY <1>5 DEF SynthesisFails, CallsInv, CallInOrder
  <2>2. CASE call[c].audio = "enough"
    <3>1. call' = [call EXCEPT ![c].state = "cut"] /\ UNCHANGED <<recovering, tried>>
      BY <1>5, <2>2 DEF SynthesisFails
    <3>2. /\ ranked' \in [Providers -> BOOLEAN] /\ steady' \in [Calls -> SUBSET Providers]
          /\ \A d \in Calls : steady'[d] \subseteq steady[d] /\ \A q \in steady'[d] : ranked'[q]
      BY <2>1, MarkedIs
    <3> QED BY <2>1, <3>1, <3>2, EndsKeeps DEF HeardOnce
  <2>3. CASE call[c].audio # "enough"
    <3>1. Proceed(c, call[c].at + 1, ranked', call[c].allFailed, {call[c].at})
      BY <1>5, <2>3 DEF SynthesisFails
    <3>2. ~heard[c].enough
      BY <2>1, <2>3 DEF CallsInv, CallHeard
    <3> QED BY <2>1, <3>1, <3>2, FailsOver DEF HeardOnce
  <2> QED BY <2>2, <2>3
<1>6. ASSUME NEW c \in Calls, RecognitionFails(c) PROVE CallsInv' /\ HeardOnce
  <2>1. /\ call[c].state = "tries" /\ MarkUnavailable(call[c].at) /\ ~heard[c].enough
        /\ Proceed(c, call[c].at + 1, ranked', call[c].allFailed, {call[c].at})
        /\ UNCHANGED <<synthesizes, up, changes, heard>>
    BY <1>6 DEF RecognitionFails, CallsInv, CallHeard
  <2> QED BY <2>1, FailsOver DEF HeardOnce
<1>7. ASSUME NEW p \in Providers, Recovers(p) PROVE CallsInv' /\ HeardOnce
  <2>1. CallsShape' /\ UNCHANGED <<synthesizes, call, tried, steady, heard>>
    BY <1>7 DEF Recovers, CallsInv, CallsShape
  <2>2. \A q \in Providers : ranked[q] => ranked'[q]
    BY <1>7 DEF Recovers, CallsInv, CallsShape
  <2> QED BY <2>1, <2>2, OnlyProviders
<1>8. ASSUME NEW p \in Providers, ProviderChanges(p) PROVE CallsInv' /\ HeardOnce
  <2>1. CallsShape' /\ UNCHANGED <<synthesizes, call, tried, steady, heard, ranked>>
    BY <1>8 DEF ProviderChanges, CallsInv, CallsShape, FallbackCallsAssumption
  <2> QED BY <2>1, OnlyProviders
<1>9. ASSUME AdapterClosed PROVE CallsInv' /\ HeardOnce
  <2>1. CallsShape' /\ UNCHANGED <<synthesizes, call, tried, steady, heard, ranked>>
    BY <1>9 DEF AdapterClosed, CallsInv, CallsShape
  <2> QED BY <2>1, OnlyProviders
<1> QED BY <1>1, <1>2, <1>3, <1>4, <1>5, <1>6, <1>7, <1>8, <1>9 DEF FallbackCallsNext

LEMMA CallsSafe == FallbackCallsAssumption /\ CallsInv => FallbackCallsTypeOK /\ FailedAskedAll /\ OneRecovery
<1> SUFFICES ASSUME FallbackCallsAssumption, CallsInv PROVE FallbackCallsTypeOK /\ FailedAskedAll /\ OneRecovery OBVIOUS
<1>1. FallbackCallsTypeOK
  <2>1. \A c \in Calls : call[c] \in CallType
    BY DEF CallsInv, CallsShape
  <2> QED BY <2>1 DEF CallsInv, CallsShape, FallbackCallsTypeOK, CallType, CallStates
<1>2. FailedAskedAll
  BY DEF CallsInv, CallInOrder, FailedAskedAll
<1>3. OneRecovery
  BY DEF CallsInv, CallsShape, OneRecovery
<1> QED BY <1>1, <1>2, <1>3

(* Streams of the providers *)

AttemptStates == {"runs", "sleeps"} \cup TaskOutcomes
ReaderType == [state : {"absent", "reads", "rests", "stopped", "raised", "invalid"}, buffer : Nat, got : Nat]

StreamsShape ==
    /\ base \in {"stt", "synthesize", "chunked", "llm", "vad"}
    /\ input \in [pushed : 0..MaxInputs, read : 0..MaxInputs, ended : BOOLEAN]
    /\ attempt \in [number : 0..MaxRetry, state : AttemptStates, events : 0..MaxEvents, held : BOOLEAN]
    /\ attempt.state = "sleeps" => attempt.number < MaxRetry
    /\ events \in [sent : Nat, taken : Nat, closed : BOOLEAN] /\ events.taken <= events.sent
    /\ readers \in [Readers -> ReaderType]
    /\ locked \in Readers \cup {"nobody"} /\ gaveUp \in BOOLEAN
    /\ closing \in {"no", "cancels", "metrics", "done"}

\* Both readers get what is taken, at once or from their buffer; the channel closes behind the task.
TeeWhole ==
    /\ \A r \in Readers : readers[r].got + readers[r].buffer = events.taken
    /\ events.closed => attempt.state \in TaskOutcomes

\* Nothing is left for a reader that came to the end.
AtTheEnd(r) == events.closed /\ events.taken = events.sent /\ readers[r].buffer = 0

\* The inductive invariant of a stream.
StreamInv ==
    /\ StreamsShape /\ TeeWhole
    /\ readers["metrics"].state = "stopped" => AtTheEnd("metrics")
    /\ readers["consumer"].state \in {"stopped", "raised", "invalid"} /\ ~gaveUp =>
          /\ AtTheEnd("consumer") /\ readers["consumer"].state # "invalid"
          /\ (readers["consumer"].state = "raised") <=> (attempt.state = "raised")

LEMMA StreamsInitInv == StreamsAssumption /\ StreamsInit => StreamInv
<1> SUFFICES ASSUME StreamsAssumption, StreamsInit PROVE StreamInv OBVIOUS
<1> USE DEF StreamsInit
<1>1. \A r \in Readers : /\ readers[r] \in ReaderType /\ readers[r].state \in {"absent", "reads"}
                         /\ readers[r].buffer = 0 /\ readers[r].got = 0
  BY DEF ReaderType
<1>2. readers \in [Readers -> ReaderType]
  BY <1>1
<1>3. StreamsShape
  <2>1. MaxInputs \in Nat /\ MaxRetry \in Nat /\ MaxEvents \in Nat
    BY DEF StreamsAssumption
  <2>2. attempt \in [number : 0..MaxRetry, state : AttemptStates, events : 0..MaxEvents, held : BOOLEAN]
    BY <2>1 DEF AttemptStates
  <2>3. input \in [pushed : 0..MaxInputs, read : 0..MaxInputs, ended : BOOLEAN]
    BY <2>1
  <2>4. events \in [sent : Nat, taken : Nat, closed : BOOLEAN] /\ events.taken <= events.sent
    OBVIOUS
  <2> QED BY <1>2, <2>2, <2>3, <2>4 DEF StreamsShape
<1>4. TeeWhole
  BY <1>1 DEF TeeWhole
<1> QED BY <1>1, <1>3, <1>4 DEF StreamInv, Readers

\* While nothing is read, a reader that came to the end stays there.
LEMMA NothingRead ==
    ASSUME StreamInv, StreamsShape', readers' = readers, events'.taken = events.taken,
           events.closed => events'.closed /\ events'.sent = events.sent /\ attempt' = attempt,
           events'.closed => attempt'.state \in TaskOutcomes,
           gaveUp => gaveUp'
    PROVE  StreamInv'
<1>1. TeeWhole'
  BY DEF StreamInv, TeeWhole
<1>2. \A r \in Readers : AtTheEnd(r) => AtTheEnd(r)' /\ attempt' = attempt
  BY DEF AtTheEnd
<1>3. readers'["metrics"].state = "stopped" => AtTheEnd("metrics")'
  BY <1>2 DEF StreamInv, Readers
<1>4. ASSUME readers'["consumer"].state \in {"stopped", "raised", "invalid"}, ~gaveUp'
      PROVE  /\ AtTheEnd("consumer")' /\ readers'["consumer"].state # "invalid"
             /\ (readers'["consumer"].state = "raised") <=> (attempt'.state = "raised")
  <2>1. /\ AtTheEnd("consumer") /\ readers["consumer"].state # "invalid"
        /\ (readers["consumer"].state = "raised") <=> (attempt.state = "raised")
    BY <1>4 DEF StreamInv
  <2> QED BY <1>2, <2>1 DEF Readers
<1> QED BY <1>1, <1>3, <1>4 DEF StreamInv

LEMMA InputKeeps ==
    ASSUME StreamsAssumption, StreamInv, PushFrame \/ EndInput \/ ReadInput \/ Aclose
    PROVE  StreamInv'
<1>1. UNCHANGED <<base, attempt, events, readers, locked, gaveUp>>
  BY DEF PushFrame, EndInput, ReadInput, Aclose
<1>2. input' \in [pushed : 0..MaxInputs, read : 0..MaxInputs, ended : BOOLEAN]
  <2> DEFINE T == [pushed : 0..MaxInputs, read : 0..MaxInputs, ended : BOOLEAN]
  <2>1. input \in T /\ MaxInputs \in Nat
    BY DEF StreamInv, StreamsShape, StreamsAssumption
  <2>2. CASE PushFrame
    BY <2>1, <2>2 DEF PushFrame
  <2>3. CASE EndInput
    BY <2>1, <2>3 DEF EndInput
  <2>4. CASE ReadInput
    BY <2>1, <2>4 DEF ReadInput
  <2>5. CASE Aclose
    <3> DEFINE ends == input.ended \/ HasInput
    <3>1. input' = [input EXCEPT !.ended = ends]
      BY <2>5 DEF Aclose
    <3>2. ends \in BOOLEAN
      BY <2>1 DEF HasInput
    <3> HIDE DEF ends
    <3> QED BY <2>1, <3>1, <3>2
  <2> QED BY <2>2, <2>3, <2>4, <2>5
<1>3. closing' \in {"no", "cancels", "metrics", "done"}
  BY DEF PushFrame, EndInput, ReadInput, Aclose, StreamInv, StreamsShape
<1>4. StreamsShape'
  BY <1>1, <1>2, <1>3 DEF StreamInv, StreamsShape
<1>5. events.closed => attempt.state \in TaskOutcomes
  BY DEF StreamInv, TeeWhole
<1> QED BY <1>1, <1>4, <1>5, NothingRead

\* A step of the task, or of its end.
LEMMA TaskKeeps ==
    ASSUME StreamsAssumption, StreamInv,
           \/ EmitEvent \/ RunReturns \/ Retry \/ TaskDone \/ TaskCancelled
           \/ RecognizeFails \/ ChunkedFails \/ SynthesizeFails \/ LLMFails \/ VADFails
    PROVE  StreamInv'
<1> DEFINE AttemptType == [number : 0..MaxRetry, state : AttemptStates, events : 0..MaxEvents, held : BOOLEAN]
           EventsType == [sent : Nat, taken : Nat, closed : BOOLEAN]
<1>1. /\ attempt \in AttemptType /\ events \in EventsType /\ events.taken <= events.sent
      /\ attempt.state = "sleeps" => attempt.number < MaxRetry
      /\ events.closed => attempt.state \in TaskOutcomes
      /\ MaxRetry \in Nat /\ MaxEvents \in Nat
  BY DEF StreamInv, StreamsShape, TeeWhole, StreamsAssumption
<1>2. UNCHANGED <<base, input, readers, locked, gaveUp>> /\ closing' \in {"no", "cancels", "metrics", "done"}
  BY DEF EmitEvent, RunReturns, Retry, TaskDone, TaskCancelled, RecognizeFails, ChunkedFails, SynthesizeFails,
         LLMFails, VADFails, Failed, StreamInv, StreamsShape
<1>3. /\ attempt' \in AttemptType /\ events' \in EventsType
      /\ events'.taken = events.taken /\ events'.sent >= events.sent
      /\ attempt'.state = "sleeps" => attempt'.number < MaxRetry
      /\ events'.closed => attempt'.state \in TaskOutcomes
      /\ events.closed => events'.closed /\ events'.sent = events.sent /\ attempt' = attempt
  <2>1. CASE EmitEvent
    <3> DEFINE holds == base \in {"synthesize", "chunked"}
    <3>1. /\ attempt.state = "runs" /\ ~events.closed /\ attempt.events < MaxEvents
          /\ attempt' = [attempt EXCEPT !.events = @ + 1, !.held = holds]
          /\ events' = events \/ events' = [events EXCEPT !.sent = @ + 1]
      BY <2>1 DEF EmitEvent
    <3>2. holds \in BOOLEAN
      OBVIOUS
    <3> HIDE DEF holds
    <3>3. attempt' \in AttemptType /\ attempt'.state = "runs"
      <4>1. attempt.events + 1 \in 0..MaxEvents
        BY <1>1, <3>1
      <4> QED BY <1>1, <3>1, <3>2, <4>1
    <3>4. /\ events' \in EventsType /\ events'.taken = events.taken /\ events'.sent >= events.sent
          /\ ~events'.closed
      BY <1>1, <3>1
    <3> QED BY <3>1, <3>3, <3>4
  <2>2. CASE RunReturns
    <3>1. /\ attempt.state = "runs" /\ attempt' = [attempt EXCEPT !.state = "ok", !.held = FALSE]
          /\ events' = events \/ events' = [events EXCEPT !.sent = @ + 1]
      BY <2>2 DEF RunReturns
    <3>2. "ok" \in AttemptStates /\ "ok" \in TaskOutcomes /\ ~events.closed
      BY <1>1, <3>1 DEF AttemptStates, TaskOutcomes
    <3>3. attempt' \in AttemptType /\ attempt'.state = "ok"
      BY <1>1, <3>1, <3>2
    <3>4. /\ events' \in EventsType /\ events'.taken = events.taken /\ events'.sent >= events.sent
          /\ ~events'.closed
      BY <1>1, <3>1, <3>2
    <3> QED BY <3>2, <3>3, <3>4
  <2>3. CASE Retry
    BY <1>1, <2>3 DEF Retry, AttemptStates, TaskOutcomes
  <2>4. CASE TaskDone
    <3>1. attempt.state \in TaskOutcomes /\ attempt' = attempt /\ ~events.closed
          /\ events' = [events EXCEPT !.closed = TRUE]
      BY <2>4 DEF TaskDone
    <3>2. events' \in EventsType /\ events'.taken = events.taken /\ events'.sent = events.sent
      BY <1>1, <3>1
    <3> QED BY <1>1, <3>1, <3>2
  <2>5. CASE TaskCancelled
    <3> DEFINE closes == events.closed \/ base \in {"chunked", "vad"}
    <3>1. /\ attempt' = IF attempt.state \in TaskOutcomes THEN attempt
                        ELSE [attempt EXCEPT !.state = "cancelled", !.held = FALSE]
          /\ events' = [events EXCEPT !.closed = closes]
      BY <2>5 DEF TaskCancelled
    <3>2. closes \in BOOLEAN /\ (events.closed => closes)
      BY <1>1
    <3> HIDE DEF closes
    <3>3. "cancelled" \in AttemptStates /\ "cancelled" \in TaskOutcomes /\ "sleeps" \notin TaskOutcomes
      BY DEF AttemptStates, TaskOutcomes
    <3>4. /\ attempt' \in AttemptType /\ attempt'.state \in TaskOutcomes
          /\ attempt.state \in TaskOutcomes => attempt' = attempt
      BY <1>1, <3>1, <3>3
    <3>5. /\ events' \in EventsType /\ events'.taken = events.taken /\ events'.sent = events.sent
          /\ events'.closed = closes
      BY <1>1, <3>1, <3>2
    <3> QED BY <1>1, <3>2, <3>3, <3>4, <3>5
  <2>6. ASSUME NEW again \in BOOLEAN, Failed(again)
        PROVE  /\ attempt' \in AttemptType /\ events' = events /\ ~events.closed
               /\ attempt'.state = "sleeps" => attempt'.number < MaxRetry
    BY <1>1, <2>6 DEF Failed, AttemptStates, TaskOutcomes
  <2>7. CASE RecognizeFails \/ ChunkedFails \/ SynthesizeFails \/ LLMFails \/ VADFails
    <3>1. \E again \in BOOLEAN : Failed(again)
      BY <2>7 DEF RecognizeFails, ChunkedFails, SynthesizeFails, LLMFails, VADFails
    <3> QED BY <1>1, <2>6, <3>1
  <2> QED BY <2>1, <2>2, <2>3, <2>4, <2>5, <2>7
<1>4. StreamsShape'
  <2>1. events'.taken <= events'.sent
    BY <1>1, <1>3
  <2> QED BY <1>2, <1>3, <2>1 DEF StreamInv, StreamsShape
<1> QED BY <1>2, <1>3, <1>4, NothingRead

LEMMA PushTextKeeps ==
    ASSUME StreamsAssumption, StreamInv, PushText PROVE StreamInv'
<1>1. /\ UNCHANGED <<base, attempt, events, locked, gaveUp, closing>> /\ input.pushed < MaxInputs
      /\ readers' = [readers EXCEPT !["metrics"].state = IF @ = "absent" THEN "reads" ELSE @]
      /\ input' = input \/ input' = [input EXCEPT !.pushed = @ + 1]
  BY DEF PushText
<1>2. StreamsShape /\ TeeWhole /\ readers \in [Readers -> ReaderType] /\ MaxInputs \in Nat
  BY DEF StreamInv, StreamsShape, StreamsAssumption
<1> DEFINE state == IF readers["metrics"].state = "absent" THEN "reads" ELSE readers["metrics"].state
           new == [readers["metrics"] EXCEPT !.state = state]
<1>3. /\ readers["metrics"] \in ReaderType /\ readers' = [readers EXCEPT !["metrics"] = new]
  BY <1>1, <1>2 DEF Readers
<1>4. /\ new \in ReaderType /\ new.state = state
      /\ new.buffer = readers["metrics"].buffer /\ new.got = readers["metrics"].got
  BY <1>3 DEF ReaderType
<1> HIDE DEF new
<1>5. /\ readers' \in [Readers -> ReaderType] /\ readers'["metrics"] = new
      /\ readers'["consumer"] = readers["consumer"]
  BY <1>2, <1>3, <1>4 DEF Readers
<1>6. input' \in [pushed : 0..MaxInputs, read : 0..MaxInputs, ended : BOOLEAN]
  BY <1>1, <1>2 DEF StreamsShape
<1>7. StreamsShape'
  BY <1>1, <1>2, <1>5, <1>6 DEF StreamsShape
<1>8. TeeWhole'
  BY <1>1, <1>2, <1>4, <1>5 DEF TeeWhole, Readers
<1>9. readers'["metrics"].state = "stopped" => AtTheEnd("metrics")'
  BY <1>1, <1>4, <1>5 DEF StreamInv, AtTheEnd
<1> QED BY <1>1, <1>5, <1>7, <1>8, <1>9 DEF StreamInv, AtTheEnd

LEMMA LockKeeps ==
    ASSUME StreamInv, ConsumerTimesOut \/ AcloseEnds \/ \E r \in Readers : AwaitEvent(r)
    PROVE  StreamInv'
<1>1. UNCHANGED <<base, input, attempt, events, readers>> /\ gaveUp' \in BOOLEAN /\ (gaveUp => gaveUp')
      /\ locked' \in Readers \cup {"nobody"} /\ closing' \in {"no", "cancels", "metrics", "done"}
  BY DEF ConsumerTimesOut, AcloseEnds, AwaitEvent, StreamInv, StreamsShape
<1>2. StreamsShape' /\ (events.closed => attempt.state \in TaskOutcomes)
  BY <1>1 DEF StreamInv, StreamsShape, TeeWhole
<1> QED BY <1>1, <1>2, NothingRead

LEMMA TakeEventKeeps ==
    ASSUME StreamInv, NEW r \in Readers, TakeEvent(r) PROVE StreamInv'
<1>1. /\ readers \in [Readers -> ReaderType] /\ events \in [sent : Nat, taken : Nat, closed : BOOLEAN]
      /\ events.taken <= events.sent
      /\ \A q \in Readers : readers[q].got + readers[q].buffer = events.taken /\ readers[q] \in ReaderType
      /\ events.closed => attempt.state \in TaskOutcomes
  BY DEF StreamInv, StreamsShape, TeeWhole
<1>2. readers[r].state = "reads" /\ UNCHANGED <<base, input, attempt, gaveUp, closing>>
  BY DEF TakeEvent
<1>3. CASE readers[r].buffer > 0
  <2> DEFINE new == [readers[r] EXCEPT !.buffer = @ - 1, !.got = @ + 1]
  <2>1. readers' = [readers EXCEPT ![r] = new] /\ UNCHANGED <<events, locked>>
    BY <1>1, <1>3 DEF TakeEvent
  <2>2. /\ new \in ReaderType /\ new.state = "reads" /\ new.buffer = readers[r].buffer - 1
        /\ new.got = readers[r].got + 1
    <3>1. readers[r] \in ReaderType /\ readers[r].buffer - 1 \in Nat /\ readers[r].got + 1 \in Nat
      BY <1>1, <1>3 DEF ReaderType
    <3> QED BY <1>2, <3>1 DEF ReaderType
  <2> HIDE DEF new
  <2>3. /\ readers' \in [Readers -> ReaderType] /\ readers'[r] = new
        /\ \A q \in Readers : q # r => readers'[q] = readers[q]
    BY <1>1, <2>1, <2>2
  <2>4. StreamsShape'
    BY <1>2, <2>1, <2>3 DEF StreamInv, StreamsShape
  <2>5. TeeWhole'
    <3>1. readers[r].buffer \in Nat /\ readers[r].got \in Nat
      BY <1>1 DEF ReaderType
    <3>2. new.got + new.buffer = events.taken
      BY <1>1, <2>2, <3>1
    <3> QED BY <1>1, <1>2, <2>1, <2>3, <3>2 DEF TeeWhole
  <2>6. ASSUME readers'["metrics"].state = "stopped" PROVE AtTheEnd("metrics")'
    <3>1. "metrics" # r /\ readers'["metrics"] = readers["metrics"]
      BY <2>2, <2>3, <2>6 DEF Readers
    <3> QED BY <2>1, <2>6, <3>1 DEF StreamInv, AtTheEnd
  <2>7. ASSUME readers'["consumer"].state \in {"stopped", "raised", "invalid"}, ~gaveUp'
        PROVE  /\ AtTheEnd("consumer")' /\ readers'["consumer"].state # "invalid"
               /\ (readers'["consumer"].state = "raised") <=> (attempt'.state = "raised")
    <3>1. "consumer" # r /\ readers'["consumer"] = readers["consumer"]
      BY <2>2, <2>3, <2>7 DEF Readers
    <3> QED BY <1>2, <2>1, <2>7, <3>1 DEF StreamInv, AtTheEnd
  <2> QED BY <2>4, <2>5, <2>6, <2>7 DEF StreamInv
<1>4. CASE ~(readers[r].buffer > 0)
  <2>1. /\ events.taken < events.sent /\ events' = [events EXCEPT !.taken = @ + 1] /\ locked' = "nobody"
        /\ readers' = [p \in Readers |-> IF p = r THEN [readers[p] EXCEPT !.got = @ + 1]
                                         ELSE [readers[p] EXCEPT !.buffer = @ + 1]]
    BY <1>4 DEF TakeEvent, Available
  <2>2. /\ events' \in [sent : Nat, taken : Nat, closed : BOOLEAN] /\ events'.taken = events.taken + 1
        /\ events'.sent = events.sent /\ events'.closed = events.closed
    BY <1>1, <2>1
  <2>3. ASSUME NEW q \in Readers
        PROVE  /\ readers'[q] \in ReaderType /\ readers'[q].state = readers[q].state
               /\ readers'[q].got + readers'[q].buffer = readers[q].got + readers[q].buffer + 1
    <3>1. readers[q] \in ReaderType /\ readers[q].got \in Nat /\ readers[q].buffer \in Nat
      BY <1>1 DEF ReaderType
    <3>2. CASE q = r
      <4>1. readers'[q] = [readers[q] EXCEPT !.got = @ + 1]
        BY <2>1, <3>2
      <4> QED BY <3>1, <4>1 DEF ReaderType
    <3>3. CASE q # r
      <4>1. readers'[q] = [readers[q] EXCEPT !.buffer = @ + 1]
        BY <2>1, <3>3
      <4> QED BY <3>1, <4>1 DEF ReaderType
    <3> QED BY <3>2, <3>3
  <2>4. readers' \in [Readers -> ReaderType]
    BY <2>1, <2>3
  <2>5. StreamsShape'
    <3>1. events'.taken <= events'.sent
      BY <1>1, <2>1, <2>2
    <3> QED BY <1>2, <2>1, <2>2, <2>4, <3>1 DEF StreamInv, StreamsShape
  <2>6. TeeWhole'
    BY <1>1, <1>2, <2>2, <2>3 DEF TeeWhole
  <2>7. \A q \in Readers : ~AtTheEnd(q)
    BY <1>1, <2>1 DEF AtTheEnd
  <2>8. readers'["metrics"].state # "stopped"
    BY <2>3, <2>7 DEF StreamInv, Readers
  <2>9. ~(readers'["consumer"].state \in {"stopped", "raised", "invalid"} /\ ~gaveUp')
    BY <1>2, <2>3, <2>7 DEF StreamInv, Readers
  <2> QED BY <2>5, <2>6, <2>8, <2>9 DEF StreamInv
<1> QED BY <1>3, <1>4

\* A reader that changes its state, and nothing else of it.
LEMMA StateOnly ==
    ASSUME StreamInv, NEW r \in Readers, NEW state \in {"rests", "stopped", "raised", "invalid"},
           readers' = [readers EXCEPT ![r].state = state], locked' \in Readers \cup {"nobody"},
           UNCHANGED <<base, input, attempt, events, gaveUp, closing>>,
           r = "metrics" => state = "stopped" /\ AtTheEnd(r),
           r = "consumer" /\ ~gaveUp /\ state # "rests" =>
              AtTheEnd(r) /\ state # "invalid" /\ ((state = "raised") <=> (attempt.state = "raised"))
    PROVE  StreamInv'
<1> DEFINE new == [readers[r] EXCEPT !.state = state]
<1>1. readers \in [Readers -> ReaderType] /\ readers[r] \in ReaderType /\ readers' = [readers EXCEPT ![r] = new]
  BY DEF StreamInv, StreamsShape
<1>2. new \in ReaderType /\ new.state = state /\ new.buffer = readers[r].buffer /\ new.got = readers[r].got
  BY <1>1 DEF ReaderType
<1> HIDE DEF new
<1>3. /\ readers' \in [Readers -> ReaderType] /\ readers'[r] = new
      /\ \A q \in Readers : q # r => readers'[q] = readers[q]
  BY <1>1, <1>2
<1>4. StreamsShape'
  BY <1>3 DEF StreamInv, StreamsShape
<1>5. TeeWhole'
  BY <1>2, <1>3 DEF StreamInv, TeeWhole
<1>6. \A q \in Readers : AtTheEnd(q)' <=> AtTheEnd(q)
  BY <1>2, <1>3 DEF AtTheEnd
<1>7. ASSUME readers'["metrics"].state = "stopped" PROVE AtTheEnd("metrics")'
  <2>1. CASE r = "metrics"
    BY <1>6, <2>1
  <2>2. CASE r # "metrics"
    BY <1>3, <1>6, <1>7, <2>2 DEF StreamInv, Readers
  <2> QED BY <2>1, <2>2
<1>8. ASSUME readers'["consumer"].state \in {"stopped", "raised", "invalid"}, ~gaveUp'
      PROVE  /\ AtTheEnd("consumer")' /\ readers'["consumer"].state # "invalid"
             /\ (readers'["consumer"].state = "raised") <=> (attempt'.state = "raised")
  <2>1. CASE r = "consumer"
    BY <1>2, <1>3, <1>6, <1>8, <2>1
  <2>2. CASE r # "consumer"
    BY <1>3, <1>6, <1>8, <2>2 DEF StreamInv, Readers
  <2> QED BY <2>1, <2>2
<1> QED BY <1>4, <1>5, <1>7, <1>8 DEF StreamInv

LEMMA ReadEndKeeps ==
    ASSUME StreamInv, NEW r \in Readers, ReadEnd(r) PROVE StreamInv'
<1> DEFINE state == IF r = "metrics" THEN "stopped" ELSE EndOfStream
<1>1. /\ readers[r].buffer = 0 /\ UNCHANGED <<base, input, attempt, events, gaveUp, closing>>
      /\ readers' = [readers EXCEPT ![r].state = state]
      /\ (~Available /\ events.closed) \/ (r = "consumer" /\ gaveUp)
      /\ locked' = IF locked = r THEN "nobody" ELSE locked
  BY DEF ReadEnd
<1>2. /\ locked' \in Readers \cup {"nobody"} /\ events \in [sent : Nat, taken : Nat, closed : BOOLEAN]
      /\ events.taken <= events.sent /\ (events.closed => attempt.state \in TaskOutcomes)
  BY <1>1 DEF StreamInv, StreamsShape, TeeWhole
<1>3. ~(r = "consumer" /\ gaveUp) => AtTheEnd(r) /\ attempt.state \in TaskOutcomes
  BY <1>1, <1>2 DEF AtTheEnd, Available
<1>4. state \in {"rests", "stopped", "raised", "invalid"} /\ state # "rests"
  BY DEF EndOfStream
<1>5. r = "metrics" => state = "stopped" /\ AtTheEnd(r)
  BY <1>3
<1>6. r = "consumer" /\ ~gaveUp =>
         AtTheEnd(r) /\ state # "invalid" /\ ((state = "raised") <=> (attempt.state = "raised"))
  BY <1>3 DEF EndOfStream
<1> HIDE DEF state
<1> QED BY <1>1, <1>2, <1>4, <1>5, <1>6, StateOnly

LEMMA StreamStepKeeps ==
    ASSUME StreamsAssumption, StreamInv, [StreamsNext]_streamVars PROVE StreamInv'
<1>1. CASE UNCHANGED streamVars
  BY <1>1 DEF StreamInv, StreamsShape, TeeWhole, AtTheEnd, streamVars
<1>2. CASE ConsumerRests
  <2>1. /\ "consumer" \in Readers /\ readers' = [readers EXCEPT !["consumer"].state = "rests"]
        /\ UNCHANGED <<base, input, attempt, events, locked, gaveUp, closing>>
        /\ locked' \in Readers \cup {"nobody"}
    BY <1>2 DEF ConsumerRests, Readers, StreamInv, StreamsShape
  <2> QED BY <2>1, StateOnly
<1>3. CASE PushFrame \/ EndInput \/ ReadInput \/ Aclose
  BY <1>3, InputKeeps
<1>4. CASE \/ EmitEvent \/ RunReturns \/ Retry \/ TaskDone \/ TaskCancelled
           \/ RecognizeFails \/ ChunkedFails \/ SynthesizeFails \/ LLMFails \/ VADFails
  BY <1>4, TaskKeeps
<1>5. CASE PushText
  BY <1>5, PushTextKeeps
<1>6. CASE ConsumerTimesOut \/ AcloseEnds \/ \E r \in Readers : AwaitEvent(r)
  BY <1>6, LockKeeps
<1>7. ASSUME NEW r \in Readers, TakeEvent(r) \/ ReadEnd(r) PROVE StreamInv'
  BY <1>7, TakeEventKeeps, ReadEndKeeps
<1> QED BY <1>1, <1>2, <1>3, <1>4, <1>5, <1>6, <1>7 DEF StreamsNext

LEMMA StreamIsSafe == StreamInv => StreamsTypeOK /\ EndTellsTruth
<1> SUFFICES ASSUME StreamInv PROVE StreamsTypeOK /\ EndTellsTruth OBVIOUS
<1>1. StreamsTypeOK
  <2>1. events.taken \in 0..events.sent
    BY DEF StreamInv, StreamsShape
  <2>2. \A r \in Readers : readers[r] \in ReaderType
    BY DEF StreamInv, StreamsShape
  <2> QED BY <2>1, <2>2 DEF StreamInv, StreamsShape, StreamsTypeOK, AttemptStates, ReaderType
<1>2. \A r \in Readers : AtTheEnd(r) => readers[r].got = events.sent
  <2>1. \A r \in Readers : readers[r].got \in Nat /\ readers[r].got + readers[r].buffer = events.taken
    BY DEF StreamInv, StreamsShape, TeeWhole, ReaderType
  <2> QED BY <2>1 DEF AtTheEnd
<1>3. EndTellsTruth
  BY <1>2 DEF EndTellsTruth, StreamInv, Readers
<1> QED BY <1>1, <1>3

(* The recognition streams of a fallback adapter *)

MainType == [at : Stts \cup {0}, frames : Seq(Nat), ended : BOOLEAN, over : BOOLEAN]

\* The frames are consecutive, and while it runs the forwarder has the next one in hand.
FramesFollow ==
    /\ \A i \in 1..Len(main.frames) : main.frames[i] = main.frames[1] + i - 1
    /\ forwarder.state = "runs" /\ main.frames # <<>> => main.frames[1] + Len(main.frames) = forwarder.next

\* The inductive invariant of a recognition stream.
SttInv ==
    /\ FallbackStreamsTypeOK /\ main \in MainType /\ FramesFollow
    /\ outcome = "runs" => main.at \in Stts

LEMMA SttInitInv == FallbackStreamsAssumption /\ FallbackStreamsInit => SttInv
<1> SUFFICES ASSUME FallbackStreamsAssumption, FallbackStreamsInit PROVE SttInv OBVIOUS
<1> USE DEF FallbackStreamsInit
<1>1. <<>> \in Seq(Nat) /\ Len(<<>>) = 0
  BY EmptySeq
<1>2. main \in MainType
  BY <1>1 DEF MainType
<1>3. FallbackStreamsTypeOK
  <2>1. MaxHeard \in Nat
    BY DEF FallbackStreamsAssumption
  <2>2. sttInput \in [pushed : 0..MaxHeard, ended : BOOLEAN]
    BY <2>1
  <2>3. forwarder \in [state : {"none", "runs", "died", "done"}, next : 1..(MaxHeard + 1)]
    BY <2>1
  <2>4. main.at = 0 /\ {main.ended, main.over} \subseteq BOOLEAN /\ {disturbed, allFailed} \subseteq BOOLEAN
    OBVIOUS
  <2> QED BY <2>2, <2>3, <2>4 DEF FallbackStreamsTypeOK
<1>4. FramesFollow
  BY <1>1 DEF FramesFollow
<1> QED BY <1>2, <1>3, <1>4 DEF SttInv

\* The loop goes on with a stream that has heard nothing yet, or ends.
LEMMA NextStreamKeeps ==
    ASSUME FallbackStreamsAssumption, SttInv, NEW p \in Nat, NEW all, NEW failed, NextStream(p, all, failed),
           sttAvailable' \in [Stts -> BOOLEAN], allFailed' \in BOOLEAN, UNCHANGED <<sttInput, disturbed>>
    PROVE  SttInv'
<1> DEFINE toAsk == {q \in Stts : q >= p /\ (sttAvailable[q] \/ all)}
           first == CHOOSE q \in toAsk : \A r \in toAsk : q <= r
<1>1. /\ FallbackStreamsTypeOK /\ main \in MainType /\ FramesFollow
      /\ Stts \subseteq Nat /\ MaxHeard \in Nat
      /\ forwarder \in [state : {"none", "runs", "died", "done"}, next : 1..(MaxHeard + 1)]
      /\ recovery \in [Stts -> {"none", "runs", "closed", "stuck"}]
  BY DEF SttInv, FallbackStreamsTypeOK, FallbackStreamsAssumption, Stts
<1>2. CASE toAsk = {}
  <2>1. /\ outcome' = "failed" /\ main' = [main EXCEPT !.over = TRUE]
        /\ forwarder' = [forwarder EXCEPT !.state = "done"]
        /\ recovery' = [q \in Stts |-> "none"]
    BY <1>2 DEF NextStream
  <2>2. main' \in MainType /\ main'.frames = main.frames /\ main'.at = main.at
    BY <1>1, <2>1 DEF MainType
  <2>3. /\ forwarder' \in [state : {"none", "runs", "died", "done"}, next : 1..(MaxHeard + 1)]
        /\ forwarder'.state = "done"
    BY <1>1, <2>1
  <2>4. FallbackStreamsTypeOK'
    BY <1>1, <2>1, <2>2, <2>3 DEF FallbackStreamsTypeOK, MainType
  <2>5. FramesFollow'
    BY <1>1, <2>2, <2>3 DEF FramesFollow
  <2> QED BY <2>1, <2>2, <2>4, <2>5 DEF SttInv
<1>3. CASE toAsk # {}
  <2>1. first \in toAsk
    <3>1. \E q \in toAsk : \A r \in toAsk : q <= r
      <4>1. toAsk \in SUBSET Nat
        BY <1>1
      <4> HIDE DEF toAsk
      <4> QED BY <1>3, <4>1, LeastExists
    <3> HIDE DEF toAsk
    <3> QED BY <3>1
  <2>2. /\ outcome' = "runs"
        /\ main' = [at |-> first, frames |-> <<>>, ended |-> FALSE, over |-> FALSE]
        /\ forwarder' = ForwarderStarted
        /\ \E ps : recovery' = TryStreamRecovery(ps)
    BY <1>3 DEF NextStream
  <2>3. first \in Stts
    BY <2>1
  <2> HIDE DEF first, toAsk
  <2>4. main' \in MainType /\ main'.frames = <<>> /\ Len(main'.frames) = 0 /\ main'.at = first
    <3>1. <<>> \in Seq(Nat) /\ Len(<<>>) = 0
      BY EmptySeq
    <3> QED BY <2>2, <2>3, <3>1 DEF MainType
  <2>5. forwarder' \in [state : {"none", "runs", "died", "done"}, next : 1..(MaxHeard + 1)]
    BY <1>1, <2>2 DEF ForwarderStarted
  <2>6. recovery' \in [Stts -> {"none", "runs", "closed", "stuck"}]
    BY <1>1, <2>2 DEF TryStreamRecovery
  <2>7. FallbackStreamsTypeOK'
    BY <1>1, <2>2, <2>4, <2>5, <2>6 DEF FallbackStreamsTypeOK, MainType
  <2>8. FramesFollow'
    BY <2>4 DEF FramesFollow
  <2> QED BY <2>3, <2>4, <2>7, <2>8 DEF SttInv
<1> QED BY <1>2, <1>3

\* The forwarder gives the next frame, or the end, to a main stream that takes it.
LEMMA ForwardKeeps ==
    ASSUME FallbackStreamsAssumption, SttInv, Forward PROVE SttInv'
<1>1. /\ FallbackStreamsTypeOK /\ main \in MainType /\ FramesFollow
      /\ MaxHeard \in Nat /\ sttInput \in [pushed : 0..MaxHeard, ended : BOOLEAN] /\ disturbed \in BOOLEAN
      /\ forwarder \in [state : {"none", "runs", "died", "done"}, next : 1..(MaxHeard + 1)]
      /\ forwarder.state = "runs" /\ outcome = "runs" /\ main.at \in Stts
      /\ UNCHANGED <<sttAvailable, sttInput, allFailed, recovery, outcome>>
  BY DEF SttInv, FallbackStreamsTypeOK, FallbackStreamsAssumption, Forward
<1>2. /\ main.frames \in Seq(Nat) /\ Len(main.frames) \in Nat
      /\ \A i \in 1..Len(main.frames) : main.frames[i] \in Nat
      /\ main.frames # <<>> => Len(main.frames) > 0
  <2>1. main.frames \in Seq(Nat)
    BY <1>1 DEF MainType
  <2> QED BY <2>1, ElementsType, EmptySeq
<1>3. CASE forwarder.next <= sttInput.pushed /\ (main.over \/ \E p \in Stts : recovery[p] = "closed")
  <2> DEFINE disturbs == disturbed \/ ~main.over
  <2>1. /\ forwarder' = [state |-> "died", next |-> forwarder.next + 1] /\ main' = main
        /\ disturbed' = disturbs
    BY <1>1, <1>3 DEF Forward
  <2>2. disturbs \in BOOLEAN
    BY <1>1 DEF MainType
  <2> HIDE DEF disturbs
  <2>3. forwarder' \in [state : {"none", "runs", "died", "done"}, next : 1..(MaxHeard + 1)] /\ forwarder'.state = "died"
    BY <1>1, <1>3, <2>1
  <2>4. FallbackStreamsTypeOK'
    BY <1>1, <2>1, <2>2, <2>3 DEF FallbackStreamsTypeOK
  <2>5. FramesFollow'
    BY <1>1, <2>1, <2>3 DEF FramesFollow
  <2> QED BY <1>1, <2>1, <2>4, <2>5 DEF SttInv
<1>4. CASE forwarder.next <= sttInput.pushed /\ ~(main.over \/ \E p \in Stts : recovery[p] = "closed")
  <2>1. /\ forwarder' = [forwarder EXCEPT !.next = @ + 1] /\ disturbed' = disturbed
        /\ main' = [main EXCEPT !.frames = Append(main.frames, forwarder.next)]
    BY <1>1, <1>4 DEF Forward
  <2>2. /\ forwarder' \in [state : {"none", "runs", "died", "done"}, next : 1..(MaxHeard + 1)]
        /\ forwarder'.next = forwarder.next + 1 /\ forwarder.next \in Nat
    BY <1>1, <1>4, <2>1
  <2> DEFINE frames == Append(main.frames, forwarder.next)
  <2>3. /\ frames \in Seq(Nat) /\ Len(frames) = Len(main.frames) + 1
        /\ \A i \in 1..Len(main.frames) : frames[i] = main.frames[i]
        /\ frames[Len(main.frames) + 1] = forwarder.next
    BY <1>2, <2>2, AppendProperties
  <2> HIDE DEF frames
  <2>4. main' \in MainType /\ main'.frames = frames /\ main'.at = main.at
    BY <1>1, <2>1, <2>3 DEF MainType, frames
  <2>5. FallbackStreamsTypeOK'
    BY <1>1, <2>1, <2>2, <2>4 DEF FallbackStreamsTypeOK, MainType
  <2>6. frames[1] + Len(frames) = forwarder'.next /\ frames[1] \in Nat
    <3>1. CASE main.frames = <<>>
      <4>1. Len(main.frames) = 0
        BY <3>1, EmptySeq
      <4> QED BY <2>2, <2>3, <4>1
    <3>2. CASE main.frames # <<>>
      <4>1. Len(main.frames) > 0 /\ main.frames[1] + Len(main.frames) = forwarder.next /\ frames[1] = main.frames[1]
            /\ main.frames[1] \in Nat
        BY <1>1, <1>2, <2>3, <3>2 DEF FramesFollow
      <4>2. Len(main.frames) \in Nat /\ Len(frames) = Len(main.frames) + 1 /\ frames[1] \in Nat
            /\ frames[1] + Len(main.frames) = forwarder.next
        BY <1>2, <2>3, <4>1
      <4> QED BY <2>2, <4>2
    <3> QED BY <3>1, <3>2
  <2>7. ASSUME NEW i \in 1..Len(frames) PROVE frames[i] = frames[1] + i - 1
    <3>1. CASE i = Len(main.frames) + 1
      <4>1. i = Len(frames) /\ frames[i] = forwarder.next /\ i \in Nat
        BY <1>2, <2>3, <3>1
      <4> QED BY <2>2, <2>6, <4>1
    <3>2. CASE i # Len(main.frames) + 1
      <4>1. i \in 1..Len(main.frames) /\ 1 \in 1..Len(main.frames)
        BY <1>2, <2>3, <3>2
      <4>2. frames[i] = main.frames[i] /\ frames[1] = main.frames[1]
        BY <2>3, <4>1
      <4> QED BY <1>1, <4>1, <4>2 DEF FramesFollow
    <3> QED BY <3>1, <3>2
  <2>8. FramesFollow'
    BY <2>4, <2>6, <2>7 DEF FramesFollow
  <2> QED BY <1>1, <2>4, <2>5, <2>8 DEF SttInv
<1>5. CASE ~(forwarder.next <= sttInput.pushed)
  <2>1. /\ forwarder' = [forwarder EXCEPT !.state = "done"] /\ main' = [main EXCEPT !.ended = TRUE]
        /\ disturbed' = disturbed
    BY <1>1, <1>5 DEF Forward
  <2>2. forwarder' \in [state : {"none", "runs", "died", "done"}, next : 1..(MaxHeard + 1)] /\ forwarder'.state = "done"
    BY <1>1, <2>1
  <2>3. main' \in MainType /\ main'.frames = main.frames /\ main'.at = main.at
    BY <1>1, <2>1 DEF MainType
  <2>4. FallbackStreamsTypeOK'
    BY <1>1, <2>1, <2>2, <2>3 DEF FallbackStreamsTypeOK, MainType
  <2>5. FramesFollow'
    BY <1>1, <2>2, <2>3 DEF FramesFollow
  <2> QED BY <1>1, <2>3, <2>4, <2>5 DEF SttInv
<1> QED BY <1>3, <1>4, <1>5

\* Steps that leave the frames and the forwarder as they are.
LEMMA FramesStay ==
    ASSUME SttInv, FallbackStreamsTypeOK', main' \in MainType, main'.frames = main.frames, main'.at = main.at,
           forwarder' = forwarder, outcome' \in {outcome, "returned"}
    PROVE  SttInv'
<1>1. FramesFollow'
  BY DEF SttInv, FramesFollow
<1> QED BY <1>1 DEF SttInv

LEMMA SttStepKeeps ==
    ASSUME FallbackStreamsAssumption, SttInv, [FallbackStreamsNext]_sttVars PROVE SttInv'
<1>1. CASE UNCHANGED sttVars
  BY <1>1 DEF SttInv, FallbackStreamsTypeOK, FramesFollow, sttVars
<1>2. /\ FallbackStreamsTypeOK /\ main \in MainType /\ MaxHeard \in Nat /\ Stts \subseteq Nat
      /\ outcome = "runs" => main.at \in Stts
  BY DEF SttInv, FallbackStreamsAssumption, Stts
<1>3. CASE PushHeard
  <2>1. UNCHANGED <<sttAvailable, forwarder, main, allFailed, recovery, outcome, disturbed>>
        /\ sttInput' \in [pushed : 0..MaxHeard, ended : BOOLEAN]
    BY <1>2, <1>3 DEF PushHeard, FallbackStreamsTypeOK
  <2> QED BY <1>2, <2>1, FramesStay DEF FallbackStreamsTypeOK
<1>4. CASE EndHeard
  <2>1. UNCHANGED <<sttAvailable, forwarder, main, allFailed, recovery, outcome, disturbed>>
        /\ sttInput' \in [pushed : 0..MaxHeard, ended : BOOLEAN]
    BY <1>2, <1>4 DEF EndHeard, FallbackStreamsTypeOK
  <2> QED BY <1>2, <2>1, FramesStay DEF FallbackStreamsTypeOK
<1>5. CASE RunBegins
  <2>1. /\ allFailed' = \A p \in Stts : ~sttAvailable[p]
        /\ NextStream(1, allFailed', {}) /\ UNCHANGED <<sttAvailable, sttInput, disturbed>>
    BY <1>5 DEF RunBegins
  <2>2. allFailed' \in BOOLEAN /\ sttAvailable' \in [Stts -> BOOLEAN] /\ 1 \in Nat
    BY <1>2, <2>1 DEF FallbackStreamsTypeOK
  <2> QED BY <2>1, <2>2, NextStreamKeeps
<1>6. CASE MainFails
  <2>1. /\ main' = [main EXCEPT !.over = TRUE]
        /\ UNCHANGED <<sttAvailable, sttInput, forwarder, allFailed, recovery, outcome, disturbed>>
    BY <1>6 DEF MainFails
  <2>2. main' \in MainType /\ main'.frames = main.frames /\ main'.at = main.at
    BY <1>2, <2>1 DEF MainType
  <2>3. FallbackStreamsTypeOK'
    BY <1>2, <2>1, <2>2 DEF FallbackStreamsTypeOK, MainType
  <2> QED BY <2>1, <2>2, <2>3, FramesStay
<1>7. CASE MainClosed
  <2>1. /\ outcome = "runs" /\ sttAvailable' = [sttAvailable EXCEPT ![main.at] = FALSE]
        /\ NextStream(main.at + 1, allFailed, {main.at}) /\ UNCHANGED <<sttInput, allFailed, disturbed>>
    BY <1>7 DEF MainClosed
  <2>2. main.at + 1 \in Nat
    <3>1. main.at \in Nat
      BY <1>2, <2>1
    <3> QED BY <3>1
  <2>3. sttAvailable' \in [Stts -> BOOLEAN] /\ allFailed' \in BOOLEAN
    BY <1>2, <2>1 DEF FallbackStreamsTypeOK
  <2> QED BY <2>1, <2>2, <2>3, NextStreamKeeps
<1>8. CASE MainEnds
  <2>1. /\ main' = [main EXCEPT !.over = TRUE] /\ outcome' = "returned"
        /\ recovery' = [p \in Stts |-> IF recovery[p] = "runs" THEN "stuck" ELSE recovery[p]]
        /\ UNCHANGED <<sttAvailable, sttInput, forwarder, allFailed, disturbed>>
    BY <1>8 DEF MainEnds
  <2>2. main' \in MainType /\ main'.frames = main.frames /\ main'.at = main.at
    BY <1>2, <2>1 DEF MainType
  <2>3. FallbackStreamsTypeOK'
    BY <1>2, <2>1, <2>2 DEF FallbackStreamsTypeOK, MainType
  <2> QED BY <2>1, <2>2, <2>3, FramesStay
<1>9. CASE Forward
  BY <1>9, ForwardKeeps
<1>10. ASSUME NEW p \in Stts, RecoveringCloses(p) \/ RecoveryEnds(p) PROVE SttInv'
  <2>1. UNCHANGED <<sttInput, forwarder, main, allFailed, outcome, disturbed>>
    BY <1>10 DEF RecoveringCloses, RecoveryEnds
  <2>2. recovery' \in [Stts -> {"none", "runs", "closed", "stuck"}] /\ sttAvailable' \in [Stts -> BOOLEAN]
    <3>1. recovery \in [Stts -> {"none", "runs", "closed", "stuck"}] /\ sttAvailable \in [Stts -> BOOLEAN]
      BY <1>2 DEF FallbackStreamsTypeOK
    <3>2. CASE RecoveringCloses(p)
      BY <3>1, <3>2 DEF RecoveringCloses
    <3>3. CASE RecoveryEnds(p)
      BY <3>1, <3>3 DEF RecoveryEnds
    <3> QED BY <1>10, <3>2, <3>3
  <2> QED BY <1>2, <2>1, <2>2, FramesStay DEF FallbackStreamsTypeOK
<1> QED BY <1>1, <1>3, <1>4, <1>5, <1>6, <1>7, <1>8, <1>9, <1>10 DEF FallbackStreamsNext

(* The synthesis streams of a fallback adapter *)

ItemType == [segment : Nat, flush : BOOLEAN]

\* p holds the segments a..w in order.
Consecutive(p, a, w) == Len(p) = w - a + 1 /\ \A k \in 1..Len(p) : p[k] = a + k - 1

\* c holds the items from the text of segment b on, of the first n of the text.
ItemsFrom(c, b, n) ==
    /\ Len(c) = n - 2 * (b - 1)
    /\ \A i \in 1..Len(c) : 2 * c[i].segment = 2 * (b - 1) + i + IF c[i].flush THEN 0 ELSE 1

\* The forwarder read w whole segments, and maybe the text of the next one.
ReadTo(n, unflushed, w) ==
    \/ n = 2 * w /\ unflushed = 0
    \/ n = 2 * w + 1 /\ unflushed = w + 1

SaidBelow(s, q) == \A i \in 1..Len(s) : s[i] < q
SaidUpTo(s, q) == \A e \in 1..(q - 1) : \E i \in 1..Len(s) : s[i] = e

\* The segments up to w are read, those from a on are pending, the attempt began with segment b
\* and is at segment q.
SpeechAt(a, b, q, w) ==
    /\ 1 <= a /\ a <= w + 1 /\ 1 <= b /\ b <= q /\ q <= w + 1
    /\ ReadTo(forwarded, currentSegment, w) /\ Consecutive(pending, a, w) /\ ItemsFrom(speechChan, b, forwarded)
    /\ speechTts.spoken = 2 * (q - b)
    /\ marksFinal => q <= a /\ SaidBelow(said, q)
    /\ ~namesSegments => a <= q /\ SaidUpTo(said, q)
    /\ runOutcome = "returned" => q = MaxSegments + 1

SpeechShape ==
    /\ {marksFinal, namesSegments} \subseteq BOOLEAN
    /\ forwarded \in 0..textItems /\ textItems \in 0..(2 * MaxSegments)
    /\ pending \in Seq(Nat) /\ speechChan \in Seq(ItemType)
    /\ speechTts \in [at : 1..TtsCount, spoken : Nat, frame : {1, 2}, audio : Nat, last : 0..MaxSegments]
    /\ runOutcome \in {"runs", "returned", "cut", "failed"} /\ said \in Seq(1..MaxSegments)

\* The inductive invariant of a synthesis.
SpeechInv == SpeechShape /\ SaidInOrder /\ \E a, b, q, w \in Nat : SpeechAt(a, b, q, w)

LEMMA SpeechInitInv == FallbackSpeechAssumption /\ FallbackSpeechInit => SpeechInv
<1> SUFFICES ASSUME FallbackSpeechAssumption, FallbackSpeechInit PROVE SpeechInv OBVIOUS
<1> USE DEF FallbackSpeechInit
<1>1. /\ MaxSegments \in Nat /\ TtsCount \in Nat \ {0}
      /\ <<>> \in Seq(Nat) /\ <<>> \in Seq(ItemType) /\ <<>> \in Seq(1..MaxSegments) /\ Len(<<>>) = 0
  BY EmptySeq DEF FallbackSpeechAssumption
<1>2. SpeechShape
  <2>1. speechTts \in [at : 1..TtsCount, spoken : Nat, frame : {1, 2}, audio : Nat, last : 0..MaxSegments]
    BY <1>1
  <2>2. forwarded \in 0..textItems /\ textItems \in 0..(2 * MaxSegments)
    BY <1>1
  <2> QED BY <1>1, <2>1, <2>2 DEF SpeechShape
<1>3. SaidInOrder
  <2>1. DOMAIN said = {}
    OBVIOUS
  <2> QED BY <2>1 DEF SaidInOrder
<1>4. SpeechAt(1, 1, 1, 0)
  <2>1. Consecutive(<<>>, 1, 0) /\ ItemsFrom(<<>>, 1, 0)
    BY <1>1 DEF Consecutive, ItemsFrom
  <2>2. ReadTo(0, 0, 0)
    BY DEF ReadTo
  <2>3. SaidBelow(<<>>, 1) /\ SaidUpTo(<<>>, 1)
    BY <1>1 DEF SaidBelow, SaidUpTo
  <2> QED BY <2>1, <2>2, <2>3 DEF SpeechAt
<1> QED BY <1>2, <1>3, <1>4 DEF SpeechInv

\* The attempt has segment q to speak next if it was read whole, and nothing otherwise.
LEMMA ToSpeakIs ==
    ASSUME SpeechShape, NEW b \in Nat, NEW q \in Nat, NEW w \in Nat, 1 <= b, b <= q, q <= w + 1,
           ReadTo(forwarded, currentSegment, w), ItemsFrom(speechChan, b, forwarded), speechTts.spoken = 2 * (q - b)
    PROVE  /\ q <= w => /\ ToSpeak # {} /\ Min(ToSpeak) = 2 * (q + 1 - b)
                        /\ speechChan[Min(ToSpeak)].segment = q
           /\ q = w + 1 => ToSpeak = {}
<1> DEFINE m == 2 * (q + 1 - b)
<1>1. /\ Len(speechChan) \in Nat /\ DOMAIN speechChan = 1..Len(speechChan)
      /\ \A i \in 1..Len(speechChan) :
            /\ speechChan[i] \in ItemType
            /\ 2 * speechChan[i].segment = 2 * (b - 1) + i + IF speechChan[i].flush THEN 0 ELSE 1
  BY ElementsType DEF SpeechShape, ItemsFrom
<1>2. Len(speechChan) = 2 * (w + 1 - b) \/ Len(speechChan) = 2 * (w + 1 - b) + 1
  BY DEF ReadTo, ItemsFrom
<1>3. ASSUME NEW i \in 1..Len(speechChan)
      PROVE  /\ speechChan[i].flush \in BOOLEAN /\ speechChan[i].segment \in Nat
             /\ speechChan[i].flush => i = 2 * (speechChan[i].segment + 1 - b)
             /\ ~speechChan[i].flush => i = 2 * (speechChan[i].segment + 1 - b) - 1
  <2> DEFINE s == speechChan[i].segment
             f == speechChan[i].flush
  <2>1. s \in Nat /\ f \in BOOLEAN /\ 2 * s = 2 * (b - 1) + i + IF f THEN 0 ELSE 1
    BY <1>1, <1>3 DEF ItemType
  <2> HIDE DEF s, f
  <2>2. i \in Nat
    BY <1>1, <1>3
  <2>3. f => 2 * s = 2 * (b - 1) + i
    BY <2>1
  <2>4. ~f => 2 * s = 2 * (b - 1) + i + 1
    BY <2>1
  <2>5. (f => i = 2 * (s + 1 - b)) /\ (~f => i = 2 * (s + 1 - b) - 1)
    BY <2>1, <2>2, <2>3, <2>4
  <2> QED BY <2>1, <2>5 DEF s, f
<1>4. ASSUME NEW i \in ToSpeak PROVE i \in Nat /\ m <= i /\ q <= w
  <2>1. i \in (2 * (q - b) + 1)..Len(speechChan) /\ speechChan[i].flush
    BY <1>4 DEF ToSpeak
  <2>2. i \in 1..Len(speechChan)
    BY <1>1, <2>1
  <2> DEFINE s == speechChan[i].segment
  <2>3. s \in Nat /\ i = 2 * (s + 1 - b)
    BY <1>3, <2>1, <2>2
  <2> HIDE DEF s
  <2>4. i \in Nat /\ i >= 2 * (q - b) + 1 /\ i <= Len(speechChan) /\ Len(speechChan) \in Nat
    BY <1>1, <2>1, <2>2
  <2>5. s >= q
    BY <2>3, <2>4
  <2>6. s <= w
    BY <1>2, <2>3, <2>4
  <2> QED BY <2>3, <2>4, <2>5, <2>6
<1>5. ASSUME q <= w PROVE m \in ToSpeak /\ speechChan[m].segment = q
  <2>1. m \in Nat /\ m - 1 \in Nat /\ 1 <= m - 1 /\ m <= Len(speechChan)
    <3>1. q + 1 - b \in Nat /\ q + 1 - b >= 1 /\ q + 1 - b <= w + 1 - b
      BY <1>5
    <3> QED BY <1>2, <3>1
  <2>2. m \in 1..Len(speechChan) /\ m - 1 \in 1..Len(speechChan)
    BY <1>1, <2>1
  <2>3. speechChan[m].flush /\ speechChan[m].segment = q
    <3> DEFINE s == speechChan[m].segment
    <3>1. s \in Nat /\ speechChan[m].flush \in BOOLEAN
          /\ (speechChan[m].flush => m = 2 * (s + 1 - b)) /\ (~speechChan[m].flush => m = 2 * (s + 1 - b) - 1)
      BY <1>3, <2>2
    <3> HIDE DEF s
    <3>2. m # 2 * (s + 1 - b) - 1
      BY <3>1
    <3>3. m = 2 * (s + 1 - b) => s = q
      BY <3>1
    <3> QED BY <3>1, <3>2, <3>3 DEF s
  <2>4. ~speechChan[m - 1].flush /\ speechChan[m - 1].segment = q
    <3> DEFINE s == speechChan[m - 1].segment
               n == m - 1
    <3>1. s \in Nat /\ speechChan[n].flush \in BOOLEAN
          /\ (speechChan[n].flush => n = 2 * (s + 1 - b)) /\ (~speechChan[n].flush => n = 2 * (s + 1 - b) - 1)
      BY <1>3, <2>2
    <3> HIDE DEF s
    <3>2. n # 2 * (s + 1 - b)
      BY <3>1
    <3>3. n = 2 * (s + 1 - b) - 1 => s = q
      BY <3>1
    <3> QED BY <3>1, <3>2, <3>3 DEF s
  <2>5. m \in (speechTts.spoken + 1)..Len(speechChan)
    BY <1>1, <2>1
  <2> HIDE DEF m
  <2> QED BY <1>1, <2>2, <2>3, <2>4, <2>5 DEF ToSpeak
<1>6. ToSpeak \in SUBSET Nat
  BY <1>4
<1>7. ASSUME q <= w PROVE Min(ToSpeak) = m
  <2>1. Min(ToSpeak) \in ToSpeak /\ Min(ToSpeak) <= m
    BY <1>5, <1>6, <1>7, MinIsLeast
  <2>2. Min(ToSpeak) \in Nat /\ m <= Min(ToSpeak) /\ m \in Nat
    BY <1>4, <1>5, <1>6, <1>7, <2>1
  <2> HIDE DEF m
  <2> QED BY <2>1, <2>2
<1> QED BY <1>4, <1>5, <1>7

\* The forwarder reads a text, which is not pending before its flush, or the flush.
LEMMA ForwardItemKeeps ==
    ASSUME FallbackSpeechAssumption, SpeechInv, ForwardItem PROVE SpeechInv'
<1> PICK a \in Nat, b \in Nat, q \in Nat, w \in Nat : SpeechAt(a, b, q, w)
  BY DEF SpeechInv
<1> DEFINE item == Item(forwarded + 1)
<1>1. /\ SpeechShape /\ SaidInOrder /\ MaxSegments \in Nat
      /\ 1 <= a /\ a <= w + 1 /\ 1 <= b /\ b <= q /\ q <= w + 1
      /\ ReadTo(forwarded, currentSegment, w) /\ Consecutive(pending, a, w) /\ ItemsFrom(speechChan, b, forwarded)
  BY DEF SpeechInv, SpeechAt, FallbackSpeechAssumption
<1>2. /\ forwarded < textItems /\ forwarded' = forwarded + 1 /\ runOutcome = "runs"
      /\ speechChan' = Append(speechChan, item)
      /\ currentSegment' = IF item.flush THEN 0 ELSE item.segment
      /\ pending' = IF item.flush /\ currentSegment # 0 THEN Append(pending, currentSegment) ELSE pending
      /\ UNCHANGED <<marksFinal, namesSegments, textItems, speechTts, runOutcome, said>>
  BY DEF ForwardItem
<1>3. /\ pending \in Seq(Nat) /\ speechChan \in Seq(ItemType) /\ Len(pending) \in Nat /\ Len(speechChan) \in Nat
      /\ forwarded \in Nat /\ textItems \in Nat /\ forwarded' \in 0..textItems
  <2>1. pending \in Seq(Nat) /\ speechChan \in Seq(ItemType) /\ forwarded \in 0..textItems /\ textItems \in 0..(2 * MaxSegments)
    BY <1>1 DEF SpeechShape
  <2>2. forwarded' \in 0..textItems
    BY <1>2, <2>1
  <2> QED BY <2>1, <2>2, LenProperties
<1>4. /\ item.segment = w + 1 /\ item \in ItemType
      /\ (currentSegment = 0 => ~item.flush) /\ (currentSegment # 0 => item.flush)
  <2>1. item = [segment |-> (forwarded + 2) \div 2, flush |-> (forwarded + 1) % 2 = 0]
    <3>1. (forwarded + 1) + 1 = forwarded + 2
      BY <1>3
    <3> QED BY <3>1 DEF Item
  <2>2. /\ (forwarded + 2) \div 2 = w + 1
        /\ currentSegment = 0 => (forwarded + 1) % 2 # 0
        /\ currentSegment # 0 => (forwarded + 1) % 2 = 0
    <3>1. CASE forwarded = 2 * w /\ currentSegment = 0
      <4>1. (forwarded + 2) \div 2 = w + 1 /\ (forwarded + 1) % 2 # 0
        BY <3>1
      <4> QED BY <3>1, <4>1
    <3>2. CASE forwarded = 2 * w + 1 /\ currentSegment = w + 1
      <4>1. (forwarded + 2) \div 2 = w + 1 /\ (forwarded + 1) % 2 = 0 /\ currentSegment # 0
        BY <3>2
      <4> QED BY <4>1
    <3> QED BY <1>1, <3>1, <3>2 DEF ReadTo
  <2> HIDE DEF item
  <2> DEFINE even == (forwarded + 1) % 2 = 0
  <2>3. even \in BOOLEAN /\ item = [segment |-> w + 1, flush |-> even]
    BY <2>1, <2>2
  <2>4. (currentSegment = 0 => ~even) /\ (currentSegment # 0 => even)
    BY <2>2
  <2> HIDE DEF even
  <2> QED BY <2>3, <2>4 DEF ItemType
<1> HIDE DEF item
<1>5. /\ speechChan' \in Seq(ItemType) /\ Len(speechChan') = Len(speechChan) + 1
      /\ \A i \in 1..Len(speechChan) : speechChan'[i] = speechChan[i]
      /\ speechChan'[Len(speechChan) + 1] = item
  BY <1>2, <1>3, <1>4, AppendProperties
<1>6. ItemsFrom(speechChan', b, forwarded')
  <2>1. Len(speechChan') = forwarded' - 2 * (b - 1)
    <3>1. Len(speechChan) = forwarded - 2 * (b - 1)
      BY <1>1 DEF ItemsFrom
    <3> QED BY <1>2, <1>3, <1>5, <3>1
  <2>2. ASSUME NEW i \in 1..Len(speechChan')
        PROVE  2 * speechChan'[i].segment = 2 * (b - 1) + i + IF speechChan'[i].flush THEN 0 ELSE 1
    <3>1. CASE i = Len(speechChan) + 1
      <4>1. speechChan'[i] = item /\ i = forwarded + 1 - 2 * (b - 1)
        BY <1>1, <1>3, <1>5, <3>1 DEF ItemsFrom
      <4>2. 2 * item.segment = 2 * (b - 1) + i + IF item.flush THEN 0 ELSE 1
        <5>1. CASE forwarded = 2 * w /\ currentSegment = 0
          <6>1. ~item.flush /\ item.segment = w + 1 /\ i = 2 * w + 1 - 2 * (b - 1)
            BY <1>4, <4>1, <5>1
          <6> QED BY <6>1
        <5>2. CASE forwarded = 2 * w + 1 /\ currentSegment = w + 1
          <6>1. currentSegment # 0
            BY <5>2
          <6>2. item.flush /\ item.segment = w + 1 /\ i = 2 * w + 2 - 2 * (b - 1)
            BY <1>4, <4>1, <5>2, <6>1
          <6> QED BY <6>2
        <5> QED BY <1>1, <5>1, <5>2 DEF ReadTo
      <4> QED BY <4>1, <4>2
    <3>2. CASE i # Len(speechChan) + 1
      <4>1. i \in 1..Len(speechChan)
        BY <1>3, <1>5, <3>2
      <4> QED BY <1>1, <1>5, <4>1 DEF ItemsFrom
    <3> QED BY <3>1, <3>2
  <2> QED BY <2>1, <2>2 DEF ItemsFrom
<1>7. SaidInOrder'
  BY <1>1, <1>2 DEF SaidInOrder
<1>8. pending' \in Seq(Nat) => SpeechShape'
  BY <1>1, <1>2, <1>3, <1>5 DEF SpeechShape
<1>9. CASE forwarded = 2 * w /\ currentSegment = 0
  <2>1. ~item.flush /\ pending' = pending /\ currentSegment' = w + 1 /\ forwarded' = 2 * w + 1
    BY <1>2, <1>4, <1>9
  <2>2. ReadTo(forwarded', currentSegment', w)
    BY <2>1 DEF ReadTo
  <2>3. SpeechAt(a, b, q, w)'
    BY <1>1, <1>2, <1>6, <2>1, <2>2 DEF SpeechAt
  <2> QED BY <1>3, <1>7, <1>8, <2>1, <2>3 DEF SpeechInv
<1>10. CASE forwarded = 2 * w + 1 /\ currentSegment = w + 1
  <2>1. currentSegment # 0
    BY <1>10
  <2>2. pending' = Append(pending, w + 1) /\ currentSegment' = 0 /\ forwarded' = 2 * (w + 1)
    <3>1. item.flush
      BY <1>4, <2>1
    <3> QED BY <1>2, <1>10, <2>1, <3>1
  <2>3. /\ pending' \in Seq(Nat) /\ Len(pending') = Len(pending) + 1
        /\ \A k \in 1..Len(pending) : pending'[k] = pending[k]
        /\ pending'[Len(pending) + 1] = w + 1
    <3>1. w + 1 \in Nat
      OBVIOUS
    <3> QED BY <1>3, <2>2, <3>1, AppendProperties
  <2>4. Consecutive(pending', a, w + 1)
    <3>1. Len(pending) = w - a + 1
      BY <1>1 DEF Consecutive
    <3>2. Len(pending') = (w + 1) - a + 1
      BY <2>3, <3>1
    <3>3. ASSUME NEW k \in 1..Len(pending') PROVE pending'[k] = a + k - 1
      <4>1. CASE k = Len(pending) + 1
        <5>1. pending'[k] = w + 1 /\ k = w - a + 2
          BY <2>3, <3>1, <4>1
        <5> QED BY <5>1
      <4>2. CASE k # Len(pending) + 1
        <5>1. k \in 1..Len(pending)
          BY <1>3, <2>3, <4>2
        <5> QED BY <1>1, <2>3, <5>1 DEF Consecutive
      <4> QED BY <4>1, <4>2
    <3> QED BY <3>2, <3>3 DEF Consecutive
  <2>5. ReadTo(forwarded', currentSegment', w + 1) /\ w + 1 \in Nat
    BY <2>2 DEF ReadTo
  <2>6. a <= (w + 1) + 1 /\ q <= (w + 1) + 1
    BY <1>1
  <2>7. SpeechAt(a, b, q, w + 1)'
    BY <1>1, <1>2, <1>6, <2>4, <2>5, <2>6 DEF SpeechAt
  <2> QED BY <1>7, <1>8, <2>3, <2>5, <2>7 DEF SpeechInv
<1> QED BY <1>1, <1>9, <1>10 DEF ReadTo

\* A frame of segment q; at its end the attempt goes on with the next one.
LEMMA FrameKeeps ==
    ASSUME FallbackSpeechAssumption, SpeechInv, Frame PROVE SpeechInv'
<1> PICK a \in Nat, b \in Nat, q \in Nat, w \in Nat : SpeechAt(a, b, q, w)
  BY DEF SpeechInv
<1> DEFINE ends == speechTts.frame = 2
           final == ends /\ marksFinal
           pops == Pops(q, final)
           at == IF ends THEN q + 1 ELSE q
           from == IF pops THEN a + 1 ELSE a
<1>1. /\ SpeechShape /\ SaidInOrder /\ MaxSegments \in Nat
      /\ 1 <= a /\ a <= w + 1 /\ 1 <= b /\ b <= q /\ q <= w + 1
      /\ ReadTo(forwarded, currentSegment, w) /\ Consecutive(pending, a, w) /\ ItemsFrom(speechChan, b, forwarded)
      /\ speechTts.spoken = 2 * (q - b)
      /\ marksFinal => q <= a /\ SaidBelow(said, q)
      /\ ~namesSegments => a <= q /\ SaidUpTo(said, q)
  BY DEF SpeechInv, SpeechAt, FallbackSpeechAssumption
<1>2. ToSpeak # {} /\ runOutcome = "runs"
  BY DEF Frame
<1>3. q <= w /\ Min(ToSpeak) = 2 * (q + 1 - b) /\ speechChan[Min(ToSpeak)].segment = q
  <2>1. q # w + 1
    BY <1>1, <1>2, ToSpeakIs
  <2>2. q <= w
    BY <1>1, <2>1
  <2> QED BY <1>1, <2>2, ToSpeakIs
<1>4. /\ pending' = IF pops THEN Tail(pending) ELSE pending
      /\ speechTts' = [speechTts EXCEPT !.spoken = IF ends THEN Min(ToSpeak) ELSE @, !.frame = IF ends THEN 1 ELSE 2,
                             !.audio = IF pops THEN 0 ELSE @ + 1, !.last = q]
      /\ said' = IF ends THEN Append(said, q) ELSE said
      /\ UNCHANGED <<marksFinal, namesSegments, textItems, forwarded, currentSegment, speechChan, runOutcome>>
  BY <1>3 DEF Frame
<1>5. /\ pending \in Seq(Nat) /\ speechChan \in Seq(ItemType) /\ Len(pending) \in Nat /\ forwarded \in Nat
      /\ speechTts \in [at : 1..TtsCount, spoken : Nat, frame : {1, 2}, audio : Nat, last : 0..MaxSegments]
      /\ said \in Seq(1..MaxSegments) /\ Len(said) \in Nat /\ marksFinal \in BOOLEAN
  <2>1. pending \in Seq(Nat) /\ said \in Seq(1..MaxSegments)
    BY <1>1 DEF SpeechShape
  <2> QED BY <1>1, <2>1, LenProperties DEF SpeechShape
<1>6. w <= MaxSegments
  <2>1. forwarded <= 2 * MaxSegments
    BY <1>1, <1>5 DEF SpeechShape
  <2>2. forwarded = 2 * w \/ forwarded = 2 * w + 1
    BY <1>1 DEF ReadTo
  <2> QED BY <1>1, <2>1, <2>2
<1>7. pops => pending # <<>> /\ (final \/ namesSegments)
  BY DEF Pops
<1>8. marksFinal /\ ends /\ pending # <<>> => pops
  BY DEF Pops
<1> HIDE DEF pops
<1>9. /\ from \in Nat /\ at \in Nat /\ 1 <= from /\ from <= w + 1 /\ b <= at /\ at <= w + 1
      /\ marksFinal => at <= from
      /\ ~namesSegments => from <= at
  <2>1. Len(pending) = w - a + 1
    BY <1>1 DEF Consecutive
  <2>2. pending # <<>> <=> a <= w
    <3>1. pending = <<>> <=> Len(pending) = 0
      BY <1>5, EmptySeq
    <3> QED BY <2>1, <3>1
  <2>3. pops => a <= w
    BY <1>7, <2>2
  <2>4. marksFinal /\ ends /\ a <= w => pops
    BY <1>8, <2>2
  <2>5. pops /\ ~namesSegments => ends
    BY <1>7
  <2>6. 1 <= a /\ a <= w + 1 /\ 1 <= b /\ b <= q /\ q <= w /\ (marksFinal => q <= a) /\ (~namesSegments => a <= q)
    BY <1>1, <1>3
  <2> HIDE DEF ends
  <2>7. marksFinal => at <= from
    BY <2>4, <2>6
  <2>8. ~namesSegments => from <= at
    BY <2>5, <2>6
  <2> QED BY <2>3, <2>6, <2>7, <2>8
<1>10. pending' \in Seq(Nat) /\ Consecutive(pending', from, w)
  <2>1. CASE pops
    <3>1. pending # <<>> /\ pending' = Tail(pending)
      BY <1>4, <1>7, <2>1
    <3>2. /\ pending' \in Seq(Nat) /\ Len(pending') = Len(pending) - 1
          /\ \A k \in 1..Len(pending') : pending'[k] = pending[k + 1]
      BY <1>5, <3>1, HeadTailProperties, EmptySeq
    <3>3. Len(pending) = w - a + 1 /\ \A k \in 1..Len(pending) : pending[k] = a + k - 1
      BY <1>1 DEF Consecutive
    <3>4. Len(pending') = w - (a + 1) + 1
      BY <3>2, <3>3
    <3>5. ASSUME NEW k \in 1..Len(pending') PROVE pending'[k] = (a + 1) + k - 1
      <4>1. k \in Nat /\ k + 1 \in 1..Len(pending)
        BY <1>5, <3>2, <3>5
      <4>2. pending'[k] = a + (k + 1) - 1
        BY <3>2, <3>3, <3>5, <4>1
      <4> QED BY <4>1, <4>2
    <3> QED BY <2>1, <3>2, <3>4, <3>5 DEF Consecutive
  <2>2. CASE ~pops
    BY <1>1, <1>4, <1>5, <2>2
  <2> QED BY <2>1, <2>2
<1>11. /\ speechTts' \in [at : 1..TtsCount, spoken : Nat, frame : {1, 2}, audio : Nat, last : 0..MaxSegments]
       /\ speechTts'.spoken = 2 * (at - b)
  <2> DEFINE spoken == IF ends THEN Min(ToSpeak) ELSE speechTts.spoken
             frame == IF ends THEN 1 ELSE 2
             audio == IF pops THEN 0 ELSE speechTts.audio + 1
  <2>1. speechTts' = [speechTts EXCEPT !.spoken = spoken, !.frame = frame, !.audio = audio, !.last = q]
    BY <1>4
  <2>2. spoken \in Nat /\ spoken = 2 * (at - b)
    BY <1>1, <1>3
  <2>3. frame \in {1, 2} /\ audio \in Nat /\ q \in 0..MaxSegments
    <3>1. speechTts.audio \in Nat
      BY <1>5
    <3>2. audio \in Nat
      BY <3>1
    <3>3. q \in 0..MaxSegments
      BY <1>1, <1>3, <1>6
    <3> QED BY <3>2, <3>3
  <2> HIDE DEF spoken, frame, audio
  <2> QED BY <1>5, <2>1, <2>2, <2>3
<1>12. /\ said' \in Seq(1..MaxSegments)
       /\ marksFinal => SaidBelow(said', at)
       /\ ~namesSegments => SaidUpTo(said', at)
       /\ SaidInOrder'
  <2>1. CASE ends
    <3>1. q \in 1..MaxSegments
      BY <1>1, <1>3, <1>6
    <3>2. /\ said' = Append(said, q) /\ at = q + 1
      BY <1>4, <2>1
    <3>3. /\ said' \in Seq(1..MaxSegments) /\ Len(said') = Len(said) + 1 /\ DOMAIN said' = 1..Len(said')
          /\ \A i \in 1..Len(said) : said'[i] = said[i]
          /\ said'[Len(said) + 1] = q
      BY <1>5, <3>1, <3>2, AppendProperties, LenProperties
    <3>4. DOMAIN said = 1..Len(said) /\ \A i \in 1..Len(said) : said[i] \in 1..MaxSegments
      BY <1>5, ElementsType
    <3>5. ASSUME marksFinal PROVE SaidBelow(said', at)
      <4>1. ASSUME NEW i \in 1..Len(said') PROVE said'[i] < at
        <5>1. CASE i = Len(said) + 1
          BY <3>2, <3>3, <5>1
        <5>2. CASE i # Len(said) + 1
          <6>1. i \in 1..Len(said)
            BY <1>5, <3>3, <5>2
          <6>2. said'[i] < q /\ said'[i] \in 1..MaxSegments
            BY <1>1, <3>3, <3>4, <3>5, <6>1 DEF SaidBelow
          <6> QED BY <1>1, <3>2, <6>2
        <5> QED BY <5>1, <5>2
      <4> QED BY <4>1 DEF SaidBelow
    <3>6. ASSUME ~namesSegments PROVE SaidUpTo(said', at)
      <4>1. ASSUME NEW e \in 1..(at - 1) PROVE \E i \in 1..Len(said') : said'[i] = e
        <5>1. CASE e = q
          <6>1. Len(said) + 1 \in 1..Len(said')
            BY <1>5, <3>3
          <6> QED BY <3>3, <5>1, <6>1
        <5>2. CASE e # q
          <6>1. e \in 1..(q - 1)
            BY <3>2, <5>2
          <6>2. PICK i \in 1..Len(said) : said[i] = e
            BY <1>1, <3>6, <6>1 DEF SaidUpTo
          <6>3. i \in 1..Len(said')
            BY <1>5, <3>3
          <6> QED BY <3>3, <6>2, <6>3
        <5> QED BY <5>1, <5>2
      <4> QED BY <4>1 DEF SaidUpTo
    <3>7. ASSUME marksFinal', NEW i \in DOMAIN said', NEW j \in DOMAIN said', i < j PROVE said'[i] < said'[j]
      <4>1. marksFinal /\ i \in 1..Len(said)
        BY <1>4, <1>5, <3>3, <3>7
      <4>2. CASE j = Len(said) + 1
        BY <1>1, <3>3, <4>1, <4>2 DEF SaidBelow
      <4>3. CASE j # Len(said) + 1
        <5>1. j \in 1..Len(said)
          BY <1>5, <3>3, <3>7, <4>3
        <5> QED BY <1>1, <3>3, <3>4, <3>7, <4>1, <5>1 DEF SaidInOrder
      <4> QED BY <4>2, <4>3
    <3>8. SaidInOrder'
      BY <3>7 DEF SaidInOrder
    <3> QED BY <3>3, <3>5, <3>6, <3>8
  <2>2. CASE ~ends
    <3>1. said' = said /\ at = q /\ marksFinal' = marksFinal
      BY <1>4, <2>2
    <3>2. SaidInOrder'
      BY <1>1, <3>1 DEF SaidInOrder
    <3> QED BY <1>1, <1>5, <3>1, <3>2
  <2> QED BY <2>1, <2>2
<1>13. SpeechShape'
  BY <1>1, <1>4, <1>10, <1>11, <1>12 DEF SpeechShape
<1> HIDE DEF from, at
<1> PICK a1 \in Nat, q1 \in Nat : a1 = from /\ q1 = at
  BY <1>9
<1>14. SpeechAt(a1, b, q1, w)'
  BY <1>1, <1>2, <1>4, <1>9, <1>10, <1>11, <1>12 DEF SpeechAt
<1> QED BY <1>12, <1>13, <1>14 DEF SpeechInv

\* The next provider begins with the first pending segment.
LEMMA HeardAgainIs ==
    ASSUME pending \in Seq(Nat), NEW a \in Nat, NEW w \in Nat, 1 <= a, a <= w + 1,
           ReadTo(forwarded, currentSegment, w), Consecutive(pending, a, w)
    PROVE  HeardAgain \in Seq(ItemType) /\ ItemsFrom(HeardAgain, a, forwarded)
<1> DEFINE N == 2 * Len(pending)
           whole == [i \in 1..N |-> [segment |-> pending[(i + 1) \div 2], flush |-> i % 2 = 0]]
           rest == [segment |-> currentSegment, flush |-> FALSE]
<1>1. /\ Len(pending) \in Nat /\ Len(pending) = w - a + 1 /\ N \in Nat
      /\ \A k \in 1..Len(pending) : pending[k] = a + k - 1
  BY LenProperties DEF Consecutive
<1>2. HeardAgain = IF currentSegment = 0 THEN whole ELSE Append(whole, rest)
  BY DEF HeardAgain
<1>3. ASSUME NEW i \in 1..N
      PROVE  whole[i] \in ItemType /\ 2 * whole[i].segment = 2 * (a - 1) + i + IF whole[i].flush THEN 0 ELSE 1
  <2> DEFINE k == (i + 1) \div 2
             even == i % 2 = 0
  <2>1. i \in Nat /\ 1 <= i /\ i <= 2 * Len(pending)
    BY <1>1
  <2>2. k \in 1..Len(pending)
    BY <1>1, <2>1
  <2>3. even \in BOOLEAN /\ (even => 2 * k = i) /\ (~even => 2 * k = i + 1)
    BY <2>1
  <2>4. whole[i] = [segment |-> pending[k], flush |-> even]
    OBVIOUS
  <2> HIDE DEF k, even, whole, N
  <2>5. pending[k] = a + k - 1 /\ k \in Nat /\ a + k - 1 \in Nat
    BY <1>1, <2>2
  <2>6. whole[i] \in ItemType /\ whole[i].segment = a + k - 1 /\ (whole[i].flush <=> even)
    BY <2>3, <2>4, <2>5 DEF ItemType
  <2>7. 2 * (a + k - 1) = 2 * (a - 1) + i + IF even THEN 0 ELSE 1
    BY <2>1, <2>3, <2>5
  <2> QED BY <2>6, <2>7
<1>4. whole \in Seq(ItemType) /\ Len(whole) = N
  <2>1. whole \in [1..N -> ItemType]
    BY <1>3
  <2> HIDE DEF whole, N
  <2> QED BY <1>1, <2>1, SeqDef, LenProperties
<1>5. N = 2 * (w - a + 1)
  BY <1>1
<1> HIDE DEF whole, N
<1>6. CASE forwarded = 2 * w /\ currentSegment = 0
  <2>1. HeardAgain = whole
    BY <1>2, <1>6
  <2>2. Len(whole) = forwarded - 2 * (a - 1)
    BY <1>4, <1>5, <1>6
  <2> QED BY <1>3, <1>4, <2>1, <2>2 DEF ItemsFrom
<1>7. CASE forwarded = 2 * w + 1 /\ currentSegment = w + 1
  <2>1. currentSegment # 0
    BY <1>7
  <2>2. HeardAgain = Append(whole, rest)
    BY <1>2, <2>1
  <2>3. rest \in ItemType /\ rest.segment = w + 1 /\ rest.flush = FALSE
    BY <1>7 DEF ItemType
  <2> HIDE DEF rest
  <2>4. /\ HeardAgain \in Seq(ItemType) /\ Len(HeardAgain) = N + 1
        /\ \A i \in 1..N : HeardAgain[i] = whole[i]
        /\ HeardAgain[N + 1] = rest
    BY <1>4, <2>2, <2>3, AppendProperties
  <2>5. Len(HeardAgain) = forwarded - 2 * (a - 1)
    BY <1>5, <1>7, <2>4
  <2>6. ASSUME NEW i \in 1..Len(HeardAgain)
        PROVE  2 * HeardAgain[i].segment = 2 * (a - 1) + i + IF HeardAgain[i].flush THEN 0 ELSE 1
    <3>1. CASE i = N + 1
      <4>1. 2 * (w + 1) = 2 * (a - 1) + i + 1
        BY <1>5, <3>1
      <4> QED BY <2>3, <2>4, <3>1, <4>1
    <3>2. CASE i # N + 1
      <4>1. i \in 1..N
        BY <1>1, <2>4, <3>2
      <4> QED BY <1>3, <2>4, <4>1
    <3> QED BY <3>1, <3>2
  <2> QED BY <2>4, <2>5, <2>6 DEF ItemsFrom
<1> QED BY <1>6, <1>7 DEF ReadTo

\* The attempt fails: what the next provider hears begins where nothing was heard to its end yet, or
\* was not known to be.
LEMMA ProviderFailsKeeps ==
    ASSUME FallbackSpeechAssumption, SpeechInv, NEW enough, ProviderFails(enough) PROVE SpeechInv'
<1> PICK a \in Nat, b \in Nat, q \in Nat, w \in Nat : SpeechAt(a, b, q, w)
  BY DEF SpeechInv
<1>1. /\ SpeechShape /\ SaidInOrder /\ MaxSegments \in Nat /\ TtsCount \in Nat
      /\ 1 <= a /\ a <= w + 1 /\ 1 <= b /\ b <= q /\ q <= w + 1
      /\ ReadTo(forwarded, currentSegment, w) /\ Consecutive(pending, a, w) /\ ItemsFrom(speechChan, b, forwarded)
      /\ speechTts.spoken = 2 * (q - b) /\ runOutcome = "runs"
      /\ marksFinal => q <= a /\ SaidBelow(said, q)
      /\ ~namesSegments => a <= q /\ SaidUpTo(said, q)
      /\ UNCHANGED <<marksFinal, namesSegments, textItems, forwarded, pending, currentSegment, said>>
  BY DEF SpeechInv, SpeechAt, FallbackSpeechAssumption, ProviderFails
<1>2. SaidInOrder'
  BY <1>1 DEF SaidInOrder
<1>3. CASE runOutcome' \in {"cut", "failed"} /\ UNCHANGED <<speechChan, speechTts>>
  <2>1. SpeechShape'
    BY <1>1, <1>3 DEF SpeechShape
  <2>2. SpeechAt(a, b, q, w)'
    BY <1>1, <1>3 DEF SpeechAt
  <2> QED BY <1>2, <2>1, <2>2 DEF SpeechInv
<1>4. CASE /\ speechTts.at # TtsCount /\ UNCHANGED runOutcome /\ speechChan' = HeardAgain
           /\ speechTts' = [at |-> speechTts.at + 1, spoken |-> 0, frame |-> 1, audio |-> 0, last |-> 0]
  <2>1. /\ pending \in Seq(Nat) /\ speechTts.at \in 1..TtsCount /\ said \in Seq(1..MaxSegments)
    BY <1>1 DEF SpeechShape
  <2>2. speechChan' \in Seq(ItemType) /\ ItemsFrom(speechChan', a, forwarded)
    BY <1>1, <1>4, <2>1, HeardAgainIs
  <2>3. speechTts.at + 1 \in 1..TtsCount
    <3>1. speechTts.at # TtsCount /\ TtsCount \in Nat
      BY <1>1, <1>4
    <3> QED BY <2>1, <3>1
  <2>4. /\ speechTts' \in [at : 1..TtsCount, spoken : Nat, frame : {1, 2}, audio : Nat, last : 0..MaxSegments]
        /\ speechTts'.spoken = 2 * (a - a)
    BY <1>1, <1>4, <2>3
  <2>5. SpeechShape'
    BY <1>1, <1>4, <2>2, <2>4 DEF SpeechShape
  <2>6. SaidBelow(said, q) /\ q <= a => SaidBelow(said, a)
    <3>1. \A i \in 1..Len(said) : said[i] \in 1..MaxSegments
      BY <2>1, ElementsType
    <3>2. ASSUME SaidBelow(said, q), q <= a, NEW i \in 1..Len(said) PROVE said[i] < a
      <4>1. said[i] < q /\ said[i] \in Nat
        BY <1>1, <3>1, <3>2 DEF SaidBelow
      <4> QED BY <3>2, <4>1
    <3> QED BY <3>2 DEF SaidBelow
  <2>7. SaidUpTo(said, q) /\ a <= q => SaidUpTo(said, a)
    <3>1. a <= q => 1..(a - 1) \subseteq 1..(q - 1)
      OBVIOUS
    <3> QED BY <3>1 DEF SaidUpTo
  <2>8. SpeechAt(a, a, a, w)'
    BY <1>1, <1>4, <2>2, <2>4, <2>6, <2>7 DEF SpeechAt
  <2> QED BY <1>2, <2>5, <2>8 DEF SpeechInv
<1> QED BY <1>3, <1>4 DEF ProviderFails

LEMMA SpeechStepKeeps ==
    ASSUME FallbackSpeechAssumption, SpeechInv, [FallbackSpeechNext]_saidVars PROVE SpeechInv'
<1> PICK a \in Nat, b \in Nat, q \in Nat, w \in Nat : SpeechAt(a, b, q, w)
  BY DEF SpeechInv
<1>1. SpeechShape /\ SaidInOrder /\ MaxSegments \in Nat
  BY DEF SpeechInv, FallbackSpeechAssumption
<1>2. ASSUME UNCHANGED <<marksFinal, namesSegments, forwarded, pending, currentSegment, speechChan, speechTts, runOutcome, said>>,
             textItems' \in textItems..(2 * MaxSegments)
      PROVE  SpeechInv'
  <2>1. SaidInOrder' /\ SpeechAt(a, b, q, w)'
    BY <1>1, <1>2 DEF SaidInOrder, SpeechAt
  <2>2. forwarded' \in 0..textItems' /\ textItems' \in 0..(2 * MaxSegments)
    BY <1>1, <1>2 DEF SpeechShape
  <2>3. SpeechShape'
    BY <1>1, <1>2, <2>2 DEF SpeechShape
  <2> QED BY <2>1, <2>3 DEF SpeechInv
<1>3. textItems \in 0..(2 * MaxSegments)
  BY <1>1 DEF SpeechShape
<1>4. CASE UNCHANGED saidVars
  <2>1. textItems' \in textItems..(2 * MaxSegments)
    BY <1>1, <1>3, <1>4 DEF saidVars
  <2> QED BY <1>2, <1>4, <2>1 DEF saidVars
<1>5. CASE PushItem
  <2>1. textItems' \in textItems..(2 * MaxSegments)
    BY <1>1, <1>3, <1>5 DEF PushItem
  <2> QED BY <1>2, <1>5, <2>1 DEF PushItem
<1>6. CASE SpeechReturns
  <2>1. /\ runOutcome' = "returned" /\ forwarded = 2 * MaxSegments /\ ToSpeak = {}
        /\ UNCHANGED <<marksFinal, namesSegments, textItems, forwarded, pending, currentSegment, speechChan, speechTts, said>>
    BY <1>6 DEF SpeechReturns
  <2>2. q = w + 1
    <3>1. /\ 1 <= b /\ b <= q /\ q <= w + 1 /\ ReadTo(forwarded, currentSegment, w)
          /\ ItemsFrom(speechChan, b, forwarded) /\ speechTts.spoken = 2 * (q - b)
      BY DEF SpeechAt
    <3>2. ~(q <= w)
      BY <1>1, <2>1, <3>1, ToSpeakIs
    <3> QED BY <3>1, <3>2
  <2>3. w = MaxSegments
    <3>1. forwarded = 2 * w \/ forwarded = 2 * w + 1
      BY DEF SpeechAt, ReadTo
    <3> QED BY <1>1, <2>1, <3>1
  <2>4. SaidInOrder' /\ SpeechShape'
    BY <1>1, <2>1 DEF SaidInOrder, SpeechShape
  <2>5. SpeechAt(a, b, q, w)'
    BY <2>1, <2>2, <2>3 DEF SpeechAt
  <2> QED BY <2>4, <2>5 DEF SpeechInv
<1> QED BY <1>4, <1>5, <1>6, ForwardItemKeeps, FrameKeeps, ProviderFailsKeeps DEF FallbackSpeechNext

LEMMA SpeechIsSafe ==
    ASSUME FallbackSpeechAssumption, SpeechInv PROVE FallbackSpeechTypeOK /\ AllSaid /\ SaidInOrder
<1> PICK a \in Nat, b \in Nat, q \in Nat, w \in Nat : SpeechAt(a, b, q, w)
  BY DEF SpeechInv
<1>1. /\ SpeechShape /\ SaidInOrder /\ MaxSegments \in Nat
      /\ 1 <= a /\ a <= w + 1 /\ 1 <= b /\ b <= q /\ q <= w + 1
      /\ ReadTo(forwarded, currentSegment, w) /\ Consecutive(pending, a, w) /\ ItemsFrom(speechChan, b, forwarded)
      /\ speechTts.spoken = 2 * (q - b)
  BY DEF SpeechInv, SpeechAt, FallbackSpeechAssumption
<1>2. forwarded \in Nat /\ forwarded <= 2 * MaxSegments /\ forwarded \in 0..textItems
  BY <1>1 DEF SpeechShape
<1>3. w <= MaxSegments /\ currentSegment \in 0..MaxSegments
  <2>1. CASE forwarded = 2 * w /\ currentSegment = 0
    <3>1. w <= MaxSegments
      BY <1>1, <1>2, <2>1
    <3> QED BY <1>1, <2>1, <3>1
  <2>2. CASE forwarded = 2 * w + 1 /\ currentSegment = w + 1
    <3>1. w + 1 <= MaxSegments
      BY <1>1, <1>2, <2>2
    <3> QED BY <1>1, <2>2, <3>1
  <2> QED BY <1>1, <2>1, <2>2 DEF ReadTo
<1>4. \A i \in DOMAIN pending : pending[i] \in 1..MaxSegments
  <2>1. DOMAIN pending = 1..Len(pending) /\ Len(pending) \in Nat
    BY <1>1, LenProperties DEF SpeechShape
  <2>2. Len(pending) = w - a + 1 /\ \A k \in 1..Len(pending) : pending[k] = a + k - 1
    BY <1>1 DEF Consecutive
  <2>3. ASSUME NEW i \in 1..Len(pending) PROVE pending[i] \in 1..MaxSegments
    <3>1. i \in Nat /\ 1 <= i /\ i <= w - a + 1 /\ pending[i] = a + i - 1
      BY <2>1, <2>2
    <3>2. a + i - 1 \in 1..MaxSegments
      BY <1>1, <1>3, <3>1
    <3> QED BY <3>1, <3>2
  <2> QED BY <2>1, <2>3
<1>5. \A i \in DOMAIN speechChan : speechChan[i].segment \in 1..MaxSegments /\ speechChan[i].flush \in BOOLEAN
  <2>1. /\ DOMAIN speechChan = 1..Len(speechChan) /\ Len(speechChan) \in Nat
        /\ \A i \in 1..Len(speechChan) : speechChan[i] \in ItemType
    BY <1>1, ElementsType DEF SpeechShape
  <2>2. ASSUME NEW i \in 1..Len(speechChan)
        PROVE  speechChan[i].segment \in 1..MaxSegments /\ speechChan[i].flush \in BOOLEAN
    <3> DEFINE s == speechChan[i].segment
               f == speechChan[i].flush
               odd == IF f THEN 0 ELSE 1
    <3>1. s \in Nat /\ f \in BOOLEAN
      BY <2>1 DEF ItemType
    <3>2. 2 * s = 2 * (b - 1) + i + odd /\ odd \in {0, 1} /\ Len(speechChan) = forwarded - 2 * (b - 1)
      BY <1>1 DEF ItemsFrom
    <3>3. i \in Nat /\ 1 <= i /\ i <= Len(speechChan)
      BY <2>1
    <3> HIDE DEF s, odd
    <3>4. s \in 1..MaxSegments
      BY <1>1, <1>2, <3>1, <3>2, <3>3
    <3> QED BY <3>1, <3>4 DEF s
  <2> QED BY <2>1, <2>2
<1>6. speechTts.spoken \in 0..(2 * MaxSegments)
  <2>1. 2 * (q - b) \in 0..(2 * MaxSegments)
    <3>1. q - b \in Nat /\ q - b <= MaxSegments
      BY <1>1, <1>3
    <3> QED BY <1>1, <3>1
  <2> QED BY <1>1, <2>1
<1>7. AllSaid
  <2> SUFFICES ASSUME runOutcome = "returned", ~namesSegments PROVE \A e \in 1..MaxSegments : \E i \in DOMAIN said : said[i] = e
    BY DEF AllSaid
  <2>1. q = MaxSegments + 1 /\ SaidUpTo(said, q)
    BY DEF SpeechAt
  <2>2. DOMAIN said = 1..Len(said) /\ 1..(q - 1) = 1..MaxSegments
    <3>1. q - 1 = MaxSegments
      BY <1>1, <2>1
    <3> QED BY <1>1, <3>1, LenProperties DEF SpeechShape
  <2> QED BY <2>1, <2>2 DEF SaidUpTo
<1>8. FallbackSpeechTypeOK
  <2>1. speechTts \in [at : 1..TtsCount, spoken : Nat, frame : {1, 2}, audio : Nat, last : 0..MaxSegments]
    BY <1>1 DEF SpeechShape
  <2> QED BY <1>1, <1>2, <1>3, <1>4, <1>5, <1>6, <2>1 DEF FallbackSpeechTypeOK, SpeechShape
<1> QED BY <1>1, <1>7, <1>8

LEMMA SttIsSafe == SttInv => FallbackStreamsTypeOK /\ MainHearsNoGap
BY DEF SttInv, FramesFollow, MainHearsNoGap

\* The caller of a fallback adapter that heard enough of one provider never hears another one in the
\* same call, whatever the providers do (tts/fallback_adapter.py:71).
THEOREM SaidByOne == FallbackCallsSpec => [][HeardOnce]_callVars
<1>1. FallbackCallsSpec => []CallsInv
  BY CallsInitInv, CallsStepKeeps, FallbackCallsAssumption, PTL DEF FallbackCallsSpec
<1>2. CallsInv /\ [FallbackCallsNext]_callVars => [HeardOnce]_callVars
  BY CallsStepKeeps, FallbackCallsAssumption
<1> QED BY <1>1, <1>2, PTL DEF FallbackCallsSpec

\* No place of a channel stays free while somebody waits for it, the end of a provider stream tells how
\* its task ended, and a provider that fails, however often and wherever in the text, costs neither a
\* frame nor a sentence nor a provider that was not asked (channel.py, stt.py, tts.py, fallback_adapter.py).
THEOREM StreamsAreSound ==
    ChanSpec /\ StreamsSpec /\ FallbackCallsSpec /\ FallbackStreamsSpec /\ FallbackSpeechSpec => []StreamsSafe
<1>1. ChanSpec => []ChanInv
  BY ChanInitInv, ChanStepKeeps, ChannelAssumption, PTL DEF ChanSpec
<1>2. StreamsSpec => []StreamInv
  BY StreamsInitInv, StreamStepKeeps, StreamsAssumption, PTL DEF StreamsSpec
<1>3. FallbackCallsSpec => []CallsInv
  BY CallsInitInv, CallsStepKeeps, FallbackCallsAssumption, PTL DEF FallbackCallsSpec
<1>4. FallbackStreamsSpec => []SttInv
  BY SttInitInv, SttStepKeeps, FallbackStreamsAssumption, PTL DEF FallbackStreamsSpec
<1>5. FallbackSpeechSpec => []SpeechInv
  BY SpeechInitInv, SpeechStepKeeps, FallbackSpeechAssumption, PTL DEF FallbackSpeechSpec
<1>6. ChanInv /\ StreamInv /\ CallsInv /\ SttInv /\ SpeechInv => StreamsSafe
  BY ChanSafe, StreamIsSafe, CallsSafe, SttIsSafe, SpeechIsSafe, ChannelAssumption, StreamsAssumption,
     FallbackCallsAssumption, FallbackSpeechAssumption DEF StreamsSafe
<1> QED BY <1>1, <1>2, <1>3, <1>4, <1>5, <1>6, PTL

(* Playout *)

USE PlayoutAssumption

\* The segments of the synchronizer and their rotations are well-formed.
SyncOK ==
    /\ impls \in Seq(ImplType) /\ impls # <<>> /\ rotations \in Seq(RotationType)
    /\ \A k \in DOMAIN impls : impls[k].sent <= impls[k].text
    /\ \A n \in DOMAIN rotations : rotations[n].impl \in 0..Len(impls)

CaptureStates == [audio : BOOLEAN, text : BOOLEAN]
PushStates == [room : BOOLEAN, sync : BOOLEAN]

LEMMA SyncElements ==
    ASSUME SyncOK
    PROVE  /\ Len(impls) \in Nat /\ DOMAIN impls = 1..Len(impls) /\ CurrentImpl \in 1..Len(impls)
           /\ \A k \in 1..Len(impls) : impls[k] \in ImplType
           /\ Len(rotations) \in Nat /\ DOMAIN rotations = 1..Len(rotations)
           /\ \A n \in 1..Len(rotations) : rotations[n] \in RotationType
<1>1. /\ Len(impls) \in Nat /\ DOMAIN impls = 1..Len(impls)
      /\ \A k \in 1..Len(impls) : impls[k] \in ImplType
      /\ Len(rotations) \in Nat /\ DOMAIN rotations = 1..Len(rotations)
      /\ \A n \in 1..Len(rotations) : rotations[n] \in RotationType
  BY ElementsType DEF SyncOK
<1>2. Len(impls) # 0
  BY EmptySeq DEF SyncOK
<1> QED BY <1>1, <1>2 DEF CurrentImpl

\* One segment changes.
LEMMA ImplChanges ==
    ASSUME SyncOK, NEW k \in DOMAIN impls, NEW i \in ImplType, i.sent <= i.text, impls' = [impls EXCEPT ![k] = i]
    PROVE  /\ impls' \in Seq(ImplType) /\ impls' # <<>> /\ Len(impls') = Len(impls)
           /\ \A j \in DOMAIN impls' : impls'[j].sent <= impls'[j].text
<1>1. /\ Len(impls) \in Nat /\ DOMAIN impls = 1..Len(impls) /\ impls \in Seq(ImplType)
      /\ CurrentImpl \in 1..Len(impls)
  BY SyncElements DEF SyncOK
<1>2. impls' \in Seq(ImplType) /\ Len(impls') = Len(impls) /\ DOMAIN impls' = 1..Len(impls)
  BY <1>1, ExceptSeq, ElementsType
<1>3. impls' # <<>>
  BY <1>1, <1>2, EmptySeq
<1>4. \A j \in DOMAIN impls' : impls'[j].sent <= impls'[j].text
  BY <1>1, <1>2 DEF SyncOK
<1> QED BY <1>2, <1>3, <1>4

LEMMA ImplAdded ==
    ASSUME SyncOK, impls' = Append(impls, NewImpl)
    PROVE  /\ impls' \in Seq(ImplType) /\ impls' # <<>> /\ Len(impls') = Len(impls) + 1
           /\ \A j \in DOMAIN impls' : impls'[j].sent <= impls'[j].text
<1>1. Len(impls) \in Nat /\ DOMAIN impls = 1..Len(impls) /\ impls \in Seq(ImplType)
  BY SyncElements DEF SyncOK
<1>2. NewImpl \in ImplType /\ NewImpl.sent <= NewImpl.text
  BY DEF NewImpl, ImplType
<1>3. /\ impls' \in Seq(ImplType) /\ Len(impls') = Len(impls) + 1 /\ DOMAIN impls' = 1..(Len(impls) + 1)
      /\ \A j \in 1..Len(impls) : impls'[j] = impls[j]
      /\ impls'[Len(impls) + 1] = NewImpl
  BY <1>1, <1>2, AppendProperties, LenProperties
<1>4. impls' # <<>>
  BY <1>1, <1>3, EmptySeq
<1>5. ASSUME NEW j \in 1..(Len(impls) + 1) PROVE impls'[j].sent <= impls'[j].text
  <2>1. CASE j \in 1..Len(impls)
    BY <1>1, <1>3, <2>1 DEF SyncOK
  <2>2. CASE j = Len(impls) + 1
    BY <1>2, <1>3, <2>2
  <2> QED BY <1>1, <2>1, <2>2
<1> QED BY <1>3, <1>4, <1>5

\* A rotation begins, or not; a segment may come, none goes.
LEMMA RotatedKeeps ==
    ASSUME SyncOK, impls' \in Seq(ImplType), impls' # <<>>, Len(impls') >= Len(impls),
           \A j \in DOMAIN impls' : impls'[j].sent <= impls'[j].text,
           rotations' = rotations \/ rotations' = Rotated
    PROVE  SyncOK'
<1>1. Len(impls) \in Nat /\ Len(impls') \in Nat /\ Len(rotations) \in Nat /\ DOMAIN rotations = 1..Len(rotations)
  BY SyncElements, LenProperties
<1>2. \A n \in DOMAIN rotations : rotations[n].impl \in 0..Len(impls')
  BY <1>1 DEF SyncOK
<1>3. CASE rotations' = rotations
  BY <1>2, <1>3 DEF SyncOK
<1>4. CASE rotations' = Rotated
  <2> DEFINE new == [step |-> "begin", impl |-> 0]
  <2>1. new \in RotationType /\ new.impl = 0
    BY DEF RotationType
  <2> HIDE DEF new
  <2>2. PICK s \in {<<>>, rotations} : rotations' = Append(s, new)
    BY <1>4 DEF Rotated, new
  <2>3. s \in Seq(RotationType) /\ Len(s) \in Nat /\ \A n \in 1..Len(s) : s[n].impl \in 0..Len(impls')
    <3>1. CASE s = <<>>
      BY <3>1, EmptySeq
    <3>2. CASE s = rotations
      BY <1>1, <1>2, <3>2 DEF SyncOK
    <3> QED BY <3>1, <3>2
  <2>4. /\ rotations' \in Seq(RotationType) /\ DOMAIN rotations' = 1..(Len(s) + 1)
        /\ \A n \in 1..Len(s) : rotations'[n] = s[n]
        /\ rotations'[Len(s) + 1] = new
    BY <2>1, <2>2, <2>3, AppendProperties, LenProperties
  <2>5. ASSUME NEW n \in 1..(Len(s) + 1) PROVE rotations'[n].impl \in 0..Len(impls')
    <3>1. CASE n \in 1..Len(s)
      BY <2>3, <2>4, <3>1
    <3>2. CASE n = Len(s) + 1
      BY <1>1, <2>1, <2>4, <3>2
    <3> QED BY <2>3, <3>1, <3>2
  <2> QED BY <2>4, <2>5 DEF SyncOK
<1> QED BY <1>3, <1>4

\* A rotation goes on to its next step.
LEMMA RotationChanges ==
    ASSUME SyncOK, impls' \in Seq(ImplType), impls' # <<>>, Len(impls') >= Len(impls),
           \A j \in DOMAIN impls' : impls'[j].sent <= impls'[j].text,
           NEW n \in DOMAIN rotations, NEW r \in RotationType, r.impl \in 0..Len(impls),
           rotations' = [rotations EXCEPT ![n] = r]
    PROVE  SyncOK'
<1>1. /\ Len(impls) \in Nat /\ Len(impls') \in Nat /\ Len(rotations) \in Nat
      /\ DOMAIN rotations = 1..Len(rotations) /\ rotations \in Seq(RotationType)
  BY SyncElements, LenProperties DEF SyncOK
<1>2. rotations' \in Seq(RotationType) /\ DOMAIN rotations' = 1..Len(rotations)
  BY <1>1, ExceptSeq, ElementsType
<1>3. \A m \in DOMAIN rotations' : rotations'[m].impl \in 0..Len(impls')
  BY <1>1, <1>2 DEF SyncOK
<1> QED BY <1>2, <1>3 DEF SyncOK

\* What the text and the audio do to the current segment: an input ends, or it starts or completes.
LEMMA CurrentMarked ==
    ASSUME SyncOK,
           \/ impls' = impls
           \/ impls' = [impls EXCEPT ![CurrentImpl].textDone = TRUE]
           \/ impls' = [impls EXCEPT ![CurrentImpl].audioDone = TRUE]
           \/ impls' = [impls EXCEPT ![CurrentImpl].started = TRUE]
           \/ impls' = [impls EXCEPT ![CurrentImpl].closed = TRUE]
           \/ impls' = [impls EXCEPT ![CurrentImpl].completed = TRUE]
           \/ impls' = [impls EXCEPT ![CurrentImpl].text = @ + 1]
    PROVE  /\ impls' \in Seq(ImplType) /\ impls' # <<>> /\ Len(impls') = Len(impls)
           /\ \A j \in DOMAIN impls' : impls'[j].sent <= impls'[j].text
<1> DEFINE c == CurrentImpl
           i == impls[c]
<1>1. c \in DOMAIN impls /\ i \in ImplType /\ i.sent <= i.text
  BY SyncElements DEF SyncOK
<1>2. CASE impls' = impls
  BY <1>2 DEF SyncOK
<1>3. \A j \in ImplType : j.sent <= j.text /\ impls' = [impls EXCEPT ![c] = j] =>
          /\ impls' \in Seq(ImplType) /\ impls' # <<>> /\ Len(impls') = Len(impls)
          /\ \A k \in DOMAIN impls' : impls'[k].sent <= impls'[k].text
  BY <1>1, ImplChanges
<1>4. CASE impls' = [impls EXCEPT ![CurrentImpl].textDone = TRUE]
  <2>1. [i EXCEPT !.textDone = TRUE] \in ImplType
    BY <1>1 DEF ImplType
  <2>2. [i EXCEPT !.textDone = TRUE].sent <= [i EXCEPT !.textDone = TRUE].text
    BY <1>1 DEF ImplType
  <2> QED BY <1>3, <1>4, <2>1, <2>2
<1>5. CASE impls' = [impls EXCEPT ![CurrentImpl].audioDone = TRUE]
  <2>1. [i EXCEPT !.audioDone = TRUE] \in ImplType
    BY <1>1 DEF ImplType
  <2>2. [i EXCEPT !.audioDone = TRUE].sent <= [i EXCEPT !.audioDone = TRUE].text
    BY <1>1 DEF ImplType
  <2> QED BY <1>3, <1>5, <2>1, <2>2
<1>6. CASE impls' = [impls EXCEPT ![CurrentImpl].started = TRUE]
  <2>1. [i EXCEPT !.started = TRUE] \in ImplType
    BY <1>1 DEF ImplType
  <2>2. [i EXCEPT !.started = TRUE].sent <= [i EXCEPT !.started = TRUE].text
    BY <1>1 DEF ImplType
  <2> QED BY <1>3, <1>6, <2>1, <2>2
<1>7. CASE impls' = [impls EXCEPT ![CurrentImpl].closed = TRUE]
  <2>1. [i EXCEPT !.closed = TRUE] \in ImplType
    BY <1>1 DEF ImplType
  <2>2. [i EXCEPT !.closed = TRUE].sent <= [i EXCEPT !.closed = TRUE].text
    BY <1>1 DEF ImplType
  <2> QED BY <1>3, <1>7, <2>1, <2>2
<1>8. CASE impls' = [impls EXCEPT ![CurrentImpl].completed = TRUE]
  <2>1. [i EXCEPT !.completed = TRUE] \in ImplType
    BY <1>1 DEF ImplType
  <2>2. [i EXCEPT !.completed = TRUE].sent <= [i EXCEPT !.completed = TRUE].text
    BY <1>1 DEF ImplType
  <2> QED BY <1>3, <1>8, <2>1, <2>2
<1>9. CASE impls' = [impls EXCEPT ![CurrentImpl].text = @ + 1]
  <2>1. [i EXCEPT !.text = @ + 1] \in ImplType
    BY <1>1 DEF ImplType
  <2>2. [i EXCEPT !.text = @ + 1].sent <= [i EXCEPT !.text = @ + 1].text
    BY <1>1 DEF ImplType
  <2> QED BY <1>3, <1>9, <2>1, <2>2
<1> QED BY <1>2, <1>4, <1>5, <1>6, <1>7, <1>8, <1>9

\* The steps of the synchronizer alone.
LEMMA SegmentStepsKeep ==
    ASSUME SyncOK, \E k \in DOMAIN impls : Emit(k) \/ ImplEnds(k)
    PROVE  SyncOK'
<1> PICK k \in DOMAIN impls : Emit(k) \/ ImplEnds(k)
  OBVIOUS
<1>1. impls[k] \in ImplType /\ impls[k].sent <= impls[k].text
  BY SyncElements DEF SyncOK
<1>2. PICK i \in ImplType : i.sent <= i.text /\ impls' = [impls EXCEPT ![k] = i]
  <2>1. CASE Emit(k)
    <3>1. impls' = [impls EXCEPT ![k] = [impls[k] EXCEPT !.sent = @ + 1]] /\ impls[k].sent < impls[k].text
      BY <2>1 DEF Emit
    <3>2. [impls[k] EXCEPT !.sent = @ + 1] \in ImplType
      BY <1>1 DEF ImplType
    <3>3. [impls[k] EXCEPT !.sent = @ + 1].sent <= [impls[k] EXCEPT !.sent = @ + 1].text
      BY <1>1, <3>1 DEF ImplType
    <3> QED BY <3>1, <3>2, <3>3
  <2>2. CASE ImplEnds(k)
    <3>1. impls' = [impls EXCEPT ![k] = Over(impls[k])]
      BY <2>2 DEF ImplEnds
    <3>2. Over(impls[k]) \in ImplType /\ Over(impls[k]).sent <= Over(impls[k]).text
      <4>1. CASE impls[k].sent = impls[k].text
        <5> DEFINE c == impls[k].closed
                   t == impls[k].textDone
        <5>1. c \in BOOLEAN /\ t \in BOOLEAN
          BY <1>1, Zenon DEF ImplType
        <5>2. Over(impls[k]) = [NewImpl EXCEPT !.ended = TRUE, !.closed = c, !.textDone = t]
          BY <4>1 DEF Over
        <5> HIDE DEF c, t
        <5>3. Over(impls[k]) = [started |-> FALSE, audioDone |-> FALSE, textDone |-> t, closed |-> c,
                                completed |-> FALSE, text |-> 0, sent |-> 0, ended |-> TRUE]
          BY <5>2 DEF NewImpl
        <5> QED BY <5>1, <5>3 DEF ImplType
      <4>2. CASE impls[k].sent # impls[k].text
        BY <1>1, <4>2 DEF ImplType, Over
      <4> QED BY <4>1, <4>2
    <3> QED BY <3>1, <3>2
  <2> QED BY <2>1, <2>2
<1>3. rotations' = rotations
  BY DEF Emit, ImplEnds
<1>4. /\ impls' \in Seq(ImplType) /\ impls' # <<>> /\ Len(impls') = Len(impls)
      /\ \A j \in DOMAIN impls' : impls'[j].sent <= impls'[j].text
  BY <1>2, ImplChanges
<1>5. Len(impls') >= Len(impls)
  BY <1>4, SyncElements
<1> QED BY <1>3, <1>4, <1>5, RotatedKeeps

LEMMA RotationStepsKeep ==
    ASSUME SyncOK, \E n \in DOMAIN rotations : RotationBegins(n) \/ RotationEnds(n)
    PROVE  SyncOK'
<1> PICK n \in DOMAIN rotations : RotationBegins(n) \/ RotationEnds(n)
  OBVIOUS
<1>0. Len(impls) \in Nat /\ CurrentImpl \in 1..Len(impls)
  BY SyncElements
<1>1. CASE rotations' = [rotations EXCEPT ![n] = [step |-> "done", impl |-> 0]] /\ impls' = Append(impls, NewImpl)
  <2>1. [step |-> "done", impl |-> 0] \in RotationType /\ [step |-> "done", impl |-> 0].impl \in 0..Len(impls)
    BY <1>0 DEF RotationType
  <2>2. /\ impls' \in Seq(ImplType) /\ impls' # <<>> /\ Len(impls') >= Len(impls)
        /\ \A j \in DOMAIN impls' : impls'[j].sent <= impls'[j].text
    BY <1>0, <1>1, ImplAdded
  <2> QED BY <1>1, <2>1, <2>2, RotationChanges
<1>2. CASE /\ rotations' = [rotations EXCEPT ![n] = [step |-> "waits", impl |-> CurrentImpl]]
           /\ impls' = [impls EXCEPT ![CurrentImpl].closed = TRUE]
  <2>1. /\ [step |-> "waits", impl |-> CurrentImpl] \in RotationType
        /\ [step |-> "waits", impl |-> CurrentImpl].impl \in 0..Len(impls)
    BY <1>0 DEF RotationType
  <2>2. /\ impls' \in Seq(ImplType) /\ impls' # <<>> /\ Len(impls') = Len(impls)
        /\ \A j \in DOMAIN impls' : impls'[j].sent <= impls'[j].text
    BY <1>2, CurrentMarked
  <2>3. Len(impls') >= Len(impls)
    BY <1>0, <2>2
  <2> QED BY <1>2, <2>1, <2>2, <2>3, RotationChanges
<1> QED BY <1>1, <1>2 DEF RotationBegins, RotationEnds

LEMMA PlayoutInitInv == PlayoutInit => PlayoutInv
<1> SUFFICES ASSUME PlayoutInit PROVE PlayoutInv OBVIOUS
<1>1. impls \in Seq(ImplType) /\ Len(impls) = 1 /\ impls # <<>> /\ DOMAIN impls = {1} /\ impls[1] = NewImpl
  <2>1. NewImpl \in ImplType
    BY DEF NewImpl, ImplType
  <2>2. impls = Append(<<>>, NewImpl) /\ impls = <<NewImpl>>
    BY DEF PlayoutInit
  <2> HIDE DEF NewImpl
  <2> QED BY <2>1, <2>2
<1>2. rotations \in Seq(RotationType) /\ DOMAIN rotations = {}
  BY EmptySeq DEF PlayoutInit
<1>3. \A k \in DOMAIN impls : impls[k].sent <= impls[k].text
  BY <1>1 DEF NewImpl
<1>4. /\ playing \in BOOLEAN /\ interruptedEvent \in BOOLEAN /\ enabled \in BOOLEAN
      /\ ~playing /\ ~interruptedEvent
  BY Zenon DEF PlayoutInit
<1>5. /\ current \in [reply : 0..MaxReplies, step : {"idle", "forward", "playout", "cancel", "cleared"}]
      /\ current.step = "idle" /\ segments <= current.reply
  BY DEF PlayoutInit
<1>6. PlayoutTypeOK
  BY <1>1, <1>2, <1>3, <1>4, <1>5 DEF PlayoutInit, PlayoutTypeOK
<1>7. SegmentsCounted
  BY <1>4, <1>5 DEF PlayoutInit, SegmentsCounted, TasksOff
<1>8. NoPlayoutOwed /\ InterruptionIsOwn
  BY <1>4 DEF PlayoutInit, NoPlayoutOwed, InterruptionIsOwn
<1> QED BY <1>6, <1>7, <1>8 DEF PlayoutInv

\* The steps of the reply itself.
LEMMA ReplyStepsKeep ==
    ASSUME PlayoutInv, ReplyBegins \/ Forwarded \/ Interrupt \/ ClearBuffer \/ WaitForPlayout
    PROVE  PlayoutInv'
<1> USE DEF PlayoutInv
<1>1. CASE ReplyBegins
  <2>1. /\ current.step = "idle" /\ current' = [reply |-> current.reply + 1, step |-> "forward"]
        /\ current.reply < MaxReplies /\ current.reply \in Nat
        /\ textTask' = [step |-> "run", text |-> 0] /\ audioTask' = [step |-> "run", frames |-> 0]
        /\ UNCHANGED <<segments, finished, capturing, pushed, playing, interruptedEvent, enabled, toggles, impls, rotations>>
    BY <1>1 DEF ReplyBegins, roomOutVars, syncVars, PlayoutTypeOK
  <2>2. PlayoutTypeOK'
    BY <2>1 DEF PlayoutTypeOK
  <2>3. SegmentsCounted'
    <3>1. audioTask.step = "off" /\ ~capturing.audio /\ ~playing
      BY <2>1 DEF SegmentsCounted, NoPlayoutOwed, TasksOff, PlayoutTypeOK
    <3> QED BY <2>1, <3>1 DEF SegmentsCounted, TasksOff, PlayoutTypeOK
  <2> QED BY <2>1, <2>2, <2>3 DEF NoPlayoutOwed, InterruptionIsOwn
<1>2. ASSUME NEW s \in {"idle", "playout", "cancel", "cleared"}, current' = [current EXCEPT !.step = s],
             TasksOff \/ s = "cancel",
             UNCHANGED <<textTask, audioTask, segments, finished, capturing, pushed, playing, enabled, toggles, impls, rotations>>,
             interruptedEvent' \in BOOLEAN
      PROVE  PlayoutTypeOK' /\ SegmentsCounted' /\ current'.step = s
  <2>1. /\ current' \in [reply : 0..MaxReplies, step : {"idle", "forward", "playout", "cancel", "cleared"}]
        /\ current'.step = s /\ current'.reply = current.reply
    BY <1>2 DEF PlayoutTypeOK
  <2>2. PlayoutTypeOK'
    BY <1>2, <2>1 DEF PlayoutTypeOK
  <2>3. SegmentsCounted'
    BY <1>2, <2>1 DEF SegmentsCounted, TasksOff
  <2> QED BY <2>1, <2>2, <2>3
<1>3. CASE Forwarded
  <2>1. PlayoutTypeOK' /\ SegmentsCounted' /\ current'.step = "playout" /\ UNCHANGED <<interruptedEvent>>
    BY <1>2, <1>3 DEF Forwarded, roomOutVars, syncVars, PlayoutTypeOK
  <2>2. ~interruptedEvent
    BY <1>3 DEF Forwarded, InterruptionIsOwn
  <2> QED BY <2>1, <2>2 DEF NoPlayoutOwed, InterruptionIsOwn
<1>4. CASE Interrupt
  <2>1. PlayoutTypeOK' /\ SegmentsCounted' /\ current'.step = "cancel" /\ UNCHANGED <<interruptedEvent>>
    BY <1>2, <1>4 DEF Interrupt, roomOutVars, syncVars, PlayoutTypeOK
  <2>2. ~interruptedEvent
    BY <1>4 DEF Interrupt, InterruptionIsOwn
  <2> QED BY <2>1, <2>2 DEF NoPlayoutOwed, InterruptionIsOwn
<1>5. CASE ClearBuffer
  <2>0. interruptedEvent' \in BOOLEAN
    BY <1>5, Zenon DEF ClearBuffer
  <2>1. PlayoutTypeOK' /\ SegmentsCounted' /\ current'.step = "cleared" /\ UNCHANGED <<playing, pushed, capturing>>
    BY <1>2, <1>5, <2>0 DEF ClearBuffer, syncVars, PlayoutTypeOK
  <2>2. interruptedEvent' => playing
    <3>1. ~capturing.audio /\ ~interruptedEvent
      BY <1>5 DEF ClearBuffer, TasksOff, SegmentsCounted, InterruptionIsOwn
    <3>2. interruptedEvent' => pushed.room
      BY <1>5, <3>1 DEF ClearBuffer
    <3> QED BY <3>1, <3>2 DEF SegmentsCounted
  <2> QED BY <2>1, <2>2 DEF NoPlayoutOwed, InterruptionIsOwn
<1>6. CASE WaitForPlayout
  <2>0. current.step \notin {"forward", "cancel"} /\ UNCHANGED <<interruptedEvent, playing, segments, finished>>
    BY <1>6 DEF WaitForPlayout, roomOutVars
  <2>1. TasksOff
    BY <2>0 DEF SegmentsCounted
  <2>2. PlayoutTypeOK' /\ SegmentsCounted' /\ current'.step = "idle"
    BY <1>2, <1>6, <2>1 DEF WaitForPlayout, roomOutVars, syncVars, PlayoutTypeOK
  <2>3. ~pushed.room /\ ~playing /\ finished = segments
    <3>1. segments \in Nat /\ finished \in Nat /\ finished >= segments
      BY <1>6 DEF WaitForPlayout, PlayoutTypeOK
    <3> QED BY <3>1 DEF SegmentsCounted
  <2> QED BY <2>0, <2>2, <2>3 DEF NoPlayoutOwed, InterruptionIsOwn
<1> QED BY <1>1, <1>3, <1>4, <1>5, <1>6

\* What the text changes does not count.
LEMMA TextStepsKeep ==
    ASSUME PlayoutInv, SyncOK', UNCHANGED <<current, audioTask, segments, finished, pushed, playing, interruptedEvent,
                                            enabled, toggles>>,
           textTask' \in [step : {"off", "run"}, text : 0..MaxDeltas],
           textTask'.step # "off" => textTask.step # "off",
           capturing' \in CaptureStates, capturing'.audio <=> capturing.audio
    PROVE  PlayoutInv'
<1> USE DEF PlayoutInv
<1>1. PlayoutTypeOK'
  BY DEF PlayoutTypeOK, SyncOK, CaptureStates
<1>2. SegmentsCounted'
  BY DEF SegmentsCounted, TasksOff
<1>3. NoPlayoutOwed' /\ InterruptionIsOwn'
  BY DEF NoPlayoutOwed, InterruptionIsOwn
<1> QED BY <1>1, <1>2, <1>3

LEMMA CaptureTextKeeps == PlayoutInv /\ CaptureText => PlayoutInv'
<1> SUFFICES ASSUME PlayoutInv, CaptureText PROVE PlayoutInv' OBVIOUS
<1>0. SyncOK /\ PlayoutTypeOK
  BY DEF PlayoutInv, PlayoutTypeOK, SyncOK
<1>1. /\ textTask.step = "run" /\ textTask.text < MaxDeltas
      /\ UNCHANGED <<current, audioTask, segments, finished, pushed, playing, interruptedEvent, enabled, toggles, rotations>>
  BY DEF CaptureText
<1>2. textTask' \in [step : {"off", "run"}, text : 0..MaxDeltas]
  BY <1>0, <1>1 DEF CaptureText, PlayoutTypeOK
<1>3. capturing' \in CaptureStates /\ (capturing'.audio <=> capturing.audio)
  <2> PICK t \in BOOLEAN : capturing' = [capturing EXCEPT !.text = t]
    <3>1. FALSE \in BOOLEAN /\ (capturing.text \/ enabled) \in BOOLEAN
      BY Zenon
    <3>2. \/ capturing' = [capturing EXCEPT !.text = FALSE]
          \/ capturing' = [capturing EXCEPT !.text = (capturing.text \/ enabled)]
      BY DEF CaptureText
    <3> QED BY <3>1, <3>2
  <2> QED BY <1>0 DEF PlayoutTypeOK, CaptureStates
<1>4. /\ impls' \in Seq(ImplType) /\ impls' # <<>> /\ Len(impls') = Len(impls)
      /\ \A j \in DOMAIN impls' : impls'[j].sent <= impls'[j].text
  <2>1. impls' = impls \/ impls' = [impls EXCEPT ![CurrentImpl].text = @ + 1]
    BY DEF CaptureText
  <2> QED BY <1>0, <2>1, CurrentMarked
<1>5. SyncOK'
  <2>1. Len(impls') >= Len(impls)
    BY <1>0, <1>4, SyncElements
  <2> QED BY <1>0, <1>1, <1>4, <2>1, RotatedKeeps
<1> QED BY <1>1, <1>2, <1>3, <1>5, TextStepsKeep

LEMMA TextEndsKeeps == PlayoutInv /\ TextEnds => PlayoutInv'
<1> SUFFICES ASSUME PlayoutInv, TextEnds PROVE PlayoutInv' OBVIOUS
<1>0. SyncOK /\ PlayoutTypeOK
  BY DEF PlayoutInv, PlayoutTypeOK, SyncOK
<1>1. UNCHANGED <<current, audioTask, segments, finished, pushed, playing, interruptedEvent, enabled, toggles, rotations>>
  BY DEF TextEnds
<1>2. textTask' \in [step : {"off", "run"}, text : 0..MaxDeltas] /\ textTask'.step = "off"
  BY <1>0 DEF TextEnds, PlayoutTypeOK
<1>3. capturing' \in CaptureStates /\ (capturing'.audio <=> capturing.audio)
  <2> PICK t \in BOOLEAN : capturing' = [capturing EXCEPT !.text = t]
    <3>1. (capturing.text /\ ~enabled) \in BOOLEAN
      BY Zenon
    <3>2. capturing' = [capturing EXCEPT !.text = (capturing.text /\ ~enabled)]
      BY DEF TextEnds, FlushText
    <3> QED BY <3>1, <3>2
  <2> QED BY <1>0 DEF PlayoutTypeOK, CaptureStates
<1>4. /\ impls' \in Seq(ImplType) /\ impls' # <<>> /\ Len(impls') = Len(impls)
      /\ \A j \in DOMAIN impls' : impls'[j].sent <= impls'[j].text
  <2>1. impls' = impls \/ impls' = [impls EXCEPT ![CurrentImpl].textDone = TRUE]
    BY DEF TextEnds, FlushText
  <2> QED BY <1>0, <2>1, CurrentMarked
<1>5. SyncOK'
  <2>1. Len(impls') >= Len(impls)
    BY <1>0, <1>4, SyncElements
  <2> QED BY <1>0, <1>1, <1>4, <2>1, RotatedKeeps
<1> QED BY <1>1, <1>2, <1>3, <1>5, TextStepsKeep

LEMMA CaptureFrameKeeps == PlayoutInv /\ CaptureFrame => PlayoutInv'
<1> SUFFICES ASSUME PlayoutInv, CaptureFrame PROVE PlayoutInv' OBVIOUS
<1> USE DEF PlayoutInv
<1>1. /\ audioTask.step = "run" /\ audioTask.frames < MaxDeltas /\ ~playing /\ current.step = "forward"
      /\ audioTask' = [audioTask EXCEPT !.step = "source"]
      /\ UNCHANGED <<current, textTask, finished, playing, interruptedEvent, enabled, toggles, impls, rotations>>
  BY DEF CaptureFrame, syncVars, SegmentsCounted, TasksOff
<1>2. /\ audioTask' \in [step : {"off", "run", "source"}, frames : 0..MaxDeltas]
      /\ audioTask'.step = "source" /\ audioTask'.frames < MaxDeltas
  BY <1>1 DEF PlayoutTypeOK
<1>3. capturing' \in CaptureStates /\ capturing'.audio
  BY DEF CaptureFrame, PlayoutTypeOK, CaptureStates
<1>4. pushed' \in PushStates /\ pushed'.room
  BY DEF CaptureFrame, PlayoutTypeOK, PushStates
<1>5. segments' = finished + 1 /\ segments' <= current.reply /\ segments' \in 0..MaxReplies /\ finished \in 0..segments'
  <2>1. segments \in Nat /\ finished \in Nat /\ current.reply \in 0..MaxReplies
    BY DEF PlayoutTypeOK
  <2>2. CASE capturing.audio
    <3>1. segments' = segments /\ pushed.room
      BY <2>2 DEF CaptureFrame, SegmentsCounted
    <3> QED BY <2>1, <3>1 DEF SegmentsCounted
  <2>3. CASE ~capturing.audio
    <3>1. segments' = segments + 1 /\ ~pushed.room /\ segments < current.reply
      BY <1>1, <2>3 DEF CaptureFrame, SegmentsCounted
    <3> QED BY <2>1, <3>1 DEF SegmentsCounted
  <2> QED BY <2>2, <2>3
<1>6. PlayoutTypeOK'
  BY <1>1, <1>2, <1>3, <1>4, <1>5 DEF PlayoutTypeOK, CaptureStates, PushStates
<1>7. SegmentsCounted'
  BY <1>1, <1>2, <1>3, <1>4, <1>5 DEF SegmentsCounted, TasksOff
<1>8. NoPlayoutOwed' /\ InterruptionIsOwn'
  BY <1>1 DEF NoPlayoutOwed, InterruptionIsOwn
<1> QED BY <1>6, <1>7, <1>8

LEMMA FrameCapturedKeeps == PlayoutInv /\ FrameCaptured => PlayoutInv'
<1> SUFFICES ASSUME PlayoutInv, FrameCaptured PROVE PlayoutInv' OBVIOUS
<1> USE DEF PlayoutInv
<1>0. SyncOK
  BY DEF PlayoutTypeOK, SyncOK
<1>1. /\ audioTask.step = "source" /\ audioTask.frames < MaxDeltas /\ capturing.audio /\ audioTask.frames \in Nat
      /\ audioTask' = [step |-> "run", frames |-> audioTask.frames + 1]
      /\ UNCHANGED <<current, textTask, segments, finished, capturing, playing, interruptedEvent, enabled, toggles, rotations>>
  BY DEF FrameCaptured, SegmentsCounted, PlayoutTypeOK
<1>2. audioTask' \in [step : {"off", "run", "source"}, frames : 0..MaxDeltas] /\ audioTask'.step = "run"
  BY <1>1
<1>3. pushed' \in PushStates /\ (pushed'.room <=> pushed.room) /\ pushed'.room = pushed.room
  BY DEF FrameCaptured, PlayoutTypeOK, PushStates
<1>4. /\ impls' \in Seq(ImplType) /\ impls' # <<>> /\ Len(impls') = Len(impls)
      /\ \A j \in DOMAIN impls' : impls'[j].sent <= impls'[j].text
  <2>1. impls' = impls \/ impls' = [impls EXCEPT ![CurrentImpl].started = TRUE]
    BY DEF FrameCaptured
  <2> QED BY <1>0, <2>1, CurrentMarked
<1>5. SyncOK'
  <2>1. Len(impls') >= Len(impls)
    BY <1>0, <1>4, SyncElements
  <2> QED BY <1>0, <1>1, <1>4, <2>1, RotatedKeeps
<1>6. PlayoutTypeOK'
  BY <1>1, <1>2, <1>3, <1>5 DEF PlayoutTypeOK, SyncOK, PushStates
<1>7. SegmentsCounted'
  BY <1>1, <1>2, <1>3 DEF SegmentsCounted, TasksOff
<1>8. NoPlayoutOwed' /\ InterruptionIsOwn'
  BY <1>1 DEF NoPlayoutOwed, InterruptionIsOwn
<1> QED BY <1>6, <1>7, <1>8

LEMMA AudioEndsKeeps == PlayoutInv /\ AudioEnds => PlayoutInv'
<1> SUFFICES ASSUME PlayoutInv, AudioEnds PROVE PlayoutInv' OBVIOUS
<1> USE DEF PlayoutInv
<1>0. SyncOK
  BY DEF PlayoutTypeOK, SyncOK
<1>1. /\ audioTask.step # "off" /\ ~playing /\ current.step \in {"forward", "cancel"}
      /\ audioTask' = [audioTask EXCEPT !.step = "off"]
      /\ UNCHANGED <<current, textTask, segments, finished, pushed, interruptedEvent, enabled, toggles>>
  BY DEF AudioEnds, SegmentsCounted, TasksOff
<1>2. audioTask' \in [step : {"off", "run", "source"}, frames : 0..MaxDeltas] /\ audioTask'.step = "off"
  BY <1>1 DEF PlayoutTypeOK
<1>3. capturing' \in CaptureStates /\ ~capturing'.audio
  BY DEF AudioEnds, FlushAudio, PlayoutTypeOK, CaptureStates
<1>4. playing' \in BOOLEAN /\ (playing' <=> pushed.room)
  BY <1>1, Zenon DEF AudioEnds, FlushAudio
<1>5. /\ impls' \in Seq(ImplType) /\ impls' # <<>> /\ Len(impls') = Len(impls)
      /\ \A j \in DOMAIN impls' : impls'[j].sent <= impls'[j].text
  <2>1. impls' = impls \/ impls' = [impls EXCEPT ![CurrentImpl].audioDone = TRUE]
    BY DEF AudioEnds, FlushAudio
  <2> QED BY <1>0, <2>1, CurrentMarked
<1>6. SyncOK'
  <2>1. Len(impls') >= Len(impls) /\ (rotations' = rotations \/ rotations' = Rotated)
    BY <1>0, <1>5, SyncElements DEF AudioEnds, FlushAudio
  <2> QED BY <1>0, <1>5, <2>1, RotatedKeeps
<1>7. PlayoutTypeOK'
  BY <1>1, <1>2, <1>3, <1>4, <1>6 DEF PlayoutTypeOK, SyncOK, CaptureStates
<1>8. SegmentsCounted'
  BY <1>1, <1>2, <1>3, <1>4 DEF SegmentsCounted, TasksOff
<1>9. NoPlayoutOwed' /\ InterruptionIsOwn'
  BY <1>1 DEF NoPlayoutOwed, InterruptionIsOwn
<1> QED BY <1>7, <1>8, <1>9

LEMMA PlayedOutKeeps == PlayoutInv /\ PlayedOut => PlayoutInv'
<1> SUFFICES ASSUME PlayoutInv, PlayedOut PROVE PlayoutInv' OBVIOUS
<1> USE DEF PlayoutInv
<1>0. SyncOK
  BY DEF PlayoutTypeOK, SyncOK
<1>1. /\ playing /\ pushed.room /\ ~capturing.audio /\ audioTask.step = "off"
      /\ playing' = FALSE /\ interruptedEvent' = FALSE
      /\ UNCHANGED <<current, textTask, audioTask, segments, capturing, enabled, toggles>>
  BY DEF PlayedOut, replyVars, SegmentsCounted
<1>2. segments = finished + 1 /\ finished' = segments /\ segments \in Nat
  <2>1. segments = finished + 1 /\ segments \in Nat /\ finished \in Nat
    BY <1>1 DEF SegmentsCounted, PlayoutTypeOK
  <2> QED BY <2>1 DEF PlayedOut, Report
<1>3. pushed' \in PushStates /\ ~pushed'.room
  <2>1. pushed' = [room |-> FALSE, sync |-> FALSE] \/ pushed' = [pushed EXCEPT !.room = FALSE]
    BY DEF PlayedOut, SegmentPlayed
  <2>2. CASE pushed' = [room |-> FALSE, sync |-> FALSE]
    BY <2>2 DEF PushStates
  <2>3. CASE pushed' = [pushed EXCEPT !.room = FALSE]
    BY <2>3 DEF PlayoutTypeOK, PushStates
  <2> QED BY <2>1, <2>2, <2>3
<1>4. /\ impls' \in Seq(ImplType) /\ impls' # <<>> /\ Len(impls') = Len(impls)
      /\ \A j \in DOMAIN impls' : impls'[j].sent <= impls'[j].text
  <2>1. impls' = impls \/ impls' = [impls EXCEPT ![CurrentImpl].completed = TRUE]
    <3>1. impls' = impls \/ impls' = [impls EXCEPT ![CurrentImpl] = PlaybackFinished(@)]
      BY DEF PlayedOut, SegmentPlayed
    <3>2. [impls EXCEPT ![CurrentImpl] = impls[CurrentImpl]] = impls
      BY <1>0 DEF SyncOK
    <3> QED BY <3>1, <3>2 DEF PlaybackFinished
  <2> QED BY <1>0, <2>1, CurrentMarked
<1>5. SyncOK'
  <2>1. Len(impls') >= Len(impls) /\ (rotations' = rotations \/ rotations' = Rotated)
    BY <1>0, <1>4, SyncElements DEF PlayedOut, SegmentPlayed
  <2> QED BY <1>0, <1>4, <2>1, RotatedKeeps
<1>6. PlayoutTypeOK'
  <2>1. playing' \in BOOLEAN /\ interruptedEvent' \in BOOLEAN
    BY <1>1, Zenon
  <2>2. finished' \in 0..segments' /\ segments' \in 0..MaxReplies
    BY <1>1, <1>2 DEF PlayoutTypeOK
  <2> QED BY <1>1, <1>3, <1>5, <2>1, <2>2 DEF PlayoutTypeOK, SyncOK, PushStates
<1>7. SegmentsCounted'
  BY <1>1, <1>2, <1>3 DEF SegmentsCounted, TasksOff
<1>8. NoPlayoutOwed' /\ InterruptionIsOwn'
  BY <1>1, <1>2 DEF NoPlayoutOwed, InterruptionIsOwn
<1> QED BY <1>6, <1>7, <1>8

\* The synchronizer alone, and its switch.
LEMMA SyncStepsKeep ==
    ASSUME PlayoutInv, SyncOK', UNCHANGED <<current, textTask, audioTask, segments, finished, capturing, pushed, playing,
                                            interruptedEvent>>,
           enabled' \in BOOLEAN, toggles' \in 0..MaxToggles
    PROVE  PlayoutInv'
<1> USE DEF PlayoutInv
<1>1. PlayoutTypeOK'
  BY DEF PlayoutTypeOK, SyncOK
<1>2. SegmentsCounted' /\ NoPlayoutOwed' /\ InterruptionIsOwn'
  BY DEF SegmentsCounted, TasksOff, NoPlayoutOwed, InterruptionIsOwn
<1> QED BY <1>1, <1>2

LEMMA PlayoutNextInv == PlayoutInv /\ [PlayoutNext]_playoutVars => PlayoutInv'
<1> SUFFICES ASSUME PlayoutInv, [PlayoutNext]_playoutVars PROVE PlayoutInv' OBVIOUS
<1>0. SyncOK /\ enabled \in BOOLEAN /\ toggles \in 0..MaxToggles
  BY DEF PlayoutInv, PlayoutTypeOK, SyncOK
<1>1. CASE UNCHANGED playoutVars
  <2>1. SyncOK' /\ UNCHANGED <<current, textTask, audioTask, segments, finished, capturing, pushed, playing, interruptedEvent>>
        /\ enabled' = enabled /\ toggles' = toggles
    BY <1>0, <1>1 DEF playoutVars, replyVars, roomOutVars, syncVars, SyncOK
  <2> QED BY <1>0, <2>1, SyncStepsKeep
<1>2. CASE Toggle
  <2>1. /\ enabled' \in BOOLEAN
        /\ UNCHANGED <<current, textTask, audioTask, segments, finished, capturing, pushed, playing, interruptedEvent>>
    BY <1>2, Zenon DEF Toggle, replyVars, roomOutVars
  <2>2. toggles' \in 0..MaxToggles
    BY <1>0, <1>2 DEF Toggle
  <2>3. /\ impls' \in Seq(ImplType) /\ impls' # <<>> /\ Len(impls') >= Len(impls)
        /\ \A j \in DOMAIN impls' : impls'[j].sent <= impls'[j].text
    BY <1>0, <1>2, SyncElements DEF Toggle, SyncOK
  <2>4. SyncOK'
    BY <1>0, <1>2, <2>3, RotatedKeeps DEF Toggle
  <2> QED BY <2>1, <2>2, <2>4, SyncStepsKeep
<1>3. CASE \E k \in DOMAIN impls : Emit(k) \/ ImplEnds(k)
  <2>1. /\ UNCHANGED <<current, textTask, audioTask, segments, finished, capturing, pushed, playing, interruptedEvent>>
        /\ enabled' = enabled /\ toggles' = toggles
    BY <1>3 DEF Emit, ImplEnds, replyVars, roomOutVars
  <2> QED BY <1>0, <1>3, <2>1, SegmentStepsKeep, SyncStepsKeep
<1>4. CASE \E n \in DOMAIN rotations : RotationBegins(n) \/ RotationEnds(n)
  <2>1. /\ UNCHANGED <<current, textTask, audioTask, segments, finished, capturing, pushed, playing, interruptedEvent>>
        /\ enabled' = enabled /\ toggles' = toggles
    BY <1>4 DEF RotationBegins, RotationEnds, replyVars, roomOutVars
  <2> QED BY <1>0, <1>4, <2>1, RotationStepsKeep, SyncStepsKeep
<1> QED
  BY <1>1, <1>2, <1>3, <1>4, ReplyStepsKeep, CaptureTextKeeps, TextEndsKeeps, CaptureFrameKeeps, FrameCapturedKeeps,
     AudioEndsKeeps, PlayedOutKeeps DEF PlayoutNext

----------------------------------------------------------------------------
(* Avatar *)

USE AvatarAssumption

AvatarReplies == [reply : 0..MaxAvatarReplies, frames : 0..MaxAvatarFrames,
                  step : {"idle", "opening", "streaming", "playout", "cleared"}]
Clears == [sent : 0..MaxAvatarReplies, tasks : 0..MaxAvatarReplies]

LEMMA EmptyQueue == OnlyFrames(<<>>) /\ ~EndIsLast(<<>>) /\ ~HasFrame(<<>>)
BY EmptySeq DEF OnlyFrames, EndIsLast, HasFrame

\* What Append() does to a queue of frames.
LEMMA QueueAppend ==
    ASSUME NEW S, NEW q \in Seq(S), NEW e \in S
    PROVE  /\ Append(q, e) \in Seq(S) /\ Append(q, e) # <<>>
           /\ OnlyFrames(q) /\ e # "end" => OnlyFrames(Append(q, e))
           /\ OnlyFrames(q) /\ e = "end" => EndIsLast(Append(q, e))
           /\ HasFrame(q) \/ e = "frame" => HasFrame(Append(q, e))
<1> DEFINE a == Append(q, e)
<1>1. /\ Len(q) \in Nat /\ DOMAIN q = 1..Len(q) /\ a \in Seq(S) /\ Len(a) = Len(q) + 1 /\ DOMAIN a = 1..(Len(q) + 1)
      /\ \A i \in 1..Len(q) : a[i] = q[i]
      /\ a[Len(q) + 1] = e
  BY AppendProperties, LenProperties
<1> HIDE DEF a
<1>2. a # <<>>
  BY <1>1, EmptySeq
<1>3. ASSUME OnlyFrames(q), e # "end" PROVE OnlyFrames(a)
  <2> SUFFICES ASSUME NEW i \in 1..(Len(q) + 1) PROVE a[i] # "end"
    BY <1>1 DEF OnlyFrames
  <2>1. CASE i \in 1..Len(q)
    BY <1>1, <1>3, <2>1 DEF OnlyFrames
  <2>2. CASE i = Len(q) + 1
    BY <1>1, <1>3, <2>2
  <2> QED BY <1>1, <2>1, <2>2
<1>4. ASSUME OnlyFrames(q), e = "end" PROVE EndIsLast(a)
  <2> SUFFICES ASSUME NEW i \in 1..(Len(q) + 1) PROVE a[i] = "end" <=> i = Len(q) + 1
    BY <1>1, <1>2 DEF EndIsLast
  <2>1. CASE i \in 1..Len(q)
    BY <1>1, <1>4, <2>1 DEF OnlyFrames
  <2>2. CASE i = Len(q) + 1
    BY <1>1, <1>4, <2>2
  <2> QED BY <1>1, <2>1, <2>2
<1>5. ASSUME HasFrame(q) PROVE HasFrame(a)
  <2> PICK i \in 1..Len(q) : q[i] = "frame"
    BY <1>1, <1>5 DEF HasFrame
  <2>1. i \in DOMAIN a /\ a[i] = "frame"
    BY <1>1
  <2> QED BY <2>1 DEF HasFrame
<1>6. ASSUME e = "frame" PROVE HasFrame(a)
  <2>1. Len(q) + 1 \in DOMAIN a /\ a[Len(q) + 1] = "frame"
    BY <1>1, <1>6
  <2> QED BY <2>1 DEF HasFrame
<1> QED BY <1>1, <1>2, <1>3, <1>4, <1>5, <1>6 DEF a

\* What Tail() does to it.
LEMMA QueueTail ==
    ASSUME NEW S, NEW q \in Seq(S), q # <<>>
    PROVE  /\ Head(q) \in S /\ Tail(q) \in Seq(S)
           /\ OnlyFrames(q) => Head(q) # "end" /\ OnlyFrames(Tail(q))
           /\ EndIsLast(q) /\ Head(q) = "end" => Tail(q) = <<>>
           /\ EndIsLast(q) /\ Head(q) # "end" => EndIsLast(Tail(q))
           /\ HasFrame(q) => Head(q) = "frame" \/ HasFrame(Tail(q))
<1> DEFINE t == Tail(q)
           h == Head(q)
<1>1. /\ Len(q) \in Nat /\ Len(q) > 0 /\ DOMAIN q = 1..Len(q)
      /\ h = q[1] /\ h \in S /\ t \in Seq(S) /\ Len(t) = Len(q) - 1 /\ DOMAIN t = 1..(Len(q) - 1)
      /\ \A i \in 1..(Len(q) - 1) : t[i] = q[i + 1]
  BY LenProperties, HeadTailProperties, EmptySeq
<1> HIDE DEF t, h
<1>2. ASSUME OnlyFrames(q) PROVE h # "end" /\ OnlyFrames(t)
  <2>1. \A i \in 1..Len(q) : q[i] # "end"
    BY <1>1, <1>2 DEF OnlyFrames
  <2>2. ASSUME NEW i \in 1..(Len(q) - 1) PROVE t[i] # "end"
    <3>1. i + 1 \in 1..Len(q)
      BY <1>1
    <3> QED BY <1>1, <2>1, <3>1
  <2> QED BY <1>1, <2>1, <2>2 DEF OnlyFrames
<1>3. ASSUME EndIsLast(q) PROVE (h = "end" => t = <<>>) /\ (h # "end" => EndIsLast(t))
  <2>1. \A i \in 1..Len(q) : q[i] = "end" <=> i = Len(q)
    BY <1>1, <1>3 DEF EndIsLast
  <2>2. h = "end" <=> Len(q) = 1
    <3>1. 1 \in 1..Len(q)
      BY <1>1
    <3> QED BY <1>1, <2>1, <3>1
  <2>3. ASSUME NEW i \in 1..(Len(q) - 1) PROVE t[i] = "end" <=> i = Len(q) - 1
    <3>1. i + 1 \in 1..Len(q) /\ (i + 1 = Len(q) <=> i = Len(q) - 1)
      BY <1>1
    <3> QED BY <1>1, <2>1, <3>1
  <2>4. h = "end" => t = <<>>
    BY <1>1, <2>2, EmptySeq
  <2>5. h # "end" => t # <<>>
    BY <1>1, <2>2, EmptySeq
  <2> QED BY <1>1, <2>3, <2>4, <2>5 DEF EndIsLast
<1>4. ASSUME HasFrame(q), h # "frame" PROVE HasFrame(t)
  <2> PICK i \in 1..Len(q) : q[i] = "frame"
    BY <1>1, <1>4 DEF HasFrame
  <2>1. i # 1
    BY <1>1, <1>4
  <2>2. i - 1 \in 1..(Len(q) - 1) /\ t[i - 1] = q[i]
    <3>1. i - 1 \in 1..(Len(q) - 1) /\ i - 1 + 1 = i
      BY <1>1, <2>1
    <3> QED BY <1>1, <3>1
  <2> QED BY <1>1, <2>2 DEF HasFrame
<1> QED BY <1>1, <1>2, <1>3, <1>4 DEF t, h

LEMMA AvatarInitInv == AvatarInit => AvatarInv
<1> SUFFICES ASSUME AvatarInit PROVE AvatarInv OBVIOUS
<1> USE DEF AvatarInit
<1>1. <<>> \in Seq(Items) /\ <<>> \in Seq(Items \ {"open"})
  BY EmptySeq
<1>2. /\ viaStream \in BOOLEAN /\ undisturbed \in BOOLEAN /\ audioPlaying \in BOOLEAN /\ notifying \in BOOLEAN
      /\ ~audioPlaying /\ ~notifying
  BY Zenon
<1>3. AvatarTypeOK
  BY <1>1, <1>2 DEF AvatarTypeOK
<1>4. RequestsCounted
  BY DEF RequestsCounted
<1>5. NothingPlays
  BY DEF NothingPlays
<1>6. InItsPlace /\ AvatarPlaysWhole
  BY <1>5 DEF InItsPlace, AvatarPlaysWhole, NothingPlays
<1> QED BY <1>3, <1>4, <1>6 DEF AvatarInv

\* What is said of the parts is said of the whole.
LEMMA PlacedIsWhole ==
    ASSUME AvatarTypeOK', RequestsCounted', InItsPlace'
    PROVE  AvatarInv'
BY DEF AvatarInv, InItsPlace, NothingPlays, AvatarPlaysWhole

\* The reply goes on to its next step: the agent counts no request to clear.
LEMMA ReplyGoesOn ==
    ASSUME AvatarInv, NEW r \in AvatarReplies, avatarReply' = r, r.reply = avatarReply.reply,
           avatarReply.step # "cleared" \/ r.step = "idle", r.step # "cleared" \/ avatarReply.step = "cleared",
           avatarReply.step # "idle",
           toRunner' \in Seq(Items),
           UNCHANGED <<viaStream, undisturbed, avatarSegments, avatarFinished, clears, notices, reader, generator,
                       audioPlaying, notifying>>
    PROVE  AvatarTypeOK' /\ RequestsCounted'
<1>1. AvatarTypeOK'
  BY DEF AvatarInv, AvatarTypeOK, AvatarReplies
<1>2. RequestsCounted'
  BY DEF AvatarInv, RequestsCounted
<1> QED BY <1>1, <1>2

LEMMA FirstFrameKeeps == AvatarInv /\ FirstFrame => AvatarInv'
<1> SUFFICES ASSUME AvatarInv, FirstFrame PROVE AvatarInv' OBVIOUS
<1> USE DEF AvatarInv
<1>1. /\ avatarReply.step = "idle" /\ avatarReply.reply < MaxAvatarReplies /\ avatarReply.reply \in Nat
      /\ avatarReply' = [reply |-> avatarReply.reply + 1, frames |-> 0,
                         step |-> IF viaStream THEN "opening" ELSE "streaming"]
      /\ avatarSegments' = avatarSegments + 1
      /\ UNCHANGED <<viaStream, undisturbed, avatarFinished, toRunner, clears, notices, reader, generator, audioPlaying,
                     notifying>>
  BY DEF FirstFrame, runnerVars, AvatarTypeOK
<1> DEFINE s == IF viaStream THEN "opening" ELSE "streaming"
<1>2. s \in {"opening", "streaming"} /\ avatarReply' = [reply |-> avatarReply.reply + 1, frames |-> 0, step |-> s]
  BY <1>1
<1> HIDE DEF s
<1>3. /\ avatarReply' \in AvatarReplies /\ avatarReply'.step \in {"opening", "streaming"}
      /\ avatarReply'.reply = avatarReply.reply + 1 /\ avatarReply'.frames = 0
  BY <1>1, <1>2 DEF AvatarReplies
<1>4. avatarSegments' = avatarReply'.reply /\ avatarSegments \in Nat /\ avatarFinished \in 0..avatarSegments'
  BY <1>1, <1>3 DEF RequestsCounted, AvatarTypeOK
<1>5. AvatarTypeOK'
  <2>1. avatarSegments' \in 0..MaxAvatarReplies
    BY <1>1, <1>3, <1>4
  <2> QED BY <1>1, <1>3, <1>4, <2>1 DEF AvatarTypeOK, AvatarReplies
<1>6. RequestsCounted'
  <2>1. clears.sent \in Nat /\ clears.tasks \in Nat
    BY DEF AvatarTypeOK
  <2> QED BY <1>1, <1>3, <1>4, <2>1 DEF RequestsCounted
<1>7. InItsPlace'
  <2> SUFFICES ASSUME undisturbed PROVE InItsPlace'
    BY <1>1 DEF InItsPlace
  <2>1. NothingPlays /\ avatarFinished = avatarSegments /\ reader # "cleared" /\ clears.sent = 0 /\ clears.tasks = 0
    BY <1>1 DEF InItsPlace
  <2>2. NothingPlays' /\ avatarFinished' + 1 = avatarSegments'
    BY <1>1, <2>1 DEF NothingPlays
  <2>3. OnlyFrames(toRunner') /\ OnlyFrames(generator') /\ notices' = 0 /\ ~notifying'
    BY <2>2, EmptyQueue DEF NothingPlays
  <2>4. /\ avatarReply'.step # "idle" /\ avatarReply'.step # "playout" /\ avatarReply'.step # "cleared"
        /\ ~(avatarReply'.frames > 0) /\ avatarReply'.frames = 0
    BY <1>3
  <2>5. clears'.sent = 0 /\ clears'.tasks = 0 /\ reader' # "cleared"
    BY <1>1, <2>1
  <2> QED BY <2>2, <2>3, <2>4, <2>5 DEF InItsPlace
<1> QED BY <1>5, <1>6, <1>7, PlacedIsWhole

\* The steps of a reply from its first frame to its end.
LEMMA ReplyForwardsKeeps ==
    ASSUME AvatarInv, StreamOpened \/ WriteFrame \/ AvatarFlush
    PROVE  AvatarInv'
<1> USE DEF AvatarInv
<1>0. /\ toRunner \in Seq(Items) /\ avatarReply \in AvatarReplies
      /\ "open" \in Items /\ "frame" \in Items /\ "end" \in Items
  BY DEF AvatarTypeOK, AvatarReplies, Items
<1>1. CASE StreamOpened
  <2>1. /\ avatarReply.step = "opening" /\ avatarReply' = [avatarReply EXCEPT !.step = "streaming"]
        /\ toRunner' = Append(toRunner, "open")
        /\ UNCHANGED <<viaStream, undisturbed, avatarSegments, avatarFinished, clears, notices, reader, generator,
                       audioPlaying, notifying>>
    BY <1>1 DEF StreamOpened, runnerVars
  <2>2. /\ avatarReply' \in AvatarReplies /\ avatarReply'.step = "streaming" /\ avatarReply'.reply = avatarReply.reply
        /\ avatarReply'.frames = avatarReply.frames
    BY <1>0, <2>1 DEF AvatarReplies
  <2>3. toRunner' \in Seq(Items) /\ (OnlyFrames(toRunner) => OnlyFrames(toRunner'))
    BY <1>0, <2>1, QueueAppend
  <2>4. AvatarTypeOK' /\ RequestsCounted'
    BY <2>1, <2>2, <2>3, ReplyGoesOn
  <2>5. InItsPlace'
    <3> SUFFICES ASSUME undisturbed PROVE InItsPlace'
      BY <2>1 DEF InItsPlace
    <3>1. /\ NothingPlays /\ avatarFinished + 1 = avatarSegments /\ reader # "cleared" /\ avatarReply.frames = 0
          /\ clears.sent = 0 /\ clears.tasks = 0
      BY <2>1 DEF InItsPlace
    <3>2. OnlyFrames(toRunner') /\ OnlyFrames(generator') /\ notices' = 0 /\ ~notifying'
      BY <2>1, <2>3, <3>1, EmptyQueue DEF NothingPlays
    <3> QED BY <2>1, <2>2, <3>1, <3>2 DEF InItsPlace
  <2> QED BY <2>4, <2>5, PlacedIsWhole
<1>2. CASE WriteFrame
  <2>1. /\ avatarReply.step = "streaming" /\ avatarReply' = [avatarReply EXCEPT !.frames = @ + 1]
        /\ avatarReply.frames < MaxAvatarFrames /\ toRunner' = Append(toRunner, "frame")
        /\ UNCHANGED <<viaStream, undisturbed, avatarSegments, avatarFinished, clears, notices, reader, generator,
                       audioPlaying, notifying>>
    BY <1>2 DEF WriteFrame, runnerVars
  <2>2. avatarReply' \in AvatarReplies /\ avatarReply'.step = "streaming" /\ avatarReply'.reply = avatarReply.reply
    BY <1>0, <2>1 DEF AvatarReplies
  <2>3. toRunner' \in Seq(Items) /\ (OnlyFrames(toRunner) => OnlyFrames(toRunner')) /\ HasFrame(toRunner')
    BY <1>0, <2>1, QueueAppend
  <2>4. AvatarTypeOK' /\ RequestsCounted'
    BY <2>1, <2>2, <2>3, ReplyGoesOn
  <2>5. InItsPlace'
    BY <2>1, <2>2, <2>3 DEF InItsPlace
  <2> QED BY <2>4, <2>5, PlacedIsWhole
<1>3. CASE AvatarFlush
  <2>1. /\ avatarReply.step = "streaming" /\ avatarReply' = [avatarReply EXCEPT !.step = "playout"]
        /\ avatarReply.frames > 0 /\ toRunner' = Append(toRunner, "end")
        /\ UNCHANGED <<viaStream, undisturbed, avatarSegments, avatarFinished, clears, notices, reader, generator,
                       audioPlaying, notifying>>
    BY <1>3 DEF AvatarFlush, runnerVars
  <2>2. avatarReply' \in AvatarReplies /\ avatarReply'.step = "playout" /\ avatarReply'.reply = avatarReply.reply
    BY <1>0, <2>1 DEF AvatarReplies
  <2>3. /\ toRunner' \in Seq(Items) /\ (OnlyFrames(toRunner) => EndIsLast(toRunner'))
        /\ (HasFrame(toRunner) => HasFrame(toRunner'))
    BY <1>0, <2>1, QueueAppend
  <2>4. AvatarTypeOK' /\ RequestsCounted'
    BY <2>1, <2>2, <2>3, ReplyGoesOn
  <2>5. InItsPlace'
    <3> SUFFICES ASSUME undisturbed PROVE InItsPlace'
      BY <2>1 DEF InItsPlace
    <3>1. EndOnItsWay' /\ avatarFinished' + 1 = avatarSegments'
      BY <2>1, <2>3 DEF InItsPlace, EndOnItsWay
    <3> QED BY <2>1, <2>2, <3>1 DEF InItsPlace
  <2> QED BY <2>4, <2>5, PlacedIsWhole
<1> QED BY <1>1, <1>2, <1>3

LEMMA InterruptKeeps == AvatarInv /\ AvatarInterrupt => AvatarInv'
<1> SUFFICES ASSUME AvatarInv, AvatarInterrupt PROVE AvatarInv' OBVIOUS
<1> USE DEF AvatarInv
<1>1. /\ avatarReply.step \in {"opening", "streaming", "playout"} /\ avatarReply' = [avatarReply EXCEPT !.step = "cleared"]
      /\ undisturbed' = FALSE
      /\ UNCHANGED <<viaStream, avatarSegments, avatarFinished, notices, reader, generator, audioPlaying, notifying>>
  BY DEF AvatarInterrupt, runnerVars
<1>2. /\ avatarReply' \in AvatarReplies /\ avatarReply'.step = "cleared" /\ avatarReply'.reply = avatarReply.reply
      /\ avatarReply.reply \in 0..MaxAvatarReplies
  BY <1>1 DEF AvatarTypeOK, AvatarReplies
<1>3. toRunner' \in Seq(Items)
  <2>1. toRunner \in Seq(Items) /\ "end" \in Items /\ <<>> \in Seq(Items)
    BY EmptySeq DEF AvatarTypeOK, Items
  <2>2. toRunner' \in {<<>>, toRunner, Append(toRunner, "end")}
    BY DEF AvatarInterrupt
  <2> QED BY <2>1, <2>2, QueueAppend
<1>4. clears' \in Clears /\ clears'.sent + clears'.tasks <= avatarReply.reply
  <2>1. clears.sent \in Nat /\ clears.tasks \in Nat /\ clears \in Clears /\ clears.sent + clears.tasks < avatarReply.reply
    BY <1>1 DEF AvatarTypeOK, Clears, RequestsCounted
  <2>2. CASE clears' = [clears EXCEPT !.sent = @ + 1]
    BY <1>2, <2>1, <2>2 DEF Clears
  <2>3. CASE clears' = [clears EXCEPT !.tasks = @ + 1]
    BY <1>2, <2>1, <2>3 DEF Clears
  <2> QED BY <2>2, <2>3 DEF AvatarInterrupt
<1>5. AvatarTypeOK'
  <2>1. undisturbed' \in BOOLEAN
    BY <1>1, Zenon
  <2> QED BY <1>1, <1>2, <1>3, <1>4, <2>1 DEF AvatarTypeOK, AvatarReplies, Clears
<1>6. RequestsCounted'
  BY <1>1, <1>2, <1>4 DEF RequestsCounted
<1>7. InItsPlace'
  BY <1>1 DEF InItsPlace
<1> QED BY <1>5, <1>6, <1>7, PlacedIsWhole

LEMMA PlayoutOverKeeps == AvatarInv /\ AvatarPlayoutOver => AvatarInv'
<1> SUFFICES ASSUME AvatarInv, AvatarPlayoutOver PROVE AvatarInv' OBVIOUS
<1> USE DEF AvatarInv
<1>1. /\ avatarReply.step \in {"playout", "cleared"} /\ avatarReply' = [avatarReply EXCEPT !.step = "idle"]
      /\ avatarFinished >= avatarSegments
      /\ UNCHANGED <<viaStream, undisturbed, avatarSegments, avatarFinished, toRunner, clears, notices, reader, generator,
                     audioPlaying, notifying>>
  BY DEF AvatarPlayoutOver, runnerVars
<1>2. avatarReply' \in AvatarReplies /\ avatarReply'.step = "idle" /\ avatarReply'.reply = avatarReply.reply
  BY <1>1 DEF AvatarTypeOK, AvatarReplies
<1>3. AvatarTypeOK' /\ RequestsCounted'
  <2>1. toRunner' \in Seq(Items)
    BY <1>1 DEF AvatarTypeOK
  <2> QED BY <1>1, <1>2, <2>1, ReplyGoesOn
<1>4. InItsPlace'
  <2> SUFFICES ASSUME undisturbed PROVE InItsPlace'
    BY <1>1 DEF InItsPlace
  <2>1. avatarReply.step = "playout" /\ NothingPlays /\ avatarFinished = avatarSegments
    <3>1. avatarSegments \in Nat /\ avatarFinished \in Nat
      BY DEF AvatarTypeOK
    <3> QED BY <1>1, <3>1 DEF InItsPlace
  <2>2. NothingPlays'
    BY <1>1, <2>1 DEF NothingPlays
  <2> QED BY <1>1, <1>2, <2>1, <2>2 DEF InItsPlace
<1> QED BY <1>3, <1>4, PlacedIsWhole

\* The notification of the reply: the runner that awaits it goes on.
LEMMA NoticeKeeps == AvatarInv /\ NoticeArrives => AvatarInv'
<1> SUFFICES ASSUME AvatarInv, NoticeArrives PROVE AvatarInv' OBVIOUS
<1> USE DEF AvatarInv
<1>1. /\ notices > 0 /\ notices' = notices - 1 /\ ~notifying'
      /\ avatarFinished' = IF avatarFinished < avatarSegments THEN avatarFinished + 1 ELSE avatarFinished
      /\ (audioPlaying' <=> audioPlaying /\ ~notifying)
      /\ UNCHANGED <<viaStream, undisturbed, avatarReply, avatarSegments, toRunner, clears, reader, generator>>
  BY DEF NoticeArrives
<1>2. notifying' \in BOOLEAN /\ audioPlaying' \in BOOLEAN
  BY Zenon DEF NoticeArrives
<1>3. AvatarTypeOK'
  <2>1. avatarFinished' \in 0..avatarSegments /\ notices' \in Nat
    BY <1>1 DEF AvatarTypeOK
  <2> QED BY <1>1, <1>2, <2>1 DEF AvatarTypeOK
<1>4. RequestsCounted'
  BY <1>1 DEF RequestsCounted
<1>5. InItsPlace'
  <2> SUFFICES ASSUME undisturbed PROVE InItsPlace'
    BY <1>1 DEF InItsPlace
  <2>1. avatarReply.step = "playout" /\ EndNoticed /\ avatarFinished + 1 = avatarSegments
    BY <1>1 DEF InItsPlace, EndNoticed, EndOnItsWay, NothingPlays, AvatarTypeOK
  <2>2. avatarFinished \in Nat /\ avatarSegments \in Nat
    BY DEF AvatarTypeOK
  <2>3. NothingPlays' /\ avatarFinished' = avatarSegments'
    BY <1>1, <2>1, <2>2 DEF EndNoticed, NothingPlays
  <2>4. clears.sent = 0 /\ clears.tasks = 0 /\ reader # "cleared"
    BY DEF InItsPlace
  <2> QED BY <1>1, <2>1, <2>3, <2>4 DEF InItsPlace
<1> QED BY <1>3, <1>4, <1>5, PlacedIsWhole

\* What is on its way is read: the audio plays as soon as a frame is.
LEMMA ReadKeeps == AvatarInv /\ Read => AvatarInv'
<1> SUFFICES ASSUME AvatarInv, Read PROVE AvatarInv' OBVIOUS
<1> USE DEF AvatarInv
<1>1. /\ toRunner # <<>> /\ toRunner' = Tail(toRunner)
      /\ UNCHANGED <<viaStream, avatarReply, undisturbed, avatarSegments, avatarFinished, clears, notices, notifying>>
  BY DEF Read, agentSideVars
<1>2. toRunner \in Seq(Items) /\ generator \in Seq(Items \ {"open"}) /\ "frame" \in Items \ {"open"} /\ "end" \in Items \ {"open"}
  BY DEF AvatarTypeOK, Items
<1>3. /\ Head(toRunner) \in Items /\ toRunner' \in Seq(Items)
      /\ OnlyFrames(toRunner) => Head(toRunner) # "end" /\ OnlyFrames(toRunner')
      /\ EndIsLast(toRunner) /\ Head(toRunner) = "end" => toRunner' = <<>>
      /\ EndIsLast(toRunner) /\ Head(toRunner) # "end" => EndIsLast(toRunner')
      /\ HasFrame(toRunner) => Head(toRunner) = "frame" \/ HasFrame(toRunner')
  BY <1>1, <1>2, QueueTail
<1>4. \/ Head(toRunner) = "open" /\ reader' = "reading" /\ generator' = generator /\ audioPlaying' = audioPlaying
      \/ Head(toRunner) = "frame" /\ reader = "cleared" /\ UNCHANGED <<audioPlaying, generator, reader>>
      \/ /\ Head(toRunner) = "frame" /\ reader # "cleared" /\ audioPlaying' = TRUE /\ reader' = reader
         /\ generator' = Append(generator, "frame")
      \/ /\ Head(toRunner) = "end" /\ reader' = "none" /\ audioPlaying' = audioPlaying
         /\ generator' = Append(generator, "end")
  BY <1>3 DEF Read, ReadFrame, Items
<1>5. /\ Append(generator, "frame") \in Seq(Items \ {"open"}) /\ Append(generator, "end") \in Seq(Items \ {"open"})
      /\ OnlyFrames(generator) => OnlyFrames(Append(generator, "frame")) /\ EndIsLast(Append(generator, "end"))
  BY <1>2, QueueAppend
<1>6. AvatarTypeOK'
  <2>1. audioPlaying' \in BOOLEAN
    BY <1>4, Zenon DEF AvatarTypeOK
  <2>2. reader' \in {"none", "reading", "cleared"} /\ generator' \in Seq(Items \ {"open"})
    BY <1>2, <1>4, <1>5 DEF AvatarTypeOK
  <2> QED BY <1>1, <1>3, <2>1, <2>2 DEF AvatarTypeOK
<1>7. RequestsCounted'
  BY <1>1 DEF RequestsCounted
<1>8. InItsPlace'
  <2> SUFFICES ASSUME undisturbed PROVE InItsPlace'
    BY <1>1 DEF InItsPlace
  <2>1. clears.sent = 0 /\ clears.tasks = 0 /\ reader # "cleared" /\ reader' # "cleared" /\ avatarReply.step # "cleared"
    BY <1>4 DEF InItsPlace
  <2>2. avatarReply.step \notin {"idle", "opening"}
    BY <1>1 DEF InItsPlace, NothingPlays
  <2>3. Head(toRunner) = "frame" => audioPlaying'
    BY <1>4, <2>1 DEF InItsPlace
  <2>4. audioPlaying => audioPlaying'
    BY <1>4
  <2>5. CASE avatarReply.step = "streaming"
    <3>1. /\ OnlyFrames(toRunner) /\ OnlyFrames(generator) /\ notices = 0 /\ ~notifying /\ avatarFinished + 1 = avatarSegments
          /\ avatarReply.frames > 0 => audioPlaying \/ HasFrame(toRunner)
      BY <2>5 DEF InItsPlace
    <3>2. OnlyFrames(toRunner') /\ OnlyFrames(generator')
      BY <1>3, <1>4, <1>5, <3>1
    <3>3. avatarReply.frames > 0 => audioPlaying' \/ HasFrame(toRunner')
      BY <1>3, <2>3, <2>4, <3>1
    <3> QED BY <1>1, <2>1, <2>5, <3>1, <3>2, <3>3 DEF InItsPlace
  <2>6. CASE avatarReply.step = "playout"
    <3>1. /\ EndIsLast(toRunner) /\ OnlyFrames(generator) /\ notices = 0 /\ ~notifying /\ avatarFinished + 1 = avatarSegments
          /\ audioPlaying \/ HasFrame(toRunner)
      BY <1>1, <2>6 DEF InItsPlace, EndOnItsWay, EndNoticed, NothingPlays
    <3>2. audioPlaying' \/ HasFrame(toRunner')
      BY <1>3, <2>3, <2>4, <3>1
    <3>3. EndOnItsWay'
      <4>1. CASE Head(toRunner) = "end"
        <5>1. toRunner' = <<>> /\ EndIsLast(generator') /\ audioPlaying'
          BY <1>3, <1>4, <1>5, <3>1, <3>2, <4>1, EmptyQueue
        <5> QED BY <1>1, <3>1, <5>1 DEF EndOnItsWay
      <4>2. CASE Head(toRunner) # "end"
        <5>1. EndIsLast(toRunner') /\ OnlyFrames(generator')
          BY <1>3, <1>4, <1>5, <3>1, <4>2
        <5> QED BY <1>1, <3>1, <3>2, <5>1 DEF EndOnItsWay
      <4> QED BY <4>1, <4>2
    <3> QED BY <1>1, <2>1, <2>6, <3>1, <3>3 DEF InItsPlace
  <2> QED BY <2>1, <2>2, <2>5, <2>6 DEF AvatarTypeOK
<1> QED BY <1>6, <1>7, <1>8, PlacedIsWhole

\* What is played leaves the queue: the end of a segment that played is notified.
LEMMA PublishKeeps == AvatarInv /\ Publish => AvatarInv'
<1> SUFFICES ASSUME AvatarInv, Publish PROVE AvatarInv' OBVIOUS
<1> USE DEF AvatarInv
<1>1. /\ generator # <<>> /\ ~notifying /\ generator' = Tail(generator)
      /\ (notifying' <=> Head(generator) = "end" /\ audioPlaying)
      /\ notices' = IF notifying' THEN notices + 1 ELSE notices
      /\ UNCHANGED <<viaStream, avatarReply, undisturbed, avatarSegments, avatarFinished, toRunner, clears, reader, audioPlaying>>
  BY DEF Publish, agentSideVars
<1>2. /\ Head(generator) \in Items \ {"open"} /\ generator' \in Seq(Items \ {"open"})
      /\ OnlyFrames(generator) => Head(generator) # "end" /\ OnlyFrames(generator')
      /\ EndIsLast(generator) /\ Head(generator) = "end" => generator' = <<>>
      /\ EndIsLast(generator) /\ Head(generator) # "end" => EndIsLast(generator')
  <2>1. generator \in Seq(Items \ {"open"})
    BY DEF AvatarTypeOK
  <2> QED BY <1>1, <2>1, QueueTail
<1>3. AvatarTypeOK'
  <2>1. notifying' \in BOOLEAN
    BY Zenon DEF Publish
  <2>2. notices' \in Nat
    BY <1>1 DEF AvatarTypeOK
  <2> QED BY <1>1, <1>2, <2>1, <2>2 DEF AvatarTypeOK
<1>4. RequestsCounted'
  BY <1>1 DEF RequestsCounted
<1>5. InItsPlace'
  <2> SUFFICES ASSUME undisturbed PROVE InItsPlace'
    BY <1>1 DEF InItsPlace
  <2>1. clears.sent = 0 /\ clears.tasks = 0 /\ reader # "cleared" /\ avatarReply.step # "cleared"
    BY DEF InItsPlace
  <2>2. avatarReply.step \notin {"idle", "opening"}
    BY <1>1 DEF InItsPlace, NothingPlays
  <2>3. CASE avatarReply.step = "streaming"
    <3>1. /\ OnlyFrames(toRunner) /\ OnlyFrames(generator) /\ notices = 0 /\ avatarFinished + 1 = avatarSegments
          /\ avatarReply.frames > 0 => audioPlaying \/ HasFrame(toRunner)
      BY <2>3 DEF InItsPlace
    <3>2. OnlyFrames(generator') /\ ~notifying' /\ notices' = 0
      BY <1>1, <1>2, <3>1
    <3> QED BY <1>1, <2>1, <2>3, <3>1, <3>2 DEF InItsPlace
  <2>4. CASE avatarReply.step = "playout"
    <3>1. EndOnItsWay /\ avatarFinished + 1 = avatarSegments
      BY <1>1, <2>4 DEF InItsPlace, EndNoticed, NothingPlays
    <3>2. CASE EndIsLast(toRunner) /\ OnlyFrames(generator)
      <4>1. OnlyFrames(generator') /\ ~notifying' /\ notices' = 0
        BY <1>1, <1>2, <3>1, <3>2 DEF EndOnItsWay
      <4>2. EndOnItsWay'
        BY <1>1, <3>1, <3>2, <4>1 DEF EndOnItsWay
      <4> QED BY <1>1, <2>1, <2>4, <3>1, <4>2 DEF InItsPlace
    <3>3. CASE toRunner = <<>> /\ EndIsLast(generator)
      <4>1. audioPlaying /\ notices = 0
        BY <3>1, <3>3, EmptyQueue DEF EndOnItsWay
      <4>2. CASE Head(generator) = "end"
        <5>1. EndNoticed'
          BY <1>1, <1>2, <3>3, <4>1, <4>2 DEF EndNoticed
        <5> QED BY <1>1, <2>1, <2>4, <3>1, <5>1 DEF InItsPlace
      <4>3. CASE Head(generator) # "end"
        <5>1. EndOnItsWay'
          BY <1>1, <1>2, <3>3, <4>1, <4>3 DEF EndOnItsWay
        <5> QED BY <1>1, <2>1, <2>4, <3>1, <5>1 DEF InItsPlace
      <4> QED BY <4>2, <4>3
    <3> QED BY <3>1, <3>2, <3>3 DEF EndOnItsWay
  <2> QED BY <2>1, <2>2, <2>3, <2>4 DEF AvatarTypeOK
<1> QED BY <1>3, <1>4, <1>5, PlacedIsWhole

\* A request to clear: there is none as long as nobody interrupts.
LEMMA ClearKeeps ==
    ASSUME AvatarInv, ClearArrives \/ HandleClear
    PROVE  AvatarInv'
<1> USE DEF AvatarInv
<1>0. clears \in Clears /\ clears.sent \in Nat /\ clears.tasks \in Nat /\ avatarReply.reply \in 0..MaxAvatarReplies
  BY DEF AvatarTypeOK, Clears
<1>1. UNCHANGED <<viaStream, avatarReply, undisturbed, avatarSegments, avatarFinished, toRunner, notifying>>
  BY DEF ClearArrives, HandleClear, agentSideVars
<1>2. clears' \in Clears /\ clears'.sent + clears'.tasks <= clears.sent + clears.tasks
  <2>1. CASE ClearArrives
    <3>1. clears.sent > 0 /\ clears' = [sent |-> clears.sent - 1, tasks |-> clears.tasks + 1]
      BY <2>1 DEF ClearArrives
    <3> QED BY <1>0, <3>1 DEF RequestsCounted, Clears
  <2>2. CASE HandleClear
    <3>1. clears.tasks > 0 /\ clears' = [clears EXCEPT !.tasks = @ - 1]
      BY <2>2 DEF HandleClear
    <3> QED BY <1>0, <3>1 DEF RequestsCounted, Clears
  <2> QED BY <2>1, <2>2
<1>3. AvatarTypeOK'
  <2>1. audioPlaying' \in BOOLEAN
    BY Zenon DEF ClearArrives, HandleClear, AvatarTypeOK
  <2>2. generator' \in Seq(Items \ {"open"}) /\ notices' \in Nat
    <3>1. /\ <<>> \in Seq(Items \ {"open"}) /\ generator \in Seq(Items \ {"open"})
          /\ notices \in Nat /\ notices + 1 \in Nat
      BY EmptySeq DEF AvatarTypeOK
    <3>2. generator' \in {<<>>, generator} /\ notices' \in {notices, notices + 1}
      BY DEF ClearArrives, HandleClear
    <3> QED BY <3>1, <3>2
  <2>3. reader' \in {"none", "reading", "cleared"}
    BY DEF ClearArrives, HandleClear, AvatarTypeOK
  <2> QED BY <1>1, <1>2, <2>1, <2>2, <2>3 DEF AvatarTypeOK, Clears
<1>4. RequestsCounted'
  <2>1. clears'.sent \in Nat /\ clears'.tasks \in Nat
    BY <1>2 DEF Clears
  <2> QED BY <1>0, <1>1, <1>2, <2>1 DEF RequestsCounted
<1>5. InItsPlace'
  <2>1. ~undisturbed
    BY DEF InItsPlace, ClearArrives, HandleClear
  <2> QED BY <1>1, <2>1 DEF InItsPlace
<1> QED BY <1>3, <1>4, <1>5, PlacedIsWhole

LEMMA AvatarNextInv == AvatarInv /\ [AvatarNext]_avatarVars => AvatarInv'
<1> SUFFICES ASSUME AvatarInv, [AvatarNext]_avatarVars PROVE AvatarInv' OBVIOUS
<1>1. CASE UNCHANGED avatarVars
  BY <1>1 DEF avatarVars, agentSideVars, runnerVars, AvatarInv, AvatarTypeOK, RequestsCounted, InItsPlace, NothingPlays,
              EndOnItsWay, EndNoticed, AvatarPlaysWhole
<1> QED
  BY <1>1, FirstFrameKeeps, ReplyForwardsKeeps, InterruptKeeps, PlayoutOverKeeps, NoticeKeeps, ReadKeeps, PublishKeeps,
     ClearKeeps DEF AvatarNext

----------------------------------------------------------------------------
(* TextOutput *)

USE TextOutputAssumption

CaptureType == [final : BOOLEAN, step : {"waits", "publishes", "done"}, id : Ids]
PieceType == [id : Ids, text : 0..MaxTexts, final : BOOLEAN]

LEMMA TextInitInv == TextInit => TextInv
<1> SUFFICES ASSUME TextInit PROVE TextInv OBVIOUS
<1>1. /\ <<>> \in Seq(CaptureType) /\ <<>> \in Seq(PieceType) /\ Len(<<>>) = 0 /\ DOMAIN <<>> = {}
  BY EmptySeq
<1>2. TextTypeOK
  <2>1. flushTask \in [runs : BOOLEAN, id : Ids, text : 0..MaxTexts]
    BY DEF TextInit, NoFlush, Ids
  <2>2. ofUser \in BOOLEAN /\ legacy \in BOOLEAN /\ segmentOpen \in BOOLEAN
    BY Zenon DEF TextInit
  <2>3. segmentId \in Ids /\ latestText \in 0..MaxTexts /\ links \in 0..MaxLinks
    BY DEF TextInit, Ids
  <2> QED BY <1>1, <2>1, <2>2, <2>3 DEF TextInit, TextTypeOK, CaptureType, PieceType
<1>3. CapturedInOrder
  <2>1. 0 \in 0..Len(captures) /\ segmentId <= 0 + links /\ Len(captures) <= MaxTexts
    BY <1>1 DEF TextInit
  <2>2. \A e \in 1..Len(captures) : captures[e].step = "waits" <=> e > 0
    BY <1>1 DEF TextInit
  <2> QED BY <2>1, <2>2 DEF CapturedInOrder
<1>4. AgentInTurn /\ SegmentsDoNotMix
  BY <1>1 DEF TextInit, AgentInTurn, SegmentsDoNotMix, NoFlush
<1> QED BY <1>2, <1>3, <1>4 DEF TextInv

\* The sequences of the captures and of the pieces that are published.
LEMMA TextSequences ==
    ASSUME TextTypeOK
    PROVE  /\ Len(captures) \in Nat /\ DOMAIN captures = 1..Len(captures)
           /\ \A e \in 1..Len(captures) : captures[e] \in CaptureType
           /\ Len(published) \in Nat /\ DOMAIN published = 1..Len(published)
           /\ \A i \in 1..Len(published) : published[i] \in PieceType
<1>1. captures \in Seq(CaptureType) /\ published \in Seq(PieceType)
  BY DEF TextTypeOK, CaptureType, PieceType
<1> QED BY <1>1, ElementsType

\* A piece is published of the segment there is.
LEMMA PublishedInTurn ==
    ASSUME TextTypeOK, AgentInTurn, SegmentsDoNotMix, ~ofUser, segmentOpen \/ flushTask.runs,
           NEW p \in PieceType, p.id = segmentId, published' = Append(published, p), UNCHANGED <<ofUser, segmentId>>
    PROVE  /\ SegmentsDoNotMix' /\ Len(published') = Len(published) + 1
           /\ \A i \in 1..Len(published') :
                 /\ published'[i].id <= segmentId
                 /\ i <= Len(published) /\ published'[i].id = segmentId => ~published'[i].final
           /\ published'[Len(published) + 1] = p /\ published' \in Seq(PieceType)
<1>1. /\ Len(published) \in Nat /\ DOMAIN published = 1..Len(published) /\ published \in Seq(PieceType)
      /\ \A i \in 1..Len(published) : published[i] \in PieceType
  BY TextSequences DEF TextTypeOK, PieceType
<1>2. /\ published' \in Seq(PieceType) /\ Len(published') = Len(published) + 1
      /\ \A i \in 1..Len(published) : published'[i] = published[i]
      /\ published'[Len(published) + 1] = p /\ DOMAIN published' = 1..(Len(published) + 1)
  BY <1>1, AppendProperties, LenProperties
<1>3. ASSUME NEW i \in 1..Len(published)
      PROVE  published'[i].id <= segmentId /\ (published'[i].id = segmentId => ~published'[i].final)
  BY <1>1, <1>2 DEF AgentInTurn
<1>4. segmentId \in Nat
  BY DEF TextTypeOK, Ids
<1>5. \A i \in 1..Len(published') : /\ published'[i].id <= segmentId
                                    /\ i <= Len(published) /\ published'[i].id = segmentId => ~published'[i].final
  <2> SUFFICES ASSUME NEW i \in 1..Len(published')
               PROVE  /\ published'[i].id <= segmentId
                      /\ i <= Len(published) /\ published'[i].id = segmentId => ~published'[i].final
    OBVIOUS
  <2>1. CASE i \in 1..Len(published)
    BY <1>3, <2>1
  <2>2. CASE i = Len(published) + 1
    BY <1>1, <1>2, <1>4, <2>2
  <2> QED BY <1>1, <1>2, <2>1, <2>2
<1>6. SegmentsDoNotMix'
  <2> SUFFICES ASSUME NEW i \in 1..(Len(published) + 1), NEW j \in 1..(Len(published) + 1), i < j
               PROVE  /\ published'[i].id <= published'[j].id
                      /\ published'[i].id = published'[j].id => ~published'[i].final
    BY <1>2 DEF SegmentsDoNotMix
  <2>1. i \in 1..Len(published)
    BY <1>1
  <2>2. CASE j \in 1..Len(published)
    BY <1>1, <1>2, <2>1, <2>2 DEF SegmentsDoNotMix
  <2>3. CASE j = Len(published) + 1
    BY <1>2, <1>3, <2>1, <2>3
  <2> QED BY <1>1, <2>2, <2>3
<1> QED BY <1>2, <1>5, <1>6

LEMMA TextComesKeeps == TextInv /\ TextComes => TextInv'
<1> SUFFICES ASSUME TextInv, TextComes PROVE TextInv' OBVIOUS
<1> USE DEF TextInv
<1>0. PICK final \in BOOLEAN : captures' = Append(captures, [final |-> final, step |-> "waits", id |-> 0])
  BY DEF TextComes
<1> DEFINE new == [final |-> final, step |-> "waits", id |-> 0]
<1>1. new \in CaptureType /\ new.step = "waits"
  BY DEF CaptureType, Ids
<1> HIDE DEF new
<1>2. /\ Len(captures) \in Nat /\ DOMAIN captures = 1..Len(captures) /\ captures \in Seq(CaptureType)
      /\ captures' \in Seq(CaptureType) /\ Len(captures') = Len(captures) + 1
      /\ \A e \in 1..Len(captures) : captures'[e] = captures[e]
      /\ captures'[Len(captures) + 1] = new
  <2>1. captures' = Append(captures, new)
    BY <1>0 DEF new
  <2>2. Len(captures) \in Nat /\ DOMAIN captures = 1..Len(captures) /\ captures \in Seq(CaptureType)
    BY TextSequences DEF TextTypeOK, CaptureType
  <2> QED BY <1>1, <2>1, <2>2, AppendProperties
<1>3. UNCHANGED <<ofUser, legacy, segmentId, segmentOpen, latestText, flushTask, links, published>>
  BY DEF TextComes
<1>4. TextTypeOK'
  BY <1>2, <1>3 DEF TextTypeOK, CaptureType
<1>5. CapturedInOrder'
  <2> PICK m \in 0..Len(captures) : /\ \A e \in 1..Len(captures) : captures[e].step = "waits" <=> e > m
                                    /\ segmentId <= m + links
    BY DEF CapturedInOrder
  <2>1. m \in 0..Len(captures') /\ Len(captures') <= MaxTexts /\ segmentId' <= m + links'
    BY <1>2, <1>3 DEF TextComes
  <2>2. ASSUME NEW e \in 1..Len(captures') PROVE captures'[e].step = "waits" <=> e > m
    <3>1. CASE e \in 1..Len(captures)
      BY <1>2, <3>1
    <3>2. CASE e = Len(captures) + 1
      BY <1>1, <1>2, <3>2
    <3> QED BY <1>2, <3>1, <3>2
  <2> QED BY <2>1, <2>2 DEF CapturedInOrder
<1>6. AgentInTurn'
  <2> SUFFICES ASSUME ~ofUser PROVE AgentInTurn'
    BY <1>3 DEF AgentInTurn
  <2>1. \A e \in 1..Len(captures) : captures[e].step = "done"
    BY <1>2 DEF TextComes
  <2>2. \A e \in 1..Len(captures') :
          /\ captures'[e].step # "done" => e = Len(captures')
          /\ captures'[e].step # "publishes"
    <3> SUFFICES ASSUME NEW e \in 1..Len(captures')
                 PROVE  (captures'[e].step # "done" => e = Len(captures')) /\ captures'[e].step # "publishes"
      OBVIOUS
    <3>1. CASE e \in 1..Len(captures)
      BY <1>2, <2>1, <3>1
    <3>2. CASE e = Len(captures) + 1
      BY <1>1, <1>2, <3>2
    <3> QED BY <1>2, <3>1, <3>2
  <2> QED BY <1>3, <2>2 DEF AgentInTurn
<1>7. SegmentsDoNotMix'
  BY <1>3 DEF SegmentsDoNotMix
<1> QED BY <1>4, <1>5, <1>6, <1>7

\* A capture goes on to its next step.
LEMMA CaptureGoesOn ==
    ASSUME TextTypeOK, NEW e \in 1..Len(captures), NEW step \in {"publishes", "done"}, NEW id \in Ids,
           captures' = [captures EXCEPT ![e] = [@ EXCEPT !.step = step, !.id = id]]
    PROVE  /\ captures' \in Seq(CaptureType) /\ Len(captures') = Len(captures)
           /\ captures'[e].step = step /\ captures'[e].id = id
           /\ \A f \in 1..Len(captures) : f # e => captures'[f] = captures[f]
<1>1. /\ captures \in Seq(CaptureType) /\ DOMAIN captures = 1..Len(captures) /\ Len(captures) \in Nat
      /\ captures[e] \in CaptureType
  BY TextSequences DEF TextTypeOK, CaptureType
<1> DEFINE c == [captures[e] EXCEPT !.step = step, !.id = id]
<1>2. c \in CaptureType /\ c.step = step /\ c.id = id
  BY <1>1 DEF CaptureType
<1>3. captures' = [captures EXCEPT ![e] = c]
  OBVIOUS
<1> HIDE DEF c
<1>4. captures' \in Seq(CaptureType) /\ Len(captures') = Len(captures)
  BY <1>1, <1>2, <1>3, ExceptSeq
<1> QED BY <1>1, <1>2, <1>3, <1>4

LEMMA CaptureKeeps == ASSUME TextInv, NEW e \in DOMAIN captures, Capture(e) PROVE TextInv'
<1> USE DEF TextInv
<1>0. e \in 1..Len(captures) /\ Len(captures) \in Nat
  BY TextSequences
<1>1. /\ UNCHANGED <<ofUser, legacy, flushTask, links, published>>
      /\ captures[e].step = "waits" /\ ~flushTask.runs /\ \A f \in 1..(e - 1) : captures[f].step # "waits"
      /\ segmentOpen' = TRUE /\ latestText' = e
      /\ segmentId' = segmentId \/ (segmentId' = segmentId + 1 /\ ~segmentOpen)
      /\ segmentOpen => segmentId' = segmentId
      /\ ~segmentOpen => segmentId' = segmentId + 1
  BY DEF Capture
<1>2. PICK m \in 0..Len(captures) : /\ \A f \in 1..Len(captures) : captures[f].step = "waits" <=> f > m
                                    /\ segmentId <= m + links
  BY DEF CapturedInOrder
<1>3. e = m + 1 /\ segmentId' <= m + 1 + links /\ segmentId' \in Ids /\ segmentId \in Nat /\ segmentId' \in Nat
  <2>1. e = m + 1
    <3>1. e > m
      BY <1>0, <1>1, <1>2
    <3>2. CASE e > m + 1
      BY <1>0, <1>1, <1>2, <3>2
    <3> QED BY <1>0, <3>1, <3>2
  <2>2. segmentId \in Nat /\ links \in 0..MaxLinks /\ Len(captures) <= MaxTexts
    BY DEF TextTypeOK, Ids, CapturedInOrder
  <2>3. segmentId' <= m + 1 + links /\ segmentId' \in Nat
    BY <1>1, <1>2, <2>2
  <2> QED BY <1>0, <1>2, <2>1, <2>2, <2>3 DEF Ids
<1>4. /\ captures' \in Seq(CaptureType) /\ Len(captures') = Len(captures)
      /\ captures'[e].step = "publishes" /\ captures'[e].id = segmentId'
      /\ \A f \in 1..Len(captures) : f # e => captures'[f] = captures[f]
  <2>1. captures' = [captures EXCEPT ![e] = [@ EXCEPT !.step = "publishes", !.id = segmentId']]
    BY DEF Capture
  <2> QED BY <1>0, <1>3, <2>1, CaptureGoesOn
<1>5. TextTypeOK'
  <2>1. latestText' \in 0..MaxTexts
    BY <1>0, <1>1 DEF CapturedInOrder
  <2>2. segmentOpen' \in BOOLEAN
    BY <1>1, Zenon
  <2> QED BY <1>1, <1>3, <1>4, <2>1, <2>2 DEF TextTypeOK, CaptureType
<1>6. CapturedInOrder'
  <2>1. m + 1 \in 0..Len(captures') /\ segmentId' <= (m + 1) + links' /\ Len(captures') <= MaxTexts
    BY <1>0, <1>1, <1>3, <1>4 DEF CapturedInOrder
  <2>2. \A f \in 1..Len(captures') : captures'[f].step = "waits" <=> f > m + 1
    BY <1>0, <1>2, <1>3, <1>4
  <2> QED BY <2>1, <2>2 DEF CapturedInOrder
<1>7. AgentInTurn'
  <2> SUFFICES ASSUME ~ofUser PROVE AgentInTurn'
    BY <1>1 DEF AgentInTurn
  <2>1. e = Len(captures) /\ \A f \in 1..Len(captures) : f # e => captures[f].step = "done"
    BY <1>0, <1>1 DEF AgentInTurn
  <2>2. \A f \in 1..Len(captures') :
          /\ captures'[f].step # "done" => f = Len(captures')
          /\ captures'[f].step = "publishes" => captures'[f].id = segmentId' /\ segmentOpen' /\ ~flushTask'.runs
    BY <1>1, <1>4, <2>1
  <2>3. \A i \in 1..Len(published') :
          /\ published'[i].id <= segmentId'
          /\ published'[i].id = segmentId' => ~published'[i].final
    <3> SUFFICES ASSUME NEW i \in 1..Len(published)
                 PROVE  published[i].id <= segmentId' /\ (published[i].id = segmentId' => ~published[i].final)
      BY <1>1
    <3>1. published[i].id \in Nat /\ published[i].id <= segmentId
      <4>1. published[i] \in PieceType
        BY TextSequences
      <4> QED BY <4>1 DEF AgentInTurn, PieceType, Ids
    <3>2. CASE segmentOpen
      BY <1>1, <3>1, <3>2 DEF AgentInTurn
    <3>3. CASE ~segmentOpen
      BY <1>1, <1>3, <3>1, <3>3
    <3> QED BY <3>2, <3>3
  <2> QED BY <1>1, <2>2, <2>3 DEF AgentInTurn
<1>8. SegmentsDoNotMix'
  BY <1>1 DEF SegmentsDoNotMix
<1> QED BY <1>5, <1>6, <1>7, <1>8

\* Captured() without its flush.
LEMMA CapturedPublishes ==
    ASSUME TextInv, NEW e \in DOMAIN captures, Captured(e)
    PROVE  /\ e \in 1..Len(captures) /\ Len(captures) \in Nat /\ captures[e].step = "publishes"
           /\ captures' \in Seq(CaptureType) /\ Len(captures') = Len(captures)
           /\ captures'[e].step = "done"
           /\ \A f \in 1..Len(captures) : f # e => captures'[f] = captures[f]
           /\ \E p \in PieceType : p.id = captures[e].id /\ ~p.final /\ published' = Append(published, p)
           /\ UNCHANGED <<ofUser, legacy, segmentId, latestText, links>>
<1> USE DEF TextInv
<1>1. e \in 1..Len(captures) /\ Len(captures) \in Nat /\ captures[e] \in CaptureType
  BY TextSequences
<1>2. captures' = [captures EXCEPT ![e] = [@ EXCEPT !.step = "done", !.id = captures[e].id]]
  <2>1. captures' = [captures EXCEPT ![e] = [captures[e] EXCEPT !.step = "done"]]
    BY DEF Captured
  <2>2. [captures[e] EXCEPT !.step = "done"] = [captures[e] EXCEPT !.step = "done", !.id = captures[e].id]
    BY <1>1 DEF CaptureType
  <2> QED BY <2>1, <2>2
<1>3. captures[e].id \in Ids
  BY <1>1 DEF CaptureType
<1>4. /\ captures' \in Seq(CaptureType) /\ Len(captures') = Len(captures)
      /\ captures'[e].step = "done"
      /\ \A f \in 1..Len(captures) : f # e => captures'[f] = captures[f]
  BY <1>1, <1>2, <1>3, CaptureGoesOn
<1>5. \E p \in PieceType : p.id = captures[e].id /\ ~p.final /\ published' = Append(published, p)
  <2> DEFINE p == [id |-> captures[e].id, text |-> e, final |-> FALSE]
  <2>1. e \in 0..MaxTexts
    BY <1>1 DEF CapturedInOrder
  <2>2. p \in PieceType /\ p.id = captures[e].id /\ ~p.final
    BY <1>3, <2>1 DEF PieceType
  <2>3. published' = Append(published, p)
    BY DEF Captured
  <2> HIDE DEF p
  <2> QED BY <2>2, <2>3
<1>6. UNCHANGED <<ofUser, legacy, segmentId, latestText, links>> /\ captures[e].step = "publishes"
  BY DEF Captured
<1> QED BY <1>1, <1>4, <1>5, <1>6

LEMMA FlushTypes ==
    ASSUME TextTypeOK, FlushSegment
    PROVE  /\ segmentOpen' \in BOOLEAN /\ ~segmentOpen' /\ flushTask' \in [runs : BOOLEAN, id : Ids, text : 0..MaxTexts]
           /\ segmentOpen => flushTask'.runs /\ flushTask'.id = segmentId
           /\ ~segmentOpen => flushTask' = flushTask
<1>1. segmentOpen' \in BOOLEAN /\ ~segmentOpen'
  BY Zenon DEF FlushSegment
<1>2. CASE segmentOpen
  <2>1. flushTask' = [runs |-> TRUE, id |-> segmentId, text |-> latestText]
    BY <1>2 DEF FlushSegment
  <2> QED BY <1>1, <1>2, <2>1 DEF TextTypeOK
<1>3. CASE ~segmentOpen
  BY <1>1, <1>3 DEF FlushSegment, TextTypeOK
<1> QED BY <1>2, <1>3

LEMMA CapturedKeeps == ASSUME TextInv, NEW e \in DOMAIN captures, Captured(e) PROVE TextInv'
<1> USE DEF TextInv
<1>1. /\ e \in 1..Len(captures) /\ Len(captures) \in Nat /\ captures[e].step = "publishes"
      /\ captures' \in Seq(CaptureType) /\ Len(captures') = Len(captures)
      /\ captures'[e].step = "done"
      /\ \A f \in 1..Len(captures) : f # e => captures'[f] = captures[f]
      /\ \E p \in PieceType : p.id = captures[e].id /\ ~p.final /\ published' = Append(published, p)
      /\ UNCHANGED <<ofUser, legacy, segmentId, latestText, links>>
  BY CapturedPublishes
<1>2. PICK p \in PieceType : p.id = captures[e].id /\ ~p.final /\ published' = Append(published, p)
  BY <1>1
<1>3. FlushSegment \/ UNCHANGED <<segmentOpen, flushTask>>
  BY DEF Captured
<1>4. TextTypeOK'
  <2>1. segmentOpen' \in BOOLEAN /\ flushTask' \in [runs : BOOLEAN, id : Ids, text : 0..MaxTexts]
    <3>1. CASE FlushSegment
      BY <3>1, FlushTypes
    <3>2. CASE UNCHANGED <<segmentOpen, flushTask>>
      BY <3>2 DEF TextTypeOK
    <3> QED BY <1>3, <3>1, <3>2
  <2>2. published' \in Seq(PieceType)
    BY <1>2, AppendProperties DEF TextTypeOK, PieceType
  <2> QED BY <1>1, <2>1, <2>2 DEF TextTypeOK, CaptureType, PieceType
<1>5. CapturedInOrder'
  <2> PICK m \in 0..Len(captures) : /\ \A f \in 1..Len(captures) : captures[f].step = "waits" <=> f > m
                                    /\ segmentId <= m + links
    BY DEF CapturedInOrder
  <2>1. \A f \in 1..Len(captures') : captures'[f].step = "waits" <=> f > m
    BY <1>1
  <2> QED BY <1>1, <2>1 DEF CapturedInOrder
<1>6. ASSUME ~ofUser PROVE AgentInTurn' /\ SegmentsDoNotMix'
  <2>1. p.id = segmentId /\ segmentOpen /\ ~flushTask.runs
    BY <1>1, <1>2, <1>6 DEF AgentInTurn
  <2>2. /\ SegmentsDoNotMix' /\ Len(published') = Len(published) + 1
        /\ \A i \in 1..Len(published') :
              /\ published'[i].id <= segmentId
              /\ i <= Len(published) /\ published'[i].id = segmentId => ~published'[i].final
        /\ published'[Len(published) + 1] = p /\ Len(published) \in Nat
    BY <1>1, <1>2, <1>6, <2>1, PublishedInTurn, TextSequences
  <2>3. \A i \in 1..Len(published') : published'[i].id = segmentId => ~published'[i].final
    BY <1>2, <2>2
  <2>4. \A f \in 1..Len(captures') : captures'[f].step = "done" \/ (f = Len(captures') /\ captures'[f].step # "publishes")
    BY <1>1, <1>6 DEF AgentInTurn
  <2>5. flushTask'.runs => flushTask'.id = segmentId /\ ~segmentOpen'
    BY <1>3, <2>1, FlushTypes
  <2> QED BY <1>1, <2>2, <2>3, <2>4, <2>5 DEF AgentInTurn
<1>7. ASSUME ofUser PROVE AgentInTurn' /\ SegmentsDoNotMix'
  BY <1>1, <1>7 DEF AgentInTurn, SegmentsDoNotMix
<1> QED BY <1>4, <1>5, <1>6, <1>7

LEMMA FlushedKeeps == TextInv /\ Flushed => TextInv'
<1> SUFFICES ASSUME TextInv, Flushed PROVE TextInv' OBVIOUS
<1> USE DEF TextInv
<1>1. /\ flushTask.runs /\ flushTask' = NoFlush
      /\ UNCHANGED <<ofUser, legacy, captures, segmentId, segmentOpen, latestText, links>>
  BY DEF Flushed
<1>2. flushTask' \in [runs : BOOLEAN, id : Ids, text : 0..MaxTexts] /\ ~flushTask'.runs
  BY <1>1 DEF NoFlush, Ids
<1> DEFINE p == IF legacy THEN LegacyFinal ELSE StreamFinal
<1>3. p \in PieceType /\ (~ofUser => p.id = segmentId) /\ published' = Append(published, p)
  <2>1. published' = Append(published, p)
    BY DEF Flushed
  <2>2. LegacyFinal \in PieceType /\ StreamFinal \in PieceType
    BY DEF LegacyFinal, StreamFinal, TextTypeOK, PieceType
  <2>3. ~ofUser => LegacyFinal.id = segmentId /\ StreamFinal.id = segmentId
    BY <1>1 DEF AgentInTurn, LegacyFinal, StreamFinal
  <2> QED BY <2>1, <2>2, <2>3
<1> HIDE DEF p
<1>4. TextTypeOK'
  <2>1. published' \in Seq(PieceType)
    BY <1>3, AppendProperties DEF TextTypeOK, PieceType
  <2> QED BY <1>1, <1>2, <2>1 DEF TextTypeOK, PieceType
<1>5. CapturedInOrder'
  BY <1>1 DEF CapturedInOrder
<1>6. ASSUME ~ofUser PROVE AgentInTurn' /\ SegmentsDoNotMix'
  <2>1. ~segmentOpen
    BY <1>1, <1>6 DEF AgentInTurn
  <2>2. /\ SegmentsDoNotMix'
        /\ \A i \in 1..Len(published') : published'[i].id <= segmentId
    BY <1>1, <1>3, <1>6, PublishedInTurn
  <2>3. \A f \in 1..Len(captures) : captures[f].step # "publishes"
    BY <1>1, <1>6, <2>1 DEF AgentInTurn
  <2> QED BY <1>1, <1>2, <1>6, <2>1, <2>2, <2>3 DEF AgentInTurn
<1>7. ASSUME ofUser PROVE AgentInTurn' /\ SegmentsDoNotMix'
  BY <1>1, <1>7 DEF AgentInTurn, SegmentsDoNotMix
<1> QED BY <1>4, <1>5, <1>6, <1>7

\* Only the participant of the user changes.
LEMMA LinkKeeps == TextInv /\ LinkParticipant => TextInv'
<1> SUFFICES ASSUME TextInv, LinkParticipant PROVE TextInv' OBVIOUS
<1> USE DEF TextInv
<1>1. /\ ofUser /\ links < MaxLinks /\ links' = links + 1 /\ FlushSegment /\ segmentId' = segmentId + 1 /\ latestText' = 0
      /\ UNCHANGED <<ofUser, legacy, captures, published>>
  BY DEF LinkParticipant
<1>2. PICK m \in 0..Len(captures) : /\ \A e \in 1..Len(captures) : captures[e].step = "waits" <=> e > m
                                    /\ segmentId <= m + links
  BY DEF CapturedInOrder
<1>3. /\ Len(captures) \in Nat /\ Len(captures) <= MaxTexts /\ segmentId \in Nat /\ links \in Nat
      /\ links' \in 0..MaxLinks /\ segmentId' <= m + links' /\ segmentId' \in Ids
  <2>1. Len(captures) \in Nat /\ Len(captures) <= MaxTexts /\ segmentId \in Nat /\ links \in 0..MaxLinks
    BY TextSequences DEF CapturedInOrder, TextTypeOK, Ids
  <2> QED BY <1>1, <1>2, <2>1 DEF Ids
<1>4. CapturedInOrder'
  BY <1>1, <1>2, <1>3 DEF CapturedInOrder
<1>5. TextTypeOK'
  <2>1. segmentOpen' \in BOOLEAN /\ flushTask' \in [runs : BOOLEAN, id : Ids, text : 0..MaxTexts]
    BY <1>1, FlushTypes
  <2>2. latestText' \in 0..MaxTexts
    BY <1>1
  <2> QED BY <1>1, <1>3, <2>1, <2>2 DEF TextTypeOK
<1>6. AgentInTurn' /\ SegmentsDoNotMix'
  BY <1>1 DEF AgentInTurn, SegmentsDoNotMix
<1> QED BY <1>4, <1>5, <1>6

LEMMA TextNextInv == TextInv /\ [TextNext]_textVars => TextInv'
<1> SUFFICES ASSUME TextInv, [TextNext]_textVars PROVE TextInv' OBVIOUS
<1>1. CASE UNCHANGED textVars
  BY <1>1 DEF textVars, TextInv, TextTypeOK, CapturedInOrder, AgentInTurn, SegmentsDoNotMix
<1> QED
  BY <1>1, TextComesKeeps, FlushedKeeps, LinkKeeps, CaptureKeeps, CapturedKeeps DEF TextNext

----------------------------------------------------------------------------
(* Console *)

USE ConsoleAssumption

ReplyType == [n : 0..MaxConsoleReplies, step : {"idle", "forward", "wait", "clear", "cleared"},
              frames : 0..MaxConsoleFrames, out : BOOLEAN, steady : BOOLEAN, cut : BOOLEAN]

LEMMA ConsoleInitInv == ConsoleInit => ConsoleInv
<1> SUFFICES ASSUME ConsoleInit PROVE ConsoleInv OBVIOUS
<1>1. <<>> \in Seq(1..MaxConsoleReplies) /\ Len(<<>>) = 0 /\ DOMAIN <<>> = {}
  BY EmptySeq
<1>2. ConsoleTypeOK
  <2>1. cleared = {} /\ cBuf = <<>>
    BY DEF ConsoleInit
  <2>2. cReply \in ReplyType /\ cCapturing \in [base : BOOLEAN, sink : BOOLEAN]
    BY DEF ConsoleInit, NoReply, ReplyType
  <2>3. /\ cliMode = "audio" /\ cliTask = "run" /\ speaker \in BOOLEAN /\ typed \in BOOLEAN /\ asked \in BOOLEAN
        /\ cPushed \in BOOLEAN
    BY Zenon DEF ConsoleInit
  <2>4. cSegments \in Nat /\ cFinished \in Nat /\ cTimer \in 0..MaxConsoleReplies
    BY DEF ConsoleInit
  <2> QED BY <1>1, <2>1, <2>2, <2>3, <2>4 DEF ConsoleTypeOK, ReplyType
<1>3. ClearedBefore /\ CutIsSilent
  BY <1>1 DEF ConsoleInit, NoReply, ClearedBefore, CutIsSilent
<1>4. SegmentOwed /\ TimerIsOwn
  BY DEF ConsoleInit, NoReply, SegmentOwed, TimerIsOwn
<1> QED BY <1>2, <1>3, <1>4 DEF ConsoleInv

\* The steps that leave the sink alone.
LEMMA ConsoleKeysKeep ==
    ASSUME ConsoleInv, UNCHANGED sinkVars,
           ConsoleReply \/ ReplyPlayed \/ TalkedOver \/ SwitchMode \/ Type \/ Enter \/ StdinEnds \/ ConsoleCloses
    PROVE  ConsoleInv'
<1> USE DEF ConsoleInv, sinkVars, keyVars
<1>1. ConsoleTypeOK'
  <2>1. cReply' \in ReplyType
    <3> USE DEF ReplyType, ConsoleTypeOK
    <3>1. CASE ConsoleReply
      BY <3>1 DEF ConsoleReply
    <3>2. CASE ReplyPlayed \/ TalkedOver
      BY <3>2 DEF ReplyPlayed, TalkedOver, Cut
    <3>3. CASE Enter
      BY <3>3 DEF Enter, Cut
    <3>4. CASE SwitchMode \/ Type \/ StdinEnds \/ ConsoleCloses
      BY <3>4 DEF SwitchMode, Type, StdinEnds, ConsoleCloses
    <3> QED BY <3>1, <3>2, <3>3, <3>4
  <2>2. /\ cliMode' \in {"audio", "text"} /\ cliTask' \in {"run", "ended", "closed"}
        /\ speaker' \in BOOLEAN /\ typed' \in BOOLEAN /\ asked' \in BOOLEAN
    BY Zenon DEF ConsoleTypeOK, ConsoleReply, ReplyPlayed, TalkedOver, SwitchMode, Type, Enter, StdinEnds, ConsoleCloses
  <2> QED BY <2>1, <2>2 DEF ReplyType, ConsoleTypeOK
<1>2. \/ cReply' = cReply
      \/ /\ cReply'.n = cReply.n /\ cReply'.out = cReply.out /\ cReply'.step = cReply.step
      \/ /\ cReply'.n = cReply.n /\ cReply'.out = cReply.out /\ cReply'.step = "idle"
         /\ \/ cReply.step = "cleared"
            \/ cReply.step = "wait" /\ (cReply.out => cFinished >= cSegments)
      \/ /\ cReply.step = "idle" /\ cReply'.n = cReply.n + 1 /\ cReply'.step = "forward"
  <2>1. CASE ConsoleReply
    BY <2>1 DEF ConsoleReply
  <2>2. CASE ReplyPlayed
    BY <2>2 DEF ReplyPlayed, ConsoleTypeOK
  <2>3. CASE TalkedOver
    BY <2>3 DEF TalkedOver, Cut, ConsoleTypeOK
  <2>4. CASE Enter
    BY <2>4 DEF Enter, Cut, ConsoleTypeOK
  <2>5. CASE SwitchMode \/ Type \/ StdinEnds \/ ConsoleCloses
    BY <2>5 DEF SwitchMode, Type, StdinEnds, ConsoleCloses
  <2> QED BY <2>1, <2>2, <2>3, <2>4, <2>5
<1>3. /\ cReply.n \in Nat /\ cReply'.n \in Nat /\ cSegments \in Nat /\ cFinished \in Nat
      /\ DOMAIN cBuf = 1..Len(cBuf) /\ \A i \in DOMAIN cBuf : cBuf[i] \in Nat
      /\ \A r \in cleared : r \in Nat
  BY <1>1, LenProperties, ElementOfSeq DEF ConsoleTypeOK
<1>4. ClearedBefore' /\ CutIsSilent'
  BY <1>2, <1>3 DEF ClearedBefore, CutIsSilent
<1>5. SegmentOwed' /\ TimerIsOwn'
  BY <1>2, <1>3 DEF SegmentOwed, TimerIsOwn
<1> QED BY <1>1, <1>4, <1>5

LEMMA ReplyFrameKeeps == ConsoleInv /\ ReplyFrame => ConsoleInv'
<1> SUFFICES ASSUME ConsoleInv, ReplyFrame PROVE ConsoleInv' OBVIOUS
<1> USE DEF ConsoleInv, ReplyFrame, ConsoleCapture, keyVars
<1>1. cReply.n \in 1..MaxConsoleReplies
  BY DEF ConsoleTypeOK, ClearedBefore
<1>2. /\ cBuf' \in Seq(1..MaxConsoleReplies) /\ DOMAIN cBuf' = 1..(Len(cBuf) + 1) /\ Len(cBuf) \in Nat
      /\ \A i \in 1..Len(cBuf) : cBuf'[i] = cBuf[i]
      /\ cBuf'[Len(cBuf) + 1] = cReply.n
      /\ DOMAIN cBuf = 1..Len(cBuf)
  BY <1>1, AppendProperties, LenProperties DEF ConsoleTypeOK
<1>3. /\ ConsoleTypeOK' /\ cReply'.n = cReply.n /\ cReply'.step = "forward" /\ cReply'.out = cReply.out
      /\ cReply.step = "forward" /\ cReply.out
  <2> DEFINE f == cReply.frames + 1
  <2>1. f \in 0..MaxConsoleFrames /\ cReply' = [cReply EXCEPT !.frames = f]
    BY DEF ConsoleTypeOK
  <2> HIDE DEF f
  <2>2. cReply' \in ReplyType /\ cReply'.n = cReply.n /\ cReply'.step = cReply.step /\ cReply'.out = cReply.out
    BY <2>1 DEF ReplyType, ConsoleTypeOK
  <2>3. cSegments' \in Nat /\ cPushed' \in BOOLEAN /\ cCapturing' \in [base : BOOLEAN, sink : BOOLEAN]
    BY DEF ConsoleTypeOK
  <2> QED BY <1>2, <2>2, <2>3 DEF ConsoleTypeOK, ReplyType
<1>4. ASSUME NEW i \in DOMAIN cBuf' PROVE cBuf'[i] <= cReply.n /\ cBuf'[i] \notin cleared
  BY <1>1, <1>2 DEF ClearedBefore, CutIsSilent
<1>5. ClearedBefore' /\ CutIsSilent'
  BY <1>3, <1>4 DEF ClearedBefore, CutIsSilent
<1>6. SegmentOwed' /\ TimerIsOwn'
  BY <1>3 DEF ConsoleTypeOK, SegmentOwed, TimerIsOwn
<1> QED BY <1>3, <1>5, <1>6

LEMMA ReplyForwardedKeeps == ConsoleInv /\ ReplyForwarded => ConsoleInv'
<1> SUFFICES ASSUME ConsoleInv, ReplyForwarded PROVE ConsoleInv' OBVIOUS
<1> USE DEF ConsoleInv, ReplyForwarded, ConsoleFlush, keyVars, sinkVars
<1>1. /\ cReply' \in ReplyType /\ cReply'.n = cReply.n /\ cReply'.out = cReply.out
      /\ cReply'.step \in {"clear", "wait"} /\ cReply.step \in {"forward", "wait"}
      /\ UNCHANGED <<cSegments, cFinished, cPushed, cBuf, cleared>>
  <2> DEFINE s == IF cReply.cut THEN "clear" ELSE "wait"
  <2>1. s \in {"clear", "wait"} /\ cReply' = [cReply EXCEPT !.step = s]
    OBVIOUS
  <2>2. UNCHANGED <<cSegments, cFinished, cPushed, cBuf, cleared>> /\ cReply.step \in {"forward", "wait"}
    OBVIOUS
  <2> HIDE DEF s
  <2> QED BY <2>1, <2>2 DEF ReplyType, ConsoleTypeOK
<1>2. \/ /\ cReply.step = "forward" /\ cReply.out /\ cCapturing' = [base |-> FALSE, sink |-> FALSE]
         /\ cTimer' = IF cCapturing.sink THEN cReply.n ELSE cTimer
      \/ UNCHANGED <<cCapturing, cTimer>> /\ (cReply.step = "wait" \/ ~cReply.out)
  BY <1>1
<1>3. cReply.n \in 1..MaxConsoleReplies
  BY <1>1 DEF ClearedBefore, ConsoleTypeOK
<1>4. ConsoleTypeOK'
  <2>1. cCapturing' \in [base : BOOLEAN, sink : BOOLEAN]
    <3>1. cCapturing \in [base : BOOLEAN, sink : BOOLEAN]
      BY DEF ConsoleTypeOK
    <3> HIDE DEF ConsoleInv, ReplyForwarded, ConsoleFlush
    <3>2. CASE cCapturing' = [base |-> FALSE, sink |-> FALSE]
      BY <3>2
    <3>3. CASE cCapturing' = cCapturing
      BY <3>1, <3>3
    <3> QED BY <1>2, <3>2, <3>3
  <2>2. cTimer' \in 0..MaxConsoleReplies
    BY <1>2, <1>3 DEF ConsoleTypeOK
  <2>3. UNCHANGED <<cliMode, cliTask, speaker, typed, asked>>
    OBVIOUS
  <2> QED BY <1>1, <2>1, <2>2, <2>3 DEF ConsoleTypeOK, ReplyType
<1>5. ClearedBefore' /\ CutIsSilent'
  BY <1>1 DEF ClearedBefore, CutIsSilent
<1>6. SegmentOwed' /\ TimerIsOwn'
  <2> HIDE DEF ConsoleInv, ReplyForwarded
  <2>1. SegmentOwed /\ TimerIsOwn
    BY DEF ConsoleInv
  <2> QED BY <1>1, <1>2, <1>3, <2>1 DEF SegmentOwed, TimerIsOwn
<1> QED BY <1>4, <1>5, <1>6

LEMMA ReplyClearsKeeps == ConsoleInv /\ ReplyClears => ConsoleInv'
<1> SUFFICES ASSUME ConsoleInv, ReplyClears PROVE ConsoleInv' OBVIOUS
<1>0. <<>> \in Seq(1..MaxConsoleReplies) /\ DOMAIN <<>> = {}
  BY EmptySeq
<1>1. ConsoleTypeOK /\ ClearedBefore /\ CutIsSilent /\ SegmentOwed /\ TimerIsOwn
  BY DEF ConsoleInv
<1>2. /\ cReply.step = "clear" /\ cReply' \in ReplyType /\ cReply'.n = cReply.n /\ cReply'.step = "cleared"
      /\ cReply'.out = cReply.out
      /\ UNCHANGED <<cliMode, cliTask, speaker, typed, asked, cSegments>>
  BY <1>1 DEF ReplyClears, ConsoleClear, ConsoleTypeOK, ReplyType, keyVars, sinkVars
<1>3. cReply.n \in 1..MaxConsoleReplies
  BY <1>1, <1>2 DEF ConsoleTypeOK, ClearedBefore
<1>4. CASE ~cReply.out
  <2>1. UNCHANGED <<cFinished, cCapturing, cPushed, cTimer, cBuf, cleared>>
    BY <1>4 DEF ReplyClears, sinkVars
  <2>2. ConsoleTypeOK'
    BY <1>1, <1>2, <2>1 DEF ConsoleTypeOK, ReplyType
  <2>3. ClearedBefore' /\ CutIsSilent'
    BY <1>1, <1>2, <2>1 DEF ClearedBefore, CutIsSilent
  <2>4. SegmentOwed' /\ TimerIsOwn'
    BY <1>1, <1>2, <1>4, <2>1 DEF SegmentOwed, TimerIsOwn
  <2> QED BY <2>2, <2>3, <2>4 DEF ConsoleInv
<1>5. CASE cReply.out
  <2>1. /\ cCapturing' = [cCapturing EXCEPT !.sink = FALSE]
        /\ cBuf' = <<>> /\ cleared' = cleared \cup {cReply.n}
    BY <1>5 DEF ReplyClears, ConsoleClear
  <2>2. IF cPushed THEN CountFinished /\ cTimer' = 0 /\ cPushed' = FALSE ELSE UNCHANGED <<cFinished, cTimer, cPushed>>
    BY <1>5 DEF ReplyClears, ConsoleClear
  <2>3. cCapturing'.base = cCapturing.base /\ cCapturing'.sink = FALSE /\ cCapturing' \in [base : BOOLEAN, sink : BOOLEAN]
    BY <1>1, <2>1 DEF ConsoleTypeOK
  <2>4. /\ cPushed => cFinished' = cSegments /\ cTimer' = 0 /\ ~cPushed'
        /\ ~cPushed => cFinished' = cFinished /\ cTimer' = cTimer /\ ~cPushed'
    BY <1>1, <2>2 DEF CountFinished, ConsoleTypeOK, SegmentOwed
  <2>5. cFinished' \in Nat /\ cTimer' \in 0..MaxConsoleReplies
    BY <1>1, <2>4 DEF ConsoleTypeOK
  <2>6. cPushed' \in BOOLEAN
    BY <1>1, <2>2, Zenon DEF ConsoleTypeOK
  <2>7. cBuf' \in Seq(1..MaxConsoleReplies) /\ cleared' \subseteq 1..MaxConsoleReplies
    BY <1>0, <1>1, <1>3, <2>1 DEF ConsoleTypeOK
  <2>8. ConsoleTypeOK'
    BY <1>1, <1>2, <2>3, <2>5, <2>6, <2>7 DEF ConsoleTypeOK, ReplyType
  <2>9. ClearedBefore' /\ CutIsSilent'
    BY <1>0, <1>1, <1>2, <1>3, <2>1 DEF ConsoleTypeOK, ClearedBefore, CutIsSilent
  <2>10. SegmentOwed' /\ TimerIsOwn'
    BY <1>1, <1>2, <2>3, <2>4 DEF ConsoleTypeOK, SegmentOwed, TimerIsOwn
  <2> QED BY <2>8, <2>9, <2>10 DEF ConsoleInv
<1> QED BY <1>4, <1>5

LEMMA ConsolePlaysKeep == ConsoleInv /\ (ConsoleTimer \/ DevicePlays) => ConsoleInv'
<1> SUFFICES ASSUME ConsoleInv, ConsoleTimer \/ DevicePlays PROVE ConsoleInv' OBVIOUS
<1>0. ConsoleTypeOK /\ ClearedBefore /\ CutIsSilent /\ SegmentOwed /\ TimerIsOwn
  BY DEF ConsoleInv
<1>1. CASE ConsoleTimer
  <2>1. /\ cTimer # 0 /\ cTimer' = 0 /\ ~cPushed' /\ cPushed' \in BOOLEAN /\ CountFinished
        /\ UNCHANGED <<cSegments, cCapturing, cBuf, cleared, cliMode, cliTask, speaker, typed, asked, cReply>>
    BY <1>1, Zenon DEF ConsoleTimer, keyVars
  <2>2. cFinished' = cSegments
    BY <1>0, <2>1 DEF CountFinished, ConsoleTypeOK, SegmentOwed
  <2>3. ConsoleTypeOK'
    BY <1>0, <2>1, <2>2 DEF ConsoleTypeOK
  <2>4. ClearedBefore' /\ CutIsSilent'
    BY <1>0, <2>1 DEF ClearedBefore, CutIsSilent
  <2>5. SegmentOwed' /\ TimerIsOwn'
    BY <1>0, <2>1, <2>2 DEF ConsoleTypeOK, SegmentOwed, TimerIsOwn
  <2> QED BY <2>3, <2>4, <2>5 DEF ConsoleInv
<1>2. CASE DevicePlays
  <2>1. /\ cBuf' \in Seq(1..MaxConsoleReplies) /\ DOMAIN cBuf' = 1..(Len(cBuf) - 1)
        /\ Len(cBuf) \in Nat /\ DOMAIN cBuf = 1..Len(cBuf)
        /\ \A i \in DOMAIN cBuf' : cBuf'[i] = cBuf[i + 1]
    BY <1>0, <1>2, HeadTailProperties, LenProperties DEF DevicePlays, ConsoleTypeOK
  <2>2. UNCHANGED <<cSegments, cFinished, cCapturing, cPushed, cTimer, cleared, cliMode, cliTask, speaker, typed, asked, cReply>>
    BY <1>2 DEF DevicePlays, keyVars
  <2>3. ConsoleTypeOK'
    BY <1>0, <2>1, <2>2 DEF ConsoleTypeOK
  <2>4. ClearedBefore' /\ CutIsSilent'
    <3>1. ASSUME NEW i \in DOMAIN cBuf' PROVE cBuf'[i] <= cReply.n /\ cBuf'[i] \notin cleared
      <4>1. i + 1 \in DOMAIN cBuf /\ cBuf'[i] = cBuf[i + 1]
        BY <2>1
      <4> QED BY <1>0, <4>1 DEF ClearedBefore, CutIsSilent
    <3> QED BY <1>0, <2>2, <3>1 DEF ClearedBefore, CutIsSilent
  <2>5. SegmentOwed' /\ TimerIsOwn'
    BY <1>0, <2>2 DEF SegmentOwed, TimerIsOwn
  <2> QED BY <2>3, <2>4, <2>5 DEF ConsoleInv
<1> QED BY <1>1, <1>2

LEMMA ConsoleNextInv == ConsoleInv /\ [ConsoleNext]_consoleVars => ConsoleInv'
<1> SUFFICES ASSUME ConsoleInv, [ConsoleNext]_consoleVars PROVE ConsoleInv' OBVIOUS
<1>1. CASE UNCHANGED consoleVars
  BY <1>1 DEF consoleVars, ConsoleInv, ConsoleTypeOK, ClearedBefore, CutIsSilent, SegmentOwed, TimerIsOwn
<1>2. CASE ConsoleReply \/ ReplyPlayed \/ TalkedOver \/ SwitchMode \/ Type \/ Enter \/ StdinEnds \/ ConsoleCloses
  <2>1. UNCHANGED sinkVars
    BY <1>2 DEF ConsoleReply, ReplyPlayed, TalkedOver, SwitchMode, Type, Enter, StdinEnds, ConsoleCloses
  <2> QED BY <1>2, <2>1, ConsoleKeysKeep
<1> QED
  BY <1>1, <1>2, ReplyFrameKeeps, ReplyForwardedKeeps, ReplyClearsKeeps, ConsolePlaysKeep DEF ConsoleNext

LEMMA ConsoleSafe == ConsoleInv => ConsoleTypeOK /\ CutIsSilent /\ TimerIsOwn /\ ConsoleCounts
BY DEF ConsoleInv, ConsoleTypeOK, SegmentOwed, TimerIsOwn, ConsoleCounts

\* A reply that is over owes no playout and leaves no interruption to the next, an avatar has played the
\* whole of one nobody interrupted, the pieces published of two segments do not mix, nothing that was cut
\* is heard in the console, and its timer ends only its own segment: whoever interrupts when, however the
\* synchronizer rotates, requests and notifications cross and participants change (generation.py, io.py,
\* synchronizer.py, avatar/, _output.py, chat_cli.py).
THEOREM OutputsAreWhole == PlayoutSpec /\ AvatarSpec /\ TextSpec /\ ConsoleSpec => []OutputSafe
<1>1. PlayoutSpec => []PlayoutInv
  BY PlayoutInitInv, PlayoutNextInv, PTL DEF PlayoutSpec
<1>2. AvatarSpec => []AvatarInv
  BY AvatarInitInv, AvatarNextInv, PTL DEF AvatarSpec
<1>3. TextSpec => []TextInv
  BY TextInitInv, TextNextInv, PTL DEF TextSpec
<1>4. ConsoleSpec => []ConsoleInv
  BY ConsoleInitInv, ConsoleNextInv, PTL DEF ConsoleSpec
<1>5. PlayoutInv /\ AvatarInv /\ TextInv /\ ConsoleInv => OutputSafe
  <2> SUFFICES ASSUME PlayoutInv, AvatarInv, TextInv, ConsoleInv PROVE OutputSafe
    OBVIOUS
  <2>1. PlayoutTypeOK /\ NoPlayoutOwed /\ InterruptionIsOwn
    BY DEF PlayoutInv
  <2>2. AvatarTypeOK /\ AvatarPlaysWhole /\ TextTypeOK /\ SegmentsDoNotMix
    BY DEF AvatarInv, TextInv
  <2>3. ConsoleTypeOK /\ CutIsSilent /\ TimerIsOwn /\ ConsoleCounts
    BY ConsoleSafe
  <2> QED BY <2>1, <2>2, <2>3 DEF OutputSafe
<1> QED BY <1>1, <1>2, <1>3, <1>4, <1>5, PTL

=============================================================================
