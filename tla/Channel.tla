------------------------------- MODULE Channel -------------------------------
(***************************************************************************)
(* A channel (utils/aio/channel.py) with tasks that send one value each    *)
(* and tasks that receive for ever, any of which may be cancelled while it *)
(* waits.  A waiter is a future in one of two queues; cancelling its task  *)
(* cancels the future at once, and the task handles it later.              *)
(***************************************************************************)
EXTENDS Naturals, Sequences, FiniteSets, SequencesExt

CONSTANTS
    Senders, Receivers, \* the tasks
    MaxSize,            \* maxsize of the channel
    MaxCancelled        \* how many waits are cancelled (a bound)

ASSUME ChannelAssumption ==
    MaxSize \in Nat \ {0} /\ MaxCancelled \in Nat /\ Senders \cap Receivers = {}

VARIABLES
    futures,            \* the waiters ever made: [owner, state: pending, woken, cancelled, closed]
    gets, puts,         \* _gets, _puts: indices in futures
    chan, chanClosed,   \* _queue, _close_ev
    task,               \* of each task, [step: idle, waits, cancelling, sent, raised, cancelled; future]
    accepted, taken     \* history: the values sent, the number received

chanVars == <<futures, gets, puts, chan, chanClosed, task, accepted, taken>>

ChanTypeOK ==
    /\ \A i \in DOMAIN futures : futures[i].state \in {"pending", "woken", "cancelled", "closed"}
    /\ {gets[i] : i \in DOMAIN gets} \cup {puts[i] : i \in DOMAIN puts} \subseteq DOMAIN futures
    /\ Len(chan) <= MaxSize /\ chanClosed \in BOOLEAN

ChanInit ==
    /\ futures = <<>> /\ gets = <<>> /\ puts = <<>> /\ chan = <<>> /\ chanClosed = FALSE
    /\ task = [t \in Senders \cup Receivers |-> [step |-> "idle", future |-> 0]]
    /\ accepted = <<>> /\ taken = 0

----------------------------------------------------------------------------
Full == Len(chan) >= MaxSize

\* _wakeup_next: the first waiter that is not done, the done ones before it leave the queue.
FirstPending(queue, f) == SelectInSeq(queue, LAMBDA i : f[i].state = "pending")
LeftAfterWake(queue, f) ==
    LET n == FirstPending(queue, f) IN IF n = 0 THEN <<>> ELSE SubSeq(queue, n + 1, Len(queue))
Woken(queue, f) ==
    LET n == FirstPending(queue, f) IN IF n = 0 THEN f ELSE [f EXCEPT ![queue[n]].state = "woken"]

Finished(t, step) == task' = [task EXCEPT ![t] = [step |-> step, future |-> 0]]

\* A new waiter of t.
Wait(t) ==
    /\ futures' = Append(futures, [owner |-> t, state |-> "pending"])
    /\ task' = [task EXCEPT ![t] = [step |-> "waits", future |-> Len(futures) + 1]]

\* The task was woken, or runs for the first time.
TaskRuns(t) == task[t].step = "idle" \/ (task[t].step = "waits" /\ futures[task[t].future].state = "woken")

\* send_nowait(), a full channel raises before a closed one does.
SendNow(s) ==
    IF Full \/ chanClosed
    THEN Finished(s, "raised") /\ UNCHANGED <<futures, gets, chan, accepted>>
    ELSE /\ Finished(s, "sent")
         /\ chan' = Append(chan, s) /\ accepted' = Append(accepted, s)
         /\ gets' = LeftAfterWake(gets, futures) /\ futures' = Woken(gets, futures)

\* send(): a full channel is waited for, again if it is full again.
Send(s) ==
    /\ TaskRuns(s)
    /\ IF Full /\ ~chanClosed
       THEN Wait(s) /\ puts' = Append(puts, Len(futures) + 1) /\ UNCHANGED <<gets, chan, accepted>>
       ELSE SendNow(s) /\ UNCHANGED puts
    /\ UNCHANGED <<chanClosed, taken>>

\* recv() and recv_nowait().
Receive(r) ==
    /\ TaskRuns(r)
    /\ IF chan # <<>>
       THEN /\ chan' = Tail(chan) /\ taken' = taken + 1
            /\ Finished(r, "idle")
            /\ puts' = LeftAfterWake(puts, futures) /\ futures' = Woken(puts, futures)
            /\ UNCHANGED gets
       ELSE IF chanClosed
       THEN Finished(r, "raised") /\ UNCHANGED <<futures, gets, puts, chan, taken>>
       ELSE Wait(r) /\ gets' = Append(gets, Len(futures) + 1) /\ UNCHANGED <<puts, chan, taken>>
    /\ UNCHANGED <<chanClosed, accepted>>

\* The channel was closed under a waiter.
ClosedUnder(t) ==
    /\ task[t].step = "waits" /\ futures[task[t].future].state = "closed"
    /\ Finished(t, "raised")
    /\ UNCHANGED <<futures, gets, puts, chan, chanClosed, accepted, taken>>

\* The task of a waiter is cancelled, maybe just after it was woken.
Cancel(t) ==
    /\ task[t].step = "waits" /\ MaxCancelled > Cardinality({i \in DOMAIN futures : futures[i].state = "cancelled"})
    /\ task' = [task EXCEPT ![t].step = "cancelling"]
    /\ futures' = [futures EXCEPT ![task[t].future].state = IF @ = "pending" THEN "cancelled" ELSE @]
    /\ UNCHANGED <<gets, puts, chan, chanClosed, accepted, taken>>

\* Mutant: the wake-up of a cancelled sender is not passed on.
SendCancelledSilently(s) ==
    /\ task[s].step = "cancelling"
    /\ puts' = RemoveFirst(puts, task[s].future)
    /\ Finished(s, "cancelled")
    /\ UNCHANGED <<futures, gets, chan, chanClosed, accepted, taken>>

\* The handler of send(): a wake-up that came too late is passed on.
SendCancelled(s) ==
    /\ task[s].step = "cancelling"
    /\ LET rest == RemoveFirst(puts, task[s].future)
           passOn == ~Full /\ futures[task[s].future].state # "cancelled"
       IN /\ puts' = IF passOn THEN LeftAfterWake(rest, futures) ELSE rest
          /\ futures' = IF passOn THEN Woken(rest, futures) ELSE futures
    /\ Finished(s, "cancelled")
    /\ UNCHANGED <<gets, chan, chanClosed, accepted, taken>>

\* The handler of recv() is for exceptions, which a cancellation is not: nothing is passed on, and
\* the future stays in the queue.  The task may receive again.
ReceiveCancelled(r) ==
    /\ task[r].step = "cancelling"
    /\ Finished(r, "idle")
    /\ UNCHANGED <<futures, gets, puts, chan, chanClosed, accepted, taken>>

\* Mutant: the receivers are not woken by the end of the channel.
CloseSendersOnly ==
    /\ ~chanClosed
    /\ chanClosed' = TRUE
    /\ futures' = [i \in DOMAIN futures |->
                      IF futures[i].state = "pending" /\ \E n \in DOMAIN puts : puts[n] = i
                      THEN [futures[i] EXCEPT !.state = "closed"] ELSE futures[i]]
    /\ UNCHANGED <<gets, puts, chan, task, accepted, taken>>

\* close(): the senders that wait are refused, the receivers too but as many as there are values.
Close ==
    /\ ~chanClosed
    /\ chanClosed' = TRUE
    /\ LET stay == SubSeq(gets, 1, IF Len(gets) > Len(chan) THEN Len(chan) ELSE Len(gets))
           refused == {puts[n] : n \in DOMAIN puts} \cup {gets[n] : n \in (Len(stay) + 1)..Len(gets)}
       IN futures' = [i \in DOMAIN futures |->
                         IF futures[i].state # "pending" THEN futures[i]
                         ELSE IF i \in refused THEN [futures[i] EXCEPT !.state = "closed"]
                         ELSE IF \E n \in DOMAIN stay : stay[n] = i
                         THEN [futures[i] EXCEPT !.state = "woken"] ELSE futures[i]]
    /\ gets' = <<>>
    /\ UNCHANGED <<puts, chan, task, accepted, taken>>

ChanNext ==
    \/ \E s \in Senders : Send(s) \/ SendCancelled(s)
    \/ \E r \in Receivers : Receive(r) \/ ReceiveCancelled(r)
    \/ \E t \in Senders \cup Receivers : ClosedUnder(t) \/ Cancel(t)
    \/ Close

\* A task that is woken, or told, runs.
ChanFairness ==
    /\ \A s \in Senders : WF_chanVars(Send(s)) /\ WF_chanVars(SendCancelled(s))
    /\ \A r \in Receivers : WF_chanVars(Receive(r)) /\ WF_chanVars(ReceiveCancelled(r))
    /\ \A t \in Senders \cup Receivers : WF_chanVars(ClosedUnder(t))

ChanSpec == ChanInit /\ [][ChanNext]_chanVars /\ ChanFairness

----------------------------------------------------------------------------
(* Properties *)

Running(t) == task[t].step = "cancelling" \/ TaskRuns(t)
Pending(queue) == FirstPending(queue, futures) # 0

\* No wake-up is lost among the senders: while one waits, the channel is full, or another has a
\* wake-up to use or to pass on, whatever was cancelled or refused meanwhile (channel.py:78).
NoSenderForgotten == Pending(puts) /\ ~chanClosed => Full \/ \E s \in Senders : Running(s)

\* What cannot last: a channel that is closed, and a task that waits on it (channel.py:158-171).
ChannelPending == chanClosed /\ \E t \in Senders \cup Receivers : task[t].step = "waits"

=============================================================================
