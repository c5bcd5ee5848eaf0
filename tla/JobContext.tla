----------------------------- MODULE JobContext -----------------------------
(***************************************************************************)
(* What a job is told of the participants of its room: the entrypoints     *)
(* that are run for each, the futures of wait_for_participant(), and the   *)
(* tracks it is subscribed to, as participants come, leave and come back   *)
(* under the same identity.  (job.py)  The room is external.  The job runs *)
(* in a worker that may be reloaded: see Reload.                           *)
(***************************************************************************)
EXTENDS Reload, SequencesExt

CONSTANTS Identities,               \* of participants
          Entrypoints, Waiters,     \* entrypoint functions, and calls of wait_for_participant(), numbered
          MaxJoins                  \* how often participants join (a bound)

ASSUME JobContextAssumption == IsFiniteSet(Identities) /\ {Entrypoints, Waiters} \subseteq SUBSET Nat /\ MaxJoins \in Nat

VARIABLES
    connected, early,   \* and how many entrypoints there were when it did
    present,            \* who is in the room: [identity -> the number of the join, 0 for absent]
    published,          \* who has published an audio track
    joins,              \* how many joins there were
    entrypoints,        \* _participant_entrypoints
    participantTasks,   \* _participant_tasks: [<<identity, entrypoint>> -> a task, 0 for none]
    startedTasks,       \* [identity, entrypoint, join, done]
    waiter,             \* [state: none, waits, told; identity or AnyOne; join]
    onPublished,        \* the handler of track_published is registered
    subscribed          \* whose track was subscribed to
ctxVars == <<connected, early, present, published, joins, entrypoints, participantTasks, startedTasks, waiter, onPublished,
             subscribed>>

AnyOne == "any"
Keys == Identities \X Entrypoints

JobContextTypeOK ==
    /\ {connected, onPublished} \subseteq BOOLEAN /\ present \in [Identities -> 0..MaxJoins] /\ joins \in 0..MaxJoins
    /\ published \subseteq Identities /\ subscribed \subseteq Identities /\ early \in 0..Len(entrypoints)
    /\ ToSet(entrypoints) \subseteq Entrypoints /\ DOMAIN participantTasks = Keys
    /\ \A k \in Keys : participantTasks[k] \in 0..Len(startedTasks)
    /\ \A t \in DOMAIN startedTasks : startedTasks[t].join \in 1..MaxJoins
    /\ \A w \in Waiters : waiter[w].state \in {"none", "waits", "told"}

JobContextInit ==
    /\ connected = FALSE /\ early = 0 /\ present = [p \in Identities |-> 0] /\ published = {} /\ joins = 0
    /\ entrypoints = <<>> /\ participantTasks = [k \in Keys |-> 0] /\ startedTasks = <<>>
    /\ waiter = [w \in Waiters |-> [state |-> "none", identity |-> AnyOne, join |-> 0]]
    /\ onPublished = FALSE /\ subscribed = {}

----------------------------------------------------------------------------
(* The context *)

\* _participant_available(), for the participants of the sequence, one after the other: a task for each
\* entrypoint, under the identity and the entrypoint.
Available(who, joined) ==
    LET tasks == FlattenSeq([k \in DOMAIN who |->
                     [e \in DOMAIN entrypoints |-> [identity |-> who[k], entrypoint |-> entrypoints[e],
                                                    join |-> joined[who[k]], done |-> FALSE]]])
        NumberOf(key) == CHOOSE t \in DOMAIN tasks : <<tasks[t].identity, tasks[t].entrypoint>> = key
    IN /\ startedTasks' = startedTasks \o tasks
       /\ participantTasks' = [key \in Keys |->
              IF key[1] \in ToSet(who) /\ key[2] \in ToSet(entrypoints)
                THEN Len(startedTasks) + NumberOf(key) ELSE participantTasks[key]]

AddParticipantEntrypoint(e) ==
    /\ e \notin ToSet(entrypoints) /\ entrypoints' = Append(entrypoints, e)
    /\ UNCHANGED <<connected, early, present, published, joins, participantTasks, startedTasks, waiter, onPublished, subscribed>>

InRoom == SetToSeq({p \in Identities : present[p] # 0})

\* Mutant: who is in the room already is told nothing of.
ConnectTellsNobody ==
    /\ ~connected /\ connected' = TRUE /\ early' = Len(entrypoints)
    /\ onPublished' = TRUE /\ subscribed' = {p \in published : present[p] # 0}
    /\ UNCHANGED <<present, published, joins, entrypoints, waiter, participantTasks, startedTasks>>

\* connect(): then the participants who are in the room, and their tracks.
Connect ==
    /\ ~connected /\ connected' = TRUE /\ early' = Len(entrypoints)
    /\ Available(InRoom, present)
    /\ onPublished' = TRUE /\ subscribed' = {p \in published : present[p] # 0}
    /\ UNCHANGED <<present, published, joins, entrypoints, waiter>>

\* A task is over: its callback was made in a loop, and takes away the key of the last entrypoint of the loop.
\* (If there is none, the callback raises KeyError, which is logged.)
TaskDone(t) ==
    /\ t \in DOMAIN startedTasks /\ ~startedTasks[t].done
    /\ startedTasks' = [startedTasks EXCEPT ![t].done = TRUE]
    /\ \E last \in {CHOOSE e \in Entrypoints :
                       \E u \in DOMAIN startedTasks :
                           /\ startedTasks[u].entrypoint = e /\ startedTasks[u].join = startedTasks[t].join
                           /\ \A v \in DOMAIN startedTasks : startedTasks[v].join = startedTasks[t].join => v <= u} :
           participantTasks' = [participantTasks EXCEPT ![<<startedTasks[t].identity, last>>] = 0]
    /\ UNCHANGED <<connected, early, present, published, joins, entrypoints, waiter, onPublished, subscribed>>

Matches(w, p) == waiter[w].identity \in {AnyOne, p}

\* Mutant: only the next to come.
WaitForNext(w, identity) ==
    /\ connected /\ waiter[w].state = "none"
    /\ waiter' = [waiter EXCEPT ![w] = [state |-> "waits", identity |-> identity, join |-> 0]]
    /\ UNCHANGED <<connected, early, present, published, joins, entrypoints, participantTasks, startedTasks, onPublished, subscribed>>

\* wait_for_participant(): who is in the room, or the next to come.
WaitForParticipant(w, identity) ==
    /\ connected /\ waiter[w].state = "none"
    /\ LET there == {p \in Identities : present[p] # 0 /\ identity \in {AnyOne, p}}
       IN waiter' = [waiter EXCEPT ![w] =
              IF there = {} THEN [state |-> "waits", identity |-> identity, join |-> 0]
              ELSE [state |-> "told", identity |-> identity, join |-> present[CHOOSE p \in there : TRUE]]]
    /\ UNCHANGED <<connected, early, present, published, joins, entrypoints, participantTasks, startedTasks, onPublished, subscribed>>

----------------------------------------------------------------------------
(* The room *)

\* A participant joins: the context is told, and who waits for it.
Joins(p) ==
    /\ present[p] = 0 /\ joins < MaxJoins /\ joins' = joins + 1
    /\ present' = [present EXCEPT ![p] = joins + 1]
    /\ IF connected
         THEN /\ Available(<<p>>, present')
              /\ waiter' = [w \in Waiters |->
                    IF waiter[w].state = "waits" /\ Matches(w, p)
                      THEN [waiter[w] EXCEPT !.state = "told", !.join = joins + 1] ELSE waiter[w]]
         ELSE UNCHANGED <<participantTasks, startedTasks, waiter>>
    /\ UNCHANGED <<connected, early, published, entrypoints, onPublished, subscribed>>

Leaves(p) ==
    /\ present[p] # 0 /\ present' = [present EXCEPT ![p] = 0]
    /\ published' = published \ {p} /\ subscribed' = subscribed \ {p}
    /\ UNCHANGED <<connected, early, joins, entrypoints, participantTasks, startedTasks, waiter, onPublished>>

\* A track is published: the handler subscribes to it.
TrackPublished(p) ==
    /\ present[p] # 0 /\ p \notin published /\ published' = published \cup {p}
    /\ subscribed' = IF connected /\ onPublished THEN subscribed \cup {p} ELSE subscribed
    /\ UNCHANGED <<connected, early, present, joins, entrypoints, participantTasks, startedTasks, waiter, onPublished>>

JobContextNext ==
    \/ Connect
    \/ \E e \in Entrypoints : AddParticipantEntrypoint(e)
    \/ \E t \in DOMAIN startedTasks : TaskDone(t)
    \/ \E w \in Waiters, identity \in Identities \cup {AnyOne} : WaitForParticipant(w, identity)
    \/ \E p \in Identities : Joins(p) \/ Leaves(p) \/ TrackPublished(p)

JobContextSpec == JobContextInit /\ [][JobContextNext]_ctxVars

----------------------------------------------------------------------------
(* Properties *)

TasksOf(join, e) == {t \in DOMAIN startedTasks : startedTasks[t].join = join /\ startedTasks[t].entrypoint = e}

\* Everyone who joins is handed to an entrypoint at most once; who is in the room is handed to all that there
\* were when the job connected, though they joined before; but not to an entrypoint that was added while they
\* were there, which job.py:250 promises.
EveryoneIsWelcomed ==
    /\ \A join \in 1..joins, e \in Entrypoints : Cardinality(TasksOf(join, e)) <= 1
    /\ \A p \in Identities, k \in 1..early :
         connected /\ present[p] # 0 => TasksOf(present[p], entrypoints[k]) # {}

\* Nobody waits for a participant who is in the room, and audio that is published is heard.
NobodyWaitsInVain ==
    connected => /\ \A w \in Waiters, p \in Identities : waiter[w].state = "waits" /\ Matches(w, p) => present[p] = 0
                 /\ subscribed = published

\* With one entrypoint, a key is taken only while a task of it runs; the other way round only as long as
\* nobody comes back before the task of their first visit is over.
KeysAreTasks ==
    Len(entrypoints) <= 1 => \A k \in Keys : participantTasks[k] # 0 => ~startedTasks[participantTasks[k]].done

\* No job and no participant is left out, by a reload (cli/watcher.py) or by the tasks of the
\* job's context (job.py).
NobodyLeftOut ==
    /\ ReloadTypeOK /\ JobsSurviveReload /\ RunsOnce
    /\ JobContextTypeOK /\ EveryoneIsWelcomed /\ NobodyWaitsInVain /\ KeysAreTasks

=============================================================================
