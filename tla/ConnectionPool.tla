--------------------------- MODULE ConnectionPool ---------------------------
(***************************************************************************)
(* utils/connection_pool.py: the pool of websockets the TTS and STT        *)
(* plugins draw from.  Its users are streams, tasks of one loop: they      *)
(* interleave where the pool awaits close_cb and connect_cb, and wherever  *)
(* they hold a connection.                                                 *)
(***************************************************************************)
EXTENDS Naturals

CONSTANTS
    Users,      \* the streams that use connection()
    Conns,      \* the connections that can be made (a bound)
    None,
    Calls,      \* what else happens: a subset of AllCalls
    Expires     \* is max_session_duration set?

AllCalls == {"remove", "invalidate", "cancel", "close_fails", "prewarm", "aclose"}

Closer == "aclose"              \* the task that closes the pool
Drainers == Users \cup {Closer}

ASSUME PoolAssumption ==
    /\ Closer \notin Users
    /\ None \notin Conns
    /\ Calls \subseteq AllCalls
    /\ Expires \in BOOLEAN

VARIABLES
    connections,    \* the keys of _connections
    available,      \* _available
    to_close,       \* _to_close
    old,            \* connections older than max_session_duration
    pc,             \* where each task is
    held,           \* the connection each user got
    todo,           \* what is left of the list each _drain_to_close goes through
    closing,        \* the connection whose close_cb each task awaits
    prewarmed,      \* the prewarm task: none, ready, connecting, ended
    made,           \* history: connections made so far
    closed          \* history: connections whose close_cb has returned

vars == <<connections, available, to_close, old, pc, held, todo, closing, prewarmed, made, closed>>

TypeOK ==
    /\ connections \subseteq Conns /\ available \subseteq Conns /\ to_close \subseteq Conns
    /\ old \subseteq Conns /\ made \subseteq Conns /\ closed \subseteq Conns
    /\ pc \in [Drainers -> {"idle", "draining", "connecting", "using", "closed"}]
    /\ held \in [Users -> Conns \cup {None}]
    /\ todo \in [Drainers -> SUBSET Conns]
    /\ closing \in [Drainers -> Conns \cup {None}]
    /\ prewarmed \in {"none", "ready", "connecting", "ended"}

Init ==
    /\ connections = {} /\ available = {} /\ to_close = {} /\ old = {}
    /\ pc = [t \in Drainers |-> "idle"]
    /\ held = [u \in Users |-> None]
    /\ todo = [t \in Drainers |-> {}]
    /\ closing = [t \in Drainers |-> None]
    /\ prewarmed = "none" /\ made = {} /\ closed = {}

----------------------------------------------------------------------------
(* Operations without an await *)

Goto(t, stage) == pc' = [pc EXCEPT ![t] = stage]

\* remove(): the connection is forgotten and queued for closing, if it was known.
RemoveConnections(C) ==
    /\ available' = available \ C
    /\ to_close' = to_close \cup (C \cap connections)
    /\ connections' = connections \ C

\* Mutant: put() does not look whether the connection is still in the pool.
PutUnchecked(c) == available' = available \cup {c}

\* put(): a connection that was removed or invalidated meanwhile is not made available.
Put(c) == available' = available \cup ({c} \cap connections)

\* Mutant: the connections stay known while they wait to be closed.
InvalidateQueue ==
    /\ to_close' = to_close \cup connections
    /\ available' = {}
    /\ UNCHANGED connections

\* invalidate(): every connection is forgotten and queued, those in use included.
InvalidateAll ==
    /\ to_close' = to_close \cup connections
    /\ connections' = {}
    /\ available' = {}

----------------------------------------------------------------------------
(* get() *)

\* _drain_to_close awaits close_cb for one more connection of its list.
CloseNext(t, left) ==
    /\ \E c \in left :
          /\ closing' = [closing EXCEPT ![t] = c]
          /\ todo' = [todo EXCEPT ![t] = left \ {c}]
    /\ Goto(t, "draining")

DrainEnds(t) ==
    /\ closing' = [closing EXCEPT ![t] = None]
    /\ todo' = [todo EXCEPT ![t] = {}]

\* Mutant: the connection found stays available.
TakeWithoutPop(u) ==
    \/ \E c \in available \ old, R \in SUBSET (available \cap old) :
          /\ held' = [held EXCEPT ![u] = c]
          /\ Goto(u, "using")
          /\ available' = available \ R
          /\ connections' = connections \ R
          /\ to_close' = R
    \/ /\ available \subseteq old
       /\ Goto(u, "connecting")
       /\ available' = {}
       /\ connections' = connections \ available
       /\ to_close' = available
       /\ UNCHANGED held

\* After the drain (_to_close is cleared): pop until a connection has not expired; expired
\* ones met on the way are removed.
Take(u) ==
    \/ \E c \in available \ old, R \in SUBSET (available \cap old) :
          /\ held' = [held EXCEPT ![u] = c]
          /\ Goto(u, "using")
          /\ available' = available \ (R \cup {c})
          /\ connections' = connections \ R
          /\ to_close' = R
    \/ /\ available \subseteq old
       /\ Goto(u, "connecting")
       /\ available' = {}
       /\ connections' = connections \ available
       /\ to_close' = available
       /\ UNCHANGED held

\* One step of get(), when `left` is still to be drained.
GetStep(u, left) ==
    \/ CloseNext(u, left) /\ UNCHANGED <<connections, available, to_close, held>>
    \/ left = {} /\ DrainEnds(u) /\ Take(u)

\* A stream asks for a connection; streams are closed before their pool is.
GetStarts(u) ==
    /\ pc[u] = "idle" /\ pc[Closer] = "idle"
    /\ GetStep(u, to_close)
    /\ UNCHANGED <<old, prewarmed, made, closed>>

GetDrains(u) ==
    /\ pc[u] = "draining"
    /\ closed' = closed \cup {closing[u]}
    /\ GetStep(u, todo[u])
    /\ UNCHANGED <<old, prewarmed, made>>

\* _connect(): the connection is known from here on.
Connect(c) ==
    /\ c \notin made
    /\ made' = made \cup {c}
    /\ connections' = connections \cup {c}

GetConnects(u) ==
    /\ pc[u] = "connecting"
    /\ \E c \in Conns : Connect(c) /\ held' = [held EXCEPT ![u] = c]
    /\ Goto(u, "using")
    /\ UNCHANGED <<available, to_close, old, todo, closing, prewarmed, closed>>

\* connect_cb raises, or the stream is cancelled in get(): nothing was taken.
ConnectFails(u) ==
    /\ pc[u] = "connecting"
    /\ Goto(u, "idle")
    /\ UNCHANGED <<connections, available, to_close, old, held, todo, closing, prewarmed, made,
                   closed>>

\* close_cb raises, or its caller is cancelled: the rest of the list stays queued.
CloseFails(t) ==
    /\ "close_fails" \in Calls
    /\ pc[t] = "draining"
    /\ Goto(t, IF t = Closer THEN "closed" ELSE "idle")
    /\ DrainEnds(t)
    /\ UNCHANGED <<connections, available, to_close, old, held, prewarmed, made, closed>>

----------------------------------------------------------------------------
(* The body of `async with pool.connection()` *)

Release(u) ==
    /\ pc[u] = "using"
    /\ Goto(u, "idle")
    /\ held' = [held EXCEPT ![u] = None]
    /\ UNCHANGED <<old, todo, closing, prewarmed, made, closed>>

Done(u) == Release(u) /\ Put(held[u]) /\ UNCHANGED <<connections, to_close>>

\* The body raises an Exception.
Fails(u) == Release(u) /\ RemoveConnections({held[u]})

\* The body is cancelled: CancelledError is no Exception, the pool is told nothing.
Cancelled(u) ==
    /\ "cancel" \in Calls
    /\ Release(u)
    /\ UNCHANGED <<connections, available, to_close>>

\* A stream removes its own connection while it uses it (a session that is too long).
UserRemoves(u) ==
    /\ "remove" \in Calls
    /\ pc[u] = "using"
    /\ RemoveConnections({held[u]})
    /\ UNCHANGED <<old, pc, held, todo, closing, prewarmed, made, closed>>

----------------------------------------------------------------------------

\* update_options of a plugin.
Invalidate ==
    /\ "invalidate" \in Calls
    /\ pc[Closer] = "idle"
    /\ InvalidateAll
    /\ UNCHANGED <<old, pc, held, todo, closing, prewarmed, made, closed>>

Expire(c) ==
    /\ Expires
    /\ c \in connections \ old
    /\ old' = old \cup {c}
    /\ UNCHANGED <<connections, available, to_close, pc, held, todo, closing, prewarmed, made,
                   closed>>

\* prewarm(): creates the task, once.
Prewarm ==
    /\ "prewarm" \in Calls
    /\ pc[Closer] = "idle"
    /\ prewarmed = "none" /\ connections = {}
    /\ prewarmed' = "ready"
    /\ UNCHANGED <<connections, available, to_close, old, pc, held, todo, closing, made, closed>>

PrewarmRuns ==
    /\ prewarmed = "ready"
    /\ prewarmed' = IF connections = {} THEN "connecting" ELSE "ended"
    /\ UNCHANGED <<connections, available, to_close, old, pc, held, todo, closing, made, closed>>

PrewarmConnects ==
    /\ prewarmed = "connecting"
    /\ prewarmed' = "ended"
    /\ \/ \E c \in Conns : Connect(c) /\ available' = available \cup {c}
       \/ UNCHANGED <<connections, available, made>>     \* connect_cb raises
    /\ UNCHANGED <<to_close, old, pc, held, todo, closing, closed>>

CloseStep(left) ==
    \/ CloseNext(Closer, left)
    \/ left = {} /\ DrainEnds(Closer) /\ Goto(Closer, "closed")

MayClose ==
    /\ "aclose" \in Calls
    /\ pc[Closer] = "idle"
    /\ \A u \in Users : pc[u] = "idle"

\* aclose(), once the streams are closed: invalidate(), then the drain.
\* gracefully_cancel(task) is a coroutine nobody awaits: the prewarm task goes on.
AClose ==
    /\ MayClose
    /\ InvalidateAll
    /\ CloseStep(to_close \cup connections)
    /\ UNCHANGED <<old, held, prewarmed, made, closed>>

CloseDrains ==
    /\ pc[Closer] = "draining"
    /\ closed' = closed \cup {closing[Closer]}
    /\ CloseStep(todo[Closer])
    /\ to_close' = IF todo[Closer] = {} THEN {} ELSE to_close
    /\ UNCHANGED <<connections, available, old, held, prewarmed, made>>

UserStep(u) ==
    \/ GetStarts(u) \/ GetDrains(u) \/ GetConnects(u) \/ ConnectFails(u)
    \/ Done(u) \/ Fails(u) \/ Cancelled(u) \/ UserRemoves(u)

Next ==
    \/ \E u \in Users : UserStep(u)
    \/ \E t \in Drainers : CloseFails(t)
    \/ \E c \in Conns : Expire(c)
    \/ Invalidate \/ Prewarm \/ PrewarmRuns \/ PrewarmConnects
    \/ AClose \/ CloseDrains

Spec == Init /\ [][Next]_vars

----------------------------------------------------------------------------
(* Safety *)

Held == {held[u] : u \in Users} \ {None}

\* What some task is closing or is going to close.
BeingClosed == UNION {todo[t] \cup ({closing[t]} \ {None}) : t \in Drainers}

\* A connection has one user: no two streams hold it, and the pool cannot hand it out while
\* a stream holds it.
NoSharing ==
    /\ \A u, v \in Users : held[u] = held[v] /\ held[u] # None => u = v
    /\ available \cap Held = {}

\* The pool cannot hand out a connection that it closes, has closed or will close, however
\* late its last user gives it back.
NoClosedHandout == available \cap (to_close \cup BeingClosed \cup closed) = {}

(***************************************************************************)
(* The inductive invariant: what leaves _connections never comes back, so  *)
(* the connections of the pool and those on their way out are disjoint.    *)
(***************************************************************************)
OnlyMade ==
    /\ connections \subseteq made /\ to_close \subseteq made /\ closed \subseteq made
    /\ \A u \in Users : held[u] \in made \cup {None}
    /\ \A t \in Drainers : todo[t] \subseteq made /\ closing[t] \in made \cup {None}

KnownIsLive ==
    \A c \in connections :
        /\ c \notin to_close /\ c \notin closed
        /\ \A t \in Drainers : c \notin todo[t] /\ closing[t] # c

HeldOnce ==
    \A u \in Users :
        /\ held[u] \notin available
        /\ \A v \in Users : held[u] = held[v] /\ held[u] # None => u = v

Stages ==
    /\ \A u \in Users : pc[u] = "using" <=> held[u] # None
    /\ \A t \in Drainers : pc[t] = "draining" <=> closing[t] # None

Inv ==
    /\ TypeOK /\ available \subseteq connections /\ OnlyMade /\ KnownIsLive
    /\ Stages /\ HeldOnce

=============================================================================
