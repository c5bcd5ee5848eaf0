----------------------------- MODULE RemoteChat -----------------------------
(***************************************************************************)
(* The copy of a conversation a realtime session keeps: the linked list of *)
(* llm/remote_chat_context.py, compute_chat_ctx_diff() of llm/utils.py,    *)
(* and update_chat_ctx() of the OpenAI session, which asks the server to   *)
(* delete and create items and waits for its answers.  The server is       *)
(* external: it applies the requests in order, creates items of its own    *)
(* (the user speaks, the model answers), and tells each change.            *)
(***************************************************************************)
EXTENDS Naturals, Sequences, SequencesExt

CONSTANTS RemoteItems,        \* ids of items
          NoItem,       \* None
          MaxUpdates, MaxOwn        \* bounds: updates, items the server makes itself

ASSUME RemoteChatAssumption == NoItem \notin RemoteItems /\ {MaxUpdates, MaxOwn} \subseteq Nat

VARIABLES
    head, tail, nodes,  \* _head, _tail, _id_to_item: [prev, next] by id
    server,             \* the conversation of the server
    requests, told,  \* on their way to the server and back: [op: create, delete; item, prev]
    waiting,            \* the futures update_chat_ctx() waits for, <<op, item>>
    wanted, updating,   \* the context and the state of the last update: no, waits, answered, timed_out
    contexts, own,       \* counters
    clean               \* history: the copy was up to date as the update began, and the server made
                        \* no item since
chatVars == <<head, tail, nodes, server, requests, told, waiting, wanted, updating, contexts, own, clean>>

Contexts == {s \in BoundedSeq(RemoteItems, 3) : IsInjective(s)}

RemoteChatTypeOK ==
    /\ {head, tail} \subseteq RemoteItems \cup {NoItem} /\ DOMAIN nodes \subseteq RemoteItems
    /\ updating \in {"no", "waits", "answered", "timed_out"} /\ wanted \in Contexts
    /\ waiting \subseteq {"create", "delete"} \X RemoteItems /\ IsInjective(server) /\ clean \in BOOLEAN

RemoteChatInit ==
    /\ head = NoItem /\ tail = NoItem /\ nodes = <<>>
    /\ server = <<>> /\ requests = <<>> /\ told = <<>> /\ waiting = {}
    /\ wanted = <<>> /\ updating = "no" /\ contexts = 0 /\ own = 0 /\ clean = TRUE

----------------------------------------------------------------------------
(* The list *)

\* The ids from one end of the list, by its next or its prev links.
Walk(end, link) ==
    LET from[n \in Nat] ==
            IF n = 0 THEN (IF end = NoItem THEN <<>> ELSE <<end>>)
            ELSE LET s == from[n - 1]
                 IN IF s = <<>> \/ nodes[Last(s)][link] = NoItem THEN s ELSE Append(s, nodes[Last(s)][link])
    IN from[Cardinality(DOMAIN nodes)]

\* to_chat_ctx().
ToChatCtx == Walk(head, "next")

\* insert(), which refuses an item it has and a previous one it has not.
Insert(item, prev) ==
    IF item \in DOMAIN nodes \/ (prev # NoItem /\ prev \notin DOMAIN nodes)
    THEN UNCHANGED <<head, tail, nodes>>
    ELSE LET next == IF prev = NoItem THEN head ELSE nodes[prev].next
         IN /\ nodes' = [i \in DOMAIN nodes \cup {item} |->
                            IF i = item THEN [prev |-> prev, next |-> next]
                            ELSE [prev |-> IF i = next THEN item ELSE nodes[i].prev,
                                  next |-> IF i = prev THEN item ELSE nodes[i].next]]
            /\ head' = IF prev = NoItem THEN item ELSE head
            /\ tail' = IF next = NoItem THEN item ELSE tail

\* Mutant: the neighbour after the node is not linked back.
DeleteHalf(item) ==
    IF item \notin DOMAIN nodes THEN UNCHANGED <<head, tail, nodes>>
    ELSE /\ nodes' = [i \in DOMAIN nodes \ {item} |->
                         [nodes[i] EXCEPT !.next = IF @ = item THEN nodes[item].next ELSE @]]
         /\ head' = IF head = item THEN nodes[item].next ELSE head
         /\ tail' = IF tail = item THEN nodes[item].prev ELSE tail

\* delete().
Delete(item) ==
    IF item \notin DOMAIN nodes THEN UNCHANGED <<head, tail, nodes>>
    ELSE /\ nodes' = [i \in DOMAIN nodes \ {item} |->
                         [prev |-> IF nodes[i].prev = item THEN nodes[item].prev ELSE nodes[i].prev,
                          next |-> IF nodes[i].next = item THEN nodes[item].next ELSE nodes[i].next]]
         /\ head' = IF head = item THEN nodes[item].next ELSE head
         /\ tail' = IF tail = item THEN nodes[item].prev ELSE tail

----------------------------------------------------------------------------
(* The difference of two contexts *)

\* _compute_lcs(): the table, and the way back through it.
CommonIds(old, new) ==
    LET dp[i \in 0..Len(old), j \in 0..Len(new)] ==
            IF i = 0 \/ j = 0 THEN 0
            ELSE IF old[i] = new[j] THEN dp[i - 1, j - 1] + 1
            ELSE IF dp[i - 1, j] > dp[i, j - 1] THEN dp[i - 1, j] ELSE dp[i, j - 1]
        back[i \in 0..Len(old), j \in 0..Len(new)] ==
            IF i = 0 \/ j = 0 THEN {}
            ELSE IF old[i] = new[j] THEN back[i - 1, j - 1] \cup {old[i]}
            ELSE IF dp[i - 1, j] > dp[i, j - 1] THEN back[i - 1, j] ELSE back[i, j - 1]
    IN back[Len(old), Len(new)]

\* Mutant: an item that only changes its place is kept where it was.
DiffOpsInPlace(old, new) ==
    [remove |-> SelectSeq(old, LAMBDA i : i \notin ToSet(new)),
     create |-> SelectSeq([k \in DOMAIN new |-> [op |-> "create", item |-> new[k],
                                                 prev |-> IF k = 1 THEN NoItem ELSE new[k - 1]]],
                          LAMBDA r : r.item \notin ToSet(old))]

\* compute_chat_ctx_diff(): what is not common goes, what is new comes after the one before it.
DiffOps(old, new) ==
    LET common == CommonIds(old, new)
    IN [remove |-> SelectSeq(old, LAMBDA i : i \notin common),
        create |-> SelectSeq([k \in DOMAIN new |-> [op |-> "create", item |-> new[k],
                                                    prev |-> IF k = 1 THEN NoItem ELSE new[k - 1]]],
                             LAMBDA r : r.item \notin common)]

----------------------------------------------------------------------------
(* The session *)

\* update_chat_ctx(): the requests, and a future for each (an older one for the same item is lost).
UpdateChatCtx(ctx) ==
    /\ updating # "waits" /\ contexts < MaxUpdates
    /\ contexts' = contexts + 1 /\ wanted' = ctx
    /\ LET diff == DiffOps(ToChatCtx, ctx)
           removals == [k \in DOMAIN diff.remove |-> [op |-> "delete", item |-> diff.remove[k], prev |-> NoItem]]
           asked == removals \o diff.create
       IN /\ requests' = requests \o asked
          /\ waiting' = {<<r.op, r.item>> : r \in ToSet(asked)}
          /\ updating' = IF asked = <<>> THEN "answered" ELSE "waits"
    /\ clean' = (requests = <<>> /\ told = <<>>)
    /\ UNCHANGED <<head, tail, nodes, server, told, own>>

\* The handlers of an item that was created or deleted: the list, then the future.
NoticeTaken ==
    /\ told # <<>>
    /\ LET n == Head(told)
       IN /\ IF n.op = "create" THEN Insert(n.item, n.prev) ELSE Delete(n.item)
          /\ waiting' = waiting \ {<<n.op, n.item>>}
    /\ told' = Tail(told)
    /\ updating' = IF updating = "waits" /\ waiting' = {} THEN "answered" ELSE updating
    /\ UNCHANGED <<server, requests, wanted, contexts, own, clean>>

\* The futures are cancelled after five seconds, what they waited for may still come.
UpdateTimesOut ==
    /\ updating = "waits"
    /\ updating' = "timed_out" /\ waiting' = {}
    /\ UNCHANGED <<head, tail, nodes, server, requests, told, wanted, contexts, own, clean>>

----------------------------------------------------------------------------
(* The server *)

Told(n) == told' = Append(told, n)

\* A request is applied and told, or is an error.
ServerAnswers ==
    /\ requests # <<>>
    /\ requests' = Tail(requests)
    /\ LET r == Head(requests)
           has(i) == i \in ToSet(server)
       IN IF r.op = "delete"
          THEN IF has(r.item) THEN server' = SelectSeq(server, LAMBDA i : i # r.item) /\ Told(r)
               ELSE UNCHANGED <<server, told>>
          ELSE IF has(r.item) \/ (r.prev # NoItem /\ ~has(r.prev)) THEN UNCHANGED <<server, told>>
          ELSE /\ server' = IF r.prev = NoItem THEN <<r.item>> \o server
                            ELSE InsertAt(server, CHOOSE k \in 2..(Len(server) + 1) : server[k - 1] = r.prev, r.item)
               /\ Told(r)
    /\ UNCHANGED <<head, tail, nodes, waiting, wanted, updating, contexts, own, clean>>

OwnItem(item) ==
    /\ own < MaxOwn /\ item \notin ToSet(server)
    /\ own' = own + 1 /\ clean' = FALSE
    /\ server' = Append(server, item)
    /\ Told([op |-> "create", item |-> item, prev |-> IF server = <<>> THEN NoItem ELSE Last(server)])
    /\ UNCHANGED <<head, tail, nodes, requests, waiting, wanted, updating, contexts>>

RemoteChatNext ==
    \/ \E ctx \in Contexts : UpdateChatCtx(ctx)
    \/ NoticeTaken \/ UpdateTimesOut \/ ServerAnswers
    \/ \E item \in RemoteItems : OwnItem(item)

RemoteChatSpec == RemoteChatInit /\ [][RemoteChatNext]_chatVars

----------------------------------------------------------------------------
(* Properties *)

\* Once all is told the copy is the conversation of the server, whatever it created and deleted and
\* whoever asked for it, and the list is the same from both ends.
CopyFollows ==
    /\ told = <<>> => ToChatCtx = server
    /\ Walk(tail, "prev") = Reverse(ToChatCtx)

\* An update that returns made the context what was asked, from any context to any other, unless
\* the server changed it meanwhile (llm/utils.py:72).
UpdateDelivers == updating = "answered" /\ clean => ToChatCtx = wanted

=============================================================================
