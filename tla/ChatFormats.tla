---------------------------- MODULE ChatFormats ----------------------------
(***************************************************************************)
(* The chat context of an agent as its replies and tools extend it, and    *)
(* what the providers make of it: one message for each turn of a role, or  *)
(* one for each reply with its calls.  (chat_context.py, and to_chat_ctx   *)
(* of the plugins)                                                         *)
(***************************************************************************)
EXTENDS Naturals, Sequences, SequencesExt, FiniteSets

CONSTANTS MaxReplies,               \* replies of the LLM, numbered (a bound)
          MaxCallsOfReply,          \* calls of a reply (a bound)
          MaxSystems,               \* system messages that are added to the context (a bound)
          ToolNames

ASSUME ChatFormatsAssumption == {MaxReplies, MaxCallsOfReply, MaxSystems} \subseteq Nat /\ ToolNames # {}

VARIABLES
    chatItems,      \* ChatContext.items: [type: system, user, assistant, call, output; reply: its number; call, name]
    chatReply,      \* [state: none, asked, calls, over; calls: the names of the tools it calls]
    systems,        \* how many system messages were added
    toolsNow        \* the tools of the agent
formatVars == <<chatItems, chatReply, systems, toolsNow>>

ChatReplies == 1..MaxReplies
Item(type, reply, call, name) == [type |-> type, reply |-> reply, call |-> call, name |-> name]
NoTool == "no tool"

ChatFormatsTypeOK ==
    /\ \A k \in DOMAIN chatItems : chatItems[k].type \in {"system", "user", "assistant", "call", "output"}
    /\ \A r \in ChatReplies : chatReply[r].state \in {"none", "asked", "calls", "over"}
    /\ systems \in 0..MaxSystems /\ toolsNow \subseteq ToolNames

\* The context begins with the instructions.
ChatFormatsInit ==
    /\ chatItems = <<Item("system", 0, 0, NoTool)>>
    /\ chatReply = [r \in ChatReplies |-> [state |-> "none", calls |-> <<>>]]
    /\ systems = 0 /\ toolsNow = ToolNames

----------------------------------------------------------------------------
(* The context of the agent *)

\* The user says something, and a reply is asked for.
UserTurn(r) ==
    /\ chatReply[r].state = "none" /\ \A s \in 1..(r - 1) : chatReply[s].state # "none"
    /\ chatReply' = [chatReply EXCEPT ![r].state = "asked"]
    /\ chatItems' = Append(chatItems, Item("user", r, 0, NoTool))
    /\ UNCHANGED <<systems, toolsNow>>

\* The reply was played, its text is added; its calls are made.
ReplyPlayed(r, text, calls) ==
    /\ chatReply[r].state = "asked"
    /\ \A s \in ChatReplies : s < r => chatReply[s].state # "asked"
    /\ chatItems' = IF text THEN Append(chatItems, Item("assistant", r, 0, NoTool)) ELSE chatItems
    /\ chatReply' = [chatReply EXCEPT ![r] = [state |-> IF calls = <<>> THEN "over" ELSE "calls", calls |-> calls]]
    /\ UNCHANGED <<systems, toolsNow>>

\* The reply to the tools plays (it is the next reply, if the bound allows one): their messages are added before
\* its text.
ToolsReplied(r) ==
    /\ chatReply[r].state = "calls"
    /\ chatReply' = [s \in ChatReplies |->
          CASE s = r -> [chatReply[r] EXCEPT !.state = "over"]
            [] s = 1 + Cardinality({u \in ChatReplies : chatReply[u].state # "none"}) -> [chatReply[s] EXCEPT !.state = "asked"]
            [] OTHER -> chatReply[s]]
    /\ chatItems' = chatItems
          \o [k \in DOMAIN chatReply[r].calls |-> Item("call", r, k, chatReply[r].calls[k])]
          \o [k \in DOMAIN chatReply[r].calls |-> Item("output", r, k, chatReply[r].calls[k])]
    /\ UNCHANGED <<systems, toolsNow>>

\* update_chat_ctx(): the user adds a system message.
AddSystem ==
    /\ systems < MaxSystems /\ systems' = systems + 1
    /\ chatItems' = Append(chatItems, Item("system", 0, 0, NoTool))
    /\ UNCHANGED <<chatReply, toolsNow>>

Kept(item, tools) == item.type \in {"call", "output"} => item.name \in tools

\* update_tools(): the context is copied, without the calls of the tools that are no more.
UpdateTools(tools) ==
    /\ tools # toolsNow /\ toolsNow' = tools
    /\ chatItems' = SelectSeq(chatItems, LAMBDA item : Kept(item, tools))
    /\ UNCHANGED <<chatReply, systems>>

ChatFormatsNext ==
    \/ \E r \in ChatReplies :
          \/ UserTurn(r) \/ ToolsReplied(r)
          \/ \E text \in BOOLEAN, calls \in SeqOf(toolsNow, MaxCallsOfReply) : ReplyPlayed(r, text, calls)
    \/ AddSystem \/ \E tools \in SUBSET ToolNames : UpdateTools(tools)

ChatFormatsSpec == ChatFormatsInit /\ [][ChatFormatsNext]_formatVars

----------------------------------------------------------------------------
(* What is sent to the provider *)

EffectiveRole(item) == IF item.type \in {"assistant", "call"} THEN "assistant" ELSE "user"
Message(role, content) == [role |-> role, content |-> content]
Finalized(acc) == IF acc.role # "none" /\ acc.content # <<>>
                    THEN Append(acc.messages, Message(acc.role, acc.content)) ELSE acc.messages

\* An item is added to the turn of its role, or begins another.
AddToTurn(acc, item) ==
    IF EffectiveRole(item) = acc.role
      THEN [acc EXCEPT !.failed = @ \/ acc.rebound, !.content = Append(@, item)]
      ELSE [acc EXCEPT !.messages = Finalized(acc), !.role = EffectiveRole(item), !.content = <<item>>, !.rebound = FALSE]

\* A system message is left out of the turns.
SkipSystem(acc, item) == acc

\* In anthropic's loop over its texts "content" becomes the last of them, and no list any more.
ReboundBySystem(acc, item) == [acc EXCEPT !.content = <<item>>, !.rebound = TRUE]

Opened(messages) == IF messages = <<>> \/ messages[1].role # "user"
                      THEN <<Message("user", <<Item("user", 0, 0, NoTool)>>)>> \o messages ELSE messages

NoTurn == [messages |-> <<>>, role |-> "none", content |-> <<>>, rebound |-> FALSE, failed |-> FALSE]

\* Mutant: the last turn is not finalized.
AwsTurnsOpen(items) ==
    Opened(FoldLeft(LAMBDA acc, item : IF item.type = "system" THEN SkipSystem(acc, item) ELSE AddToTurn(acc, item),
                    NoTurn, items).messages)

AwsTurns(items) ==
    Opened(Finalized(FoldLeft(LAMBDA acc, item :
               IF item.type = "system" THEN SkipSystem(acc, item) ELSE AddToTurn(acc, item), NoTurn, items)))

GoogleTurns(items) ==
    Finalized(FoldLeft(LAMBDA acc, item :
        IF item.type = "system" THEN SkipSystem(acc, item) ELSE AddToTurn(acc, item), NoTurn, items))

AnthropicFold(items) ==
    FoldLeft(LAMBDA acc, item : IF item.type = "system" THEN ReboundBySystem(acc, item) ELSE AddToTurn(acc, item),
             NoTurn, items)
AnthropicTurns(items) == Opened(Finalized(AnthropicFold(items)))

Grouped(item) == item.type \in {"assistant", "call"}

\* Mutant: a call is a message of its own.
OpenAIUngrouped(items) == [k \in DOMAIN items |-> <<items[k]>>]

\* openai groups a reply with its calls, where the first of them is.
OpenAIGroups(items) ==
    LET First(item) == ~ \E k \in DOMAIN items : /\ Grouped(items[k]) /\ items[k].reply = item.reply
                                                 /\ k < CHOOSE j \in DOMAIN items : items[j] = item
        heads == SelectSeq(items, LAMBDA item : ~Grouped(item) \/ First(item))
    IN [k \in DOMAIN heads |->
           IF Grouped(heads[k])
             THEN SelectSeq(items, LAMBDA item : Grouped(item) /\ item.reply = heads[k].reply)
             ELSE <<heads[k]>>]

----------------------------------------------------------------------------
(* Properties *)

NonSystem == SelectSeq(chatItems, LAMBDA item : item.type # "system")
Contents(messages) ==
    SelectSeq(FlattenSeq([k \in DOMAIN messages |-> messages[k].content]), LAMBDA item : item.reply # 0)
Alternate(messages) == \A k \in 1..(Len(messages) - 1) : messages[k].role # messages[k + 1].role

\* The turns are all that was said, once and in order; they alternate, and begin with the user's, as the
\* servers demand (anthropic/utils.py:98).  A system message within the conversation costs anthropic the turn
\* it is in (anthropic/utils.py:38).
TurnsAlternate ==
    /\ \A messages \in {AwsTurns(chatItems), GoogleTurns(chatItems)} :
           Contents(messages) = NonSystem /\ Alternate(messages)
    /\ AwsTurns(chatItems)[1].role = "user"
    /\ systems = 0 => LET messages == AnthropicTurns(chatItems)
                      IN /\ ~AnthropicFold(chatItems).failed /\ Contents(messages) = NonSystem
                         /\ Alternate(messages) /\ messages[1].role = "user"

CallsIn(group) == {<<item.reply, item.call>> : item \in {i \in ToSet(group) : i.type = "call"}}

\* The calls of a reply are followed by their outputs and nothing else, in whatever order replies and tools
\* come to their end and whatever tools are taken away, as the server of openai demands; unless something
\* was said between the text of the reply and the end of its tools, since they are put where the text is
\* (openai/utils.py:30).
CallsAreAnswered ==
    LET groups == OpenAIGroups(chatItems)
    IN \A k \in DOMAIN groups :
          LET calls == CallsIn(groups[k])
              together == \A i, j \in DOMAIN chatItems :
                             {chatItems[i], chatItems[j]} \subseteq ToSet(groups[k]) =>
                                 \A n \in i..j : chatItems[n] \in ToSet(groups[k])
          IN together /\ calls # {} =>
                /\ k + Cardinality(calls) <= Len(groups)
                /\ {<<groups[n][1].reply, groups[n][1].call>> : n \in (k + 1)..(k + Cardinality(calls))} = calls
                /\ \A n \in (k + 1)..(k + Cardinality(calls)) : groups[n][1].type = "output"

=============================================================================
