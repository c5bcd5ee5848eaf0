-------------------------- MODULE RealtimeSession --------------------------
(***************************************************************************)
(* The session of the OpenAI realtime model (realtime/realtime_model.py):  *)
(* commands queue in _msg_ch, a task sends them, another handles the       *)
(* events of the server.  Each response of the server is a generation,     *)
(* whose text, audio and function calls go to channels other tasks read.   *)
(* The server is external: it has one response at a time, of its own or    *)
(* asked for, and may end it at any point.                                 *)
(***************************************************************************)
EXTENDS Naturals, Sequences

CONSTANTS MaxReplyRequests,         \* calls of generate_reply(), numbered (a bound)
          MaxResponses,             \* responses of the server (a bound)
          MaxItemDeltas,            \* deltas of an item (a bound)
          MaxServerEvents           \* events on their way (a bound)

ASSUME RealtimeAssumption == {MaxReplyRequests, MaxResponses, MaxItemDeltas, MaxServerEvents} \subseteq Nat

VARIABLES
    rtConn,             \* the websocket: open, closed (by aclose()), lost
    commands,           \* _msg_ch: a request number, or 0 for response.cancel
    commandsClosed,
    reply,              \* the future of each request: none, waits, told, timed_out
    generations,        \* [request, told: no, reply, event; item: none, open, closed; text, calls, open]
    currentGeneration,  \* _current_generation, 0 for None
    serverEvents,       \* on their way to the session
    response            \* of the server: [busy, item: none, message, done; said: of each response
                        \* that was announced, its deltas and calls]
clientVars == <<rtConn, commands, commandsClosed, reply, generations, currentGeneration>>
realtimeVars == <<clientVars, serverEvents, response>>

ReplyRequests == 1..MaxReplyRequests

RealtimeTypeOK ==
    /\ rtConn \in {"open", "closed", "lost"} /\ commands \in Seq(0..MaxReplyRequests) /\ commandsClosed \in BOOLEAN
    /\ reply \in [ReplyRequests -> {"none", "waits", "told", "timed_out"}]
    /\ \A g \in DOMAIN generations :
          generations[g] \in [request : 0..MaxReplyRequests, told : {"no", "reply", "event"}, open : BOOLEAN,
                              item : {"none", "open", "closed"}, text : 0..MaxItemDeltas, calls : 0..1]
    /\ currentGeneration \in 0..Len(generations)
    /\ response.busy \in BOOLEAN /\ response.item \in {"none", "message", "done"}

RealtimeInit ==
    /\ rtConn = "open" /\ commands = <<>> /\ commandsClosed = FALSE
    /\ reply = [r \in ReplyRequests |-> "none"] /\ generations = <<>> /\ currentGeneration = 0
    /\ serverEvents = <<>> /\ response = [busy |-> FALSE, item |-> "none", said |-> <<>>]

----------------------------------------------------------------------------
(* The session *)

\* send_event() to a closed channel is suppressed.
SendEvent(c) == commands' = IF commandsClosed THEN commands ELSE Append(commands, c)

\* generate_reply().
GenerateReply(r) ==
    /\ reply[r] = "none"
    /\ reply' = [reply EXCEPT ![r] = "waits"] /\ SendEvent(r)
    /\ UNCHANGED <<rtConn, commandsClosed, generations, currentGeneration, serverEvents, response>>

\* Mutant: the timer is one of the tasks that end with the connection.
GenerateReplyTimesOutOnline(r) ==
    /\ rtConn = "open" /\ reply[r] = "waits"
    /\ reply' = [reply EXCEPT ![r] = "timed_out"]
    /\ UNCHANGED <<rtConn, commands, commandsClosed, generations, currentGeneration, serverEvents, response>>

\* _on_timeout, after five seconds: the future stays registered.
GenerateReplyTimesOut(r) ==
    /\ reply[r] = "waits"
    /\ reply' = [reply EXCEPT ![r] = "timed_out"]
    /\ UNCHANGED <<rtConn, commands, commandsClosed, generations, currentGeneration, serverEvents, response>>

InterruptResponse ==
    /\ currentGeneration # 0 /\ 0 \notin {commands[k] : k \in DOMAIN commands} /\ SendEvent(0)
    /\ UNCHANGED <<rtConn, commandsClosed, reply, generations, currentGeneration, serverEvents, response>>

\* Mutant: the timed out future is checked, and its answer announced as any other.
ToldToTimedOut(r) == IF r # 0 /\ reply[r] = "waits" THEN "reply" ELSE "event"

\* Who learns of a new generation: the caller, whose future has a result; nobody if the future was
\* timed out, set_result() raises before the event is emitted; or the listeners of the event.
ToldTo(r) == IF r = 0 THEN "event" ELSE IF reply[r] = "waits" THEN "reply" ELSE "no"

\* _handle_response_created.
HandleCreated(r) ==
    /\ generations' = Append(generations, [request |-> r, told |-> ToldTo(r), open |-> TRUE,
                                           item |-> "none", text |-> 0, calls |-> 0])
    /\ currentGeneration' = Len(generations')
    /\ reply' = IF ToldTo(r) = "reply" THEN [reply EXCEPT ![r] = "told"] ELSE reply

\* The generation changes to its value in g; an event without a generation is a failed assertion.
Changed(g) ==
    /\ generations' = IF currentGeneration = 0 THEN generations
                      ELSE [generations EXCEPT ![currentGeneration] = g]
    /\ UNCHANGED <<currentGeneration, reply>>

\* _handle_response_audio_transcript_delta, _handle_response_audio_delta: a delta of a message that is
\* not open raises, and is dropped.
Delta(g) == Changed(IF g.item = "open" THEN [g EXCEPT !.text = @ + 1] ELSE g)

\* Mutant: the generation is over with its item.
HandleItemDoneLast(item) ==
    /\ generations' = IF currentGeneration = 0 THEN generations
                      ELSE [generations EXCEPT ![currentGeneration] = [@ EXCEPT !.item = "closed", !.open = FALSE]]
    /\ currentGeneration' = 0 /\ UNCHANGED reply

\* _handle_response_output_item_done: a message is closed, a function call is given to its reader.
HandleItemDone(item) ==
    LET g == generations[currentGeneration]
    IN Changed(IF item = "message" THEN [g EXCEPT !.item = "closed"] ELSE [g EXCEPT !.calls = 1])

\* _handle_response_done: every channel that is open is closed.  Without a generation it was a race
\* of the server.
HandleDone ==
    LET g == generations[currentGeneration]
        item == IF g.item = "open" THEN "closed" ELSE g.item
    IN /\ generations' = IF currentGeneration = 0 THEN generations
                         ELSE [generations EXCEPT ![currentGeneration] = [g EXCEPT !.open = FALSE, !.item = item]]
       /\ currentGeneration' = 0 /\ UNCHANGED reply

\* _recv_task.
Receive ==
    /\ rtConn = "open" /\ serverEvents # <<>>
    /\ serverEvents' = Tail(serverEvents)
    /\ LET e == Head(serverEvents) g == generations[currentGeneration]
       IN CASE e.what = "created" -> HandleCreated(e.request)
            [] e.what = "added" -> Changed([g EXCEPT !.item = "open"])
            [] e.what = "delta" -> Delta(g)
            [] e.what = "message" \/ e.what = "call" -> HandleItemDone(e.what)
            [] e.what = "done" -> HandleDone
            [] e.what = "error" -> UNCHANGED <<reply, generations, currentGeneration>>
    /\ UNCHANGED <<rtConn, commands, commandsClosed, response>>

\* aclose(): the commands that wait are sent, then the websocket is closed and both tasks end.
CloseCommands ==
    /\ ~commandsClosed /\ commandsClosed' = TRUE
    /\ UNCHANGED <<rtConn, commands, reply, generations, currentGeneration, serverEvents, response>>

CloseConnection ==
    /\ rtConn = "open" /\ commandsClosed /\ commands = <<>>
    /\ rtConn' = "closed" /\ serverEvents' = <<>>
    /\ UNCHANGED <<commands, commandsClosed, reply, generations, currentGeneration, response>>

\* The connection is lost: _main_task ends, in an exception or not, and nothing else happens.
ConnectionLost ==
    /\ rtConn = "open"
    /\ rtConn' = "lost" /\ serverEvents' = <<>>
    /\ UNCHANGED <<commands, commandsClosed, reply, generations, currentGeneration, response>>

----------------------------------------------------------------------------
(* The server *)

Says(e) == Len(serverEvents) < MaxServerEvents /\ serverEvents' = Append(serverEvents, e)

\* A response begins, or is ended before it could be announced.
ResponseBegins(r) ==
    \/ /\ response' = [response EXCEPT !.busy = TRUE, !.item = "none", !.said = Append(@, [text |-> 0, calls |-> 0])]
       /\ Says([what |-> "created", request |-> r])
    \/ Says([what |-> "done"]) /\ UNCHANGED response

ResponseEnds == response' = [response EXCEPT !.busy = FALSE] /\ Says([what |-> "done"])

\* _send_task: a command reaches the server.
SendCommand ==
    /\ rtConn = "open" /\ commands # <<>>
    /\ commands' = Tail(commands)
    /\ LET c == Head(commands)
       IN IF c = 0 /\ response.busy THEN ResponseEnds
          ELSE IF c = 0 \/ response.busy THEN Says([what |-> "error"]) /\ UNCHANGED response
          ELSE ResponseBegins(c)
    /\ UNCHANGED <<rtConn, commandsClosed, reply, generations, currentGeneration>>

\* The server detected the end of a turn.
OwnResponse ==
    /\ rtConn = "open" /\ ~response.busy /\ Len(response.said) < MaxResponses /\ ResponseBegins(0)
    /\ UNCHANGED clientVars

Said(field) == [response EXCEPT !.said[Len(response.said)][field] = @ + 1]

ServerSpeaks ==
    /\ rtConn = "open" /\ response.busy
    /\ \/ /\ response.item = "none" /\ Says([what |-> "added"])
          /\ response' = [response EXCEPT !.item = "message"]
       \/ /\ response.item = "none" /\ Says([what |-> "call"])
          /\ response' = [Said("calls") EXCEPT !.item = "done"]
       \/ /\ response.item = "message" /\ response.said[Len(response.said)].text < MaxItemDeltas
          /\ Says([what |-> "delta"]) /\ response' = Said("text")
       \/ /\ response.item = "message" /\ Says([what |-> "message"])
          /\ response' = [response EXCEPT !.item = "done"]
    /\ UNCHANGED clientVars

ResponseDone == rtConn = "open" /\ response.busy /\ ResponseEnds /\ UNCHANGED clientVars

RealtimeNext ==
    \/ \E r \in ReplyRequests : GenerateReply(r) \/ GenerateReplyTimesOut(r)
    \/ InterruptResponse \/ Receive \/ SendCommand \/ CloseCommands \/ CloseConnection \/ ConnectionLost
    \/ OwnResponse \/ ServerSpeaks \/ ResponseDone

\* The tasks run, the timer fires, and the server ends its responses.
RealtimeFairness ==
    /\ WF_realtimeVars(Receive) /\ WF_realtimeVars(SendCommand) /\ WF_realtimeVars(CloseConnection)
    /\ WF_realtimeVars(ResponseDone)
    /\ \A r \in ReplyRequests : WF_realtimeVars(GenerateReplyTimesOut(r))

RealtimeSpec == RealtimeInit /\ [][RealtimeNext]_realtimeVars /\ RealtimeFairness

----------------------------------------------------------------------------
(* Properties *)

\* A generation that is over gave its readers all the server said in it and nothing of another, whatever
\* was interrupted, and left no message open (realtime_model.py:806).
GenerationIsWhole ==
    \A g \in DOMAIN generations :
        ~generations[g].open => /\ generations[g].item # "open"
                                /\ generations[g].text = response.said[g].text
                                /\ generations[g].calls = response.said[g].calls

\* What was asked for is told to who asked, or to nobody: a late answer is no speech of its own, which
\* would be said after the caller was told that its reply failed (realtime_model.py:677).
AnswerIsNoNewSpeech ==
    \A g \in DOMAIN generations : generations[g].request # 0 => generations[g].told # "event"

\* What cannot last: a generation whose readers are not released, while the connection is there, and a
\* caller who is not told, be it there or not.
RealtimePending == (currentGeneration # 0 /\ rtConn = "open") \/ \E r \in ReplyRequests : reply[r] = "waits"

\* A generation is given to its reader whole, and to nobody else (realtime_model.py).
RealtimeSafe == RealtimeTypeOK /\ GenerationIsWhole /\ AnswerIsNoNewSpeech

=============================================================================
