------------------------ MODULE ToolExecution_proofs ------------------------
(***************************************************************************)
(* Proofs about ToolExecution, for any number of calls and any ways their  *)
(* tools end: no tool is left running when the reply is over, those that   *)
(* had started before an interruption ran to their end, each tool of an    *)
(* execution that does not fail left one output, and the next reply tells  *)
(* the outcomes of tools that did not overlap as they were.                *)
(***************************************************************************)
EXTENDS ToolExecution, SequenceLemmas

USE ToolsAssumption

Over == {c \in ToolCalls : tool[c] = "over"}

\* The number of the tools that are over.
LEMMA OverIsFinite == IsFiniteSet(Over) /\ Cardinality(Over) \in Nat
BY FS_Subset, FS_CardinalityType DEF Over

LEMMA InitInv == Init => Inv
<1> SUFFICES ASSUME Init PROVE Inv OBVIOUS
<1>1. /\ ToSet(<<>>) = {} /\ IsInjective(<<>>) /\ Len(<<>>) = 0 /\ <<>> \in Seq(ToolCalls)
  BY EmptySeq DEF ToSet, IsInjective
<1>2. TypeOK
  <2>1. function_ch \in Seq(ToolCalls) /\ ready \in Seq(ToolCalls) /\ output \in Seq(ToolCalls)
    BY <1>1 DEF Init
  <2>2. /\ tool \in [ToolCalls -> {"none", "called", "ignored", "running", "cancelling", "ended",
                                   "over", "cancelled"}]
        /\ ending \in [ToolCalls -> Endings \cup {None}]
        /\ py_out \in [ToolCalls -> [output : ToolCalls \cup {None},
                                     exception : ToolCalls \cup {None}]]
    BY DEF Init
  <2> QED BY <2>1, <2>2 DEF Init, TypeOK
<1>3. CallsInOrder
  BY <1>1 DEF Init, CallsInOrder, UnderWay
<1>4. WaitsForAll
  BY DEF Init, WaitsForAll, UnderWay, SpeechOver
<1>5. CancelledByFailure
  BY DEF Init, CancelledByFailure
<1>6. OutputsCounted
  <2>1. {c \in ToolCalls : tool[c] = "over"} = {}
    BY DEF Init
  <2> QED BY <1>1, <2>1, FS_EmptySet DEF Init, OutputsCounted
<1> QED BY <1>2, <1>3, <1>4, <1>5, <1>6 DEF Inv

----------------------------------------------------------------------------

\* A new call waits in the channel.
LEMMA CallKeeps ==
    ASSUME Inv, NEW c \in ToolCalls, Call(c)
    PROVE  Inv'
<1> USE DEF Call, Become
<1>0. /\ function_ch' \in Seq(ToolCalls) /\ ToSet(function_ch') = ToSet(function_ch) \cup {c}
      /\ IsInjective(function_ch')
  BY AppendElements DEF Inv, TypeOK, CallsInOrder
<1>1. TypeOK'
  BY <1>0 DEF Inv, TypeOK
<1>2. CallsInOrder'
  BY <1>0 DEF Inv, TypeOK, CallsInOrder, UnderWay, WaitsForAll
<1>3. WaitsForAll'
  BY <1>0 DEF Inv, TypeOK, CallsInOrder, WaitsForAll, UnderWay, SpeechOver, CancelledByFailure
<1>4. CancelledByFailure'
  BY <1>0 DEF Inv, TypeOK, CallsInOrder, CancelledByFailure, Raised, WaitsForAll
<1>5. OutputsCounted'
  <2>1. {t \in ToolCalls : tool[t] = "over"}' = Over /\ output' = output
    BY <1>0 DEF Inv, TypeOK, CallsInOrder, Over
  <2> QED BY <2>1 DEF Inv, OutputsCounted, Over
<1> QED BY <1>1, <1>2, <1>3, <1>4, <1>5 DEF Inv

\* The end of the LLM changes no call.
LEMMA LLMEndsKeeps ==
    ASSUME Inv, LLMEnds
    PROVE  Inv'
<1> USE DEF LLMEnds
<1>1. TypeOK'
  BY DEF Inv, TypeOK
<1>2. CallsInOrder'
  BY DEF Inv, TypeOK, CallsInOrder, UnderWay, WaitsForAll
<1>3. WaitsForAll'
  BY DEF Inv, TypeOK, CallsInOrder, WaitsForAll, UnderWay, SpeechOver, CancelledByFailure
<1>4. CancelledByFailure'
  BY DEF Inv, TypeOK, CallsInOrder, CancelledByFailure, Raised, WaitsForAll
<1>5. OutputsCounted'
  <2>1. {t \in ToolCalls : tool[t] = "over"}' = Over /\ output' = output
    BY DEF Inv, TypeOK, CallsInOrder, Over
  <2> QED BY <2>1 DEF Inv, OutputsCounted, Over
<1> QED BY <1>1, <1>2, <1>3, <1>4, <1>5 DEF Inv

\* The call leaves the channel.
LEMMA IgnoreCallKeeps ==
    ASSUME Inv, IgnoreCall
    PROVE  Inv'
<1> USE DEF IgnoreCall, Become
<1>0. /\ Head(function_ch) \in ToolCalls /\ tool[Head(function_ch)] = "called"
      /\ function_ch' \in Seq(ToolCalls) /\ IsInjective(function_ch')
      /\ ToSet(function_ch) = ToSet(function_ch') \cup {Head(function_ch)}
      /\ Head(function_ch) \notin ToSet(function_ch')
  BY TailElements DEF Inv, TypeOK, CallsInOrder
<1>1. TypeOK'
  BY <1>0 DEF Inv, TypeOK
<1>2. CallsInOrder'
  BY <1>0 DEF Inv, TypeOK, CallsInOrder, UnderWay, WaitsForAll
<1>3. WaitsForAll'
  BY <1>0 DEF Inv, TypeOK, CallsInOrder, WaitsForAll, UnderWay, SpeechOver, CancelledByFailure
<1>4. CancelledByFailure'
  BY <1>0 DEF Inv, TypeOK, CallsInOrder, CancelledByFailure, Raised, WaitsForAll
<1>5. OutputsCounted'
  <2>1. {t \in ToolCalls : tool[t] = "over"}' = Over /\ output' = output
    BY <1>0 DEF Inv, TypeOK, CallsInOrder, Over
  <2> QED BY <2>1 DEF Inv, OutputsCounted, Over
<1> QED BY <1>1, <1>2, <1>3, <1>4, <1>5 DEF Inv

\* The tool of the call is in `tasks` before it can end.
LEMMA StartToolKeeps ==
    ASSUME Inv, StartTool
    PROVE  Inv'
<1> USE DEF StartTool, Become
<1>0. /\ Head(function_ch) \in ToolCalls /\ tool[Head(function_ch)] = "called"
      /\ function_ch' \in Seq(ToolCalls) /\ IsInjective(function_ch')
      /\ ToSet(function_ch) = ToSet(function_ch') \cup {Head(function_ch)}
      /\ Head(function_ch) \notin ToSet(function_ch')
  BY TailElements DEF Inv, TypeOK, CallsInOrder
<1>1. TypeOK'
  BY <1>0 DEF Inv, TypeOK
<1>2. CallsInOrder'
  BY <1>0 DEF Inv, TypeOK, CallsInOrder, UnderWay, WaitsForAll
<1>3. WaitsForAll'
  BY <1>0 DEF Inv, TypeOK, CallsInOrder, WaitsForAll, UnderWay, SpeechOver, CancelledByFailure
<1>4. CancelledByFailure'
  BY <1>0 DEF Inv, TypeOK, CallsInOrder, CancelledByFailure, Raised, WaitsForAll
<1>5. OutputsCounted'
  <2>1. {t \in ToolCalls : tool[t] = "over"}' = Over /\ output' = output
    BY <1>0 DEF Inv, TypeOK, CallsInOrder, Over
  <2> QED BY <2>1 DEF Inv, OutputsCounted, Over
<1> QED BY <1>1, <1>2, <1>3, <1>4, <1>5 DEF Inv

\* Every tool under way is gathered.
LEMMA GatherToolsKeeps ==
    ASSUME Inv, GatherTools
    PROVE  Inv'
<1> USE DEF GatherTools
<1>1. TypeOK'
  BY DEF Inv, TypeOK
<1>2. CallsInOrder'
  BY DEF Inv, TypeOK, CallsInOrder, UnderWay, WaitsForAll
<1>3. WaitsForAll'
  BY DEF Inv, TypeOK, CallsInOrder, WaitsForAll, UnderWay, SpeechOver, CancelledByFailure
<1>4. CancelledByFailure'
  BY DEF Inv, TypeOK, CallsInOrder, CancelledByFailure, Raised, WaitsForAll
<1>5. OutputsCounted'
  <2>1. {t \in ToolCalls : tool[t] = "over"}' = Over /\ output' = output
    BY DEF Inv, TypeOK, CallsInOrder, Over
  <2> QED BY <2>1 DEF Inv, OutputsCounted, Over
<1> QED BY <1>1, <1>2, <1>3, <1>4, <1>5 DEF Inv

\* Every tool under way is gathered, as before the cancellation.
LEMMA GatherPendingKeeps ==
    ASSUME Inv, GatherPending
    PROVE  Inv'
<1> USE DEF GatherPending
<1>1. TypeOK'
  BY DEF Inv, TypeOK
<1>2. CallsInOrder'
  BY DEF Inv, TypeOK, CallsInOrder, UnderWay, WaitsForAll
<1>3. WaitsForAll'
  BY DEF Inv, TypeOK, CallsInOrder, WaitsForAll, UnderWay, SpeechOver, CancelledByFailure
<1>4. CancelledByFailure'
  BY DEF Inv, TypeOK, CallsInOrder, CancelledByFailure, Raised, WaitsForAll
<1>5. OutputsCounted'
  <2>1. {t \in ToolCalls : tool[t] = "over"}' = Over /\ output' = output
    BY DEF Inv, TypeOK, CallsInOrder, Over
  <2> QED BY <2>1 DEF Inv, OutputsCounted, Over
<1> QED BY <1>1, <1>2, <1>3, <1>4, <1>5 DEF Inv

\* Every tool that still runs is told to stop.
LEMMA GatherRaisesKeeps ==
    ASSUME Inv, GatherRaises
    PROVE  Inv'
<1> USE DEF GatherRaises
<1>1. TypeOK'
  BY DEF Inv, TypeOK
<1>2. CallsInOrder'
  BY DEF Inv, TypeOK, CallsInOrder, UnderWay, WaitsForAll
<1>3. WaitsForAll'
  BY DEF Inv, TypeOK, CallsInOrder, WaitsForAll, UnderWay, SpeechOver, CancelledByFailure
<1>4. CancelledByFailure'
  BY DEF Inv, TypeOK, CallsInOrder, CancelledByFailure, Raised, WaitsForAll
<1>5. OutputsCounted'
  <2>1. {t \in ToolCalls : tool[t] = "over"}' = Over /\ output' = output
    BY DEF Inv, TypeOK, CallsInOrder, Over
  <2> QED BY <2>1 DEF Inv, OutputsCounted, Over
<1> QED BY <1>1, <1>2, <1>3, <1>4, <1>5 DEF Inv

\* Every tool that was under way has returned.
LEMMA GatherReturnsKeeps ==
    ASSUME Inv, GatherReturns
    PROVE  Inv'
<1> USE DEF GatherReturns, Settled, Raised
<1>1. TypeOK'
  BY DEF Inv, TypeOK
<1>2. CallsInOrder'
  BY DEF Inv, TypeOK, CallsInOrder, UnderWay, WaitsForAll
<1>3. WaitsForAll'
  BY DEF Inv, TypeOK, CallsInOrder, WaitsForAll, UnderWay, SpeechOver, CancelledByFailure
<1>4. CancelledByFailure'
  BY DEF Inv, TypeOK, CallsInOrder, CancelledByFailure, Raised, WaitsForAll
<1>5. OutputsCounted'
  <2>1. {t \in ToolCalls : tool[t] = "over"}' = Over /\ output' = output
    BY DEF Inv, TypeOK, CallsInOrder, Over
  <2> QED BY <2>1 DEF Inv, OutputsCounted, Over
<1> QED BY <1>1, <1>2, <1>3, <1>4, <1>5 DEF Inv

\* The tools that were cancelled have ended.
LEMMA CleanupEndsKeeps ==
    ASSUME Inv, CleanupEnds
    PROVE  Inv'
<1> USE DEF CleanupEnds
<1>1. TypeOK'
  BY DEF Inv, TypeOK
<1>2. CallsInOrder'
  BY DEF Inv, TypeOK, CallsInOrder, UnderWay, WaitsForAll
<1>3. WaitsForAll'
  BY DEF Inv, TypeOK, CallsInOrder, WaitsForAll, UnderWay, SpeechOver, CancelledByFailure
<1>4. CancelledByFailure'
  BY DEF Inv, TypeOK, CallsInOrder, CancelledByFailure, Raised, WaitsForAll
<1>5. OutputsCounted'
  <2>1. {t \in ToolCalls : tool[t] = "over"}' = Over /\ output' = output
    BY DEF Inv, TypeOK, CallsInOrder, Over
  <2> QED BY <2>1 DEF Inv, OutputsCounted, Over
<1> QED BY <1>1, <1>2, <1>3, <1>4, <1>5 DEF Inv

\* The callbacks of the tool are due.
LEMMA ToolEndsKeeps ==
    ASSUME Inv, NEW c \in ToolCalls, NEW how \in Endings, ToolEnds(c, how)
    PROVE  Inv'
<1> USE DEF ToolEnds, Become
<1>0. /\ ready' \in Seq(ToolCalls) /\ ToSet(ready') = ToSet(ready) \cup {c} /\ IsInjective(ready')
  BY AppendElements DEF Inv, TypeOK, CallsInOrder
<1>1. TypeOK'
  BY <1>0 DEF Inv, TypeOK
<1>2. CallsInOrder'
  BY <1>0 DEF Inv, TypeOK, CallsInOrder, UnderWay, WaitsForAll
<1>3. WaitsForAll'
  BY <1>0 DEF Inv, TypeOK, CallsInOrder, WaitsForAll, UnderWay, SpeechOver, CancelledByFailure
<1>4. CancelledByFailure'
  BY <1>0 DEF Inv, TypeOK, CallsInOrder, CancelledByFailure, Raised, WaitsForAll
<1>5. OutputsCounted'
  <2>1. {t \in ToolCalls : tool[t] = "over"}' = Over /\ output' = output
    BY <1>0 DEF Inv, TypeOK, CallsInOrder, Over
  <2> QED BY <2>1 DEF Inv, OutputsCounted, Over
<1> QED BY <1>1, <1>2, <1>3, <1>4, <1>5 DEF Inv

\* A tool ends without an output in a failed execution only.
LEMMA ToolCancelledKeeps ==
    ASSUME Inv, NEW c \in ToolCalls, ToolCancelled(c)
    PROVE  Inv'
<1> USE DEF ToolCancelled, Become
<1>1. TypeOK'
  BY DEF Inv, TypeOK
<1>2. CallsInOrder'
  BY DEF Inv, TypeOK, CallsInOrder, UnderWay, WaitsForAll
<1>3. WaitsForAll'
  BY DEF Inv, TypeOK, CallsInOrder, WaitsForAll, UnderWay, SpeechOver, CancelledByFailure
<1>4. CancelledByFailure'
  BY DEF Inv, TypeOK, CallsInOrder, CancelledByFailure, Raised, WaitsForAll
<1>5. OutputsCounted'
  <2>1. {t \in ToolCalls : tool[t] = "over"}' = Over /\ output' = output
    BY DEF Inv, TypeOK, CallsInOrder, Over
  <2> QED BY <2>1 DEF Inv, OutputsCounted, Over
<1> QED BY <1>1, <1>2, <1>3, <1>4, <1>5 DEF Inv

\* The tool is over, and one output is added.
LEMMA ToolCallbackKeeps ==
    ASSUME Inv, ToolCallback
    PROVE  Inv'
<1> USE DEF ToolCallback, Become
<1>0. /\ Head(ready) \in ToolCalls /\ tool[Head(ready)] = "ended"
      /\ ready' \in Seq(ToolCalls) /\ IsInjective(ready')
      /\ ToSet(ready) = ToSet(ready') \cup {Head(ready)} /\ Head(ready) \notin ToSet(ready')
      /\ bound \in ToolCalls
  BY TailElements DEF Inv, TypeOK, CallsInOrder, UnderWay
<1>a. output' = Append(output, bound) /\ output' \in Seq(ToolCalls) /\ Len(output') = Len(output) + 1
  BY <1>0, AppendProperties DEF Inv, TypeOK
<1>1. TypeOK'
  <2> DEFINE Outs == [output : ToolCalls \cup {None}, exception : ToolCalls \cup {None}]
  <2>1. py_out \in [ToolCalls -> Outs] /\ py_out[bound] \in Outs
    BY <1>0 DEF Inv, TypeOK
  <2>2. \/ py_out' = [py_out EXCEPT ![bound] = [@ EXCEPT !.exception = Head(ready)]]
        \/ py_out' = [py_out EXCEPT ![bound] = [@ EXCEPT !.output = Head(ready)]]
    OBVIOUS
  <2>3. /\ [py_out[bound] EXCEPT !.exception = Head(ready)] \in Outs
        /\ [py_out[bound] EXCEPT !.output = Head(ready)] \in Outs
    BY <2>1, <1>0
  <2> HIDE DEF Outs
  <2>4. py_out' \in [ToolCalls -> Outs]
    BY <2>1, <2>2, <2>3, <1>0
  <2> QED BY <1>0, <1>a, <2>4 DEF Inv, TypeOK, Outs
<1>2. CallsInOrder'
  BY <1>0, <1>a DEF Inv, TypeOK, CallsInOrder, UnderWay, WaitsForAll
<1>3. WaitsForAll'
  BY <1>0, <1>a DEF Inv, TypeOK, CallsInOrder, WaitsForAll, UnderWay, SpeechOver, CancelledByFailure
<1>4. CancelledByFailure'
  BY <1>0, <1>a DEF Inv, TypeOK, CallsInOrder, CancelledByFailure, Raised, WaitsForAll
<1>5. OutputsCounted'
  <2>1. Head(ready) \notin Over /\ Over' = Over \cup {Head(ready)}
    BY <1>0 DEF Inv, TypeOK, Over
  <2>2. Cardinality(Over') = Cardinality(Over) + 1
    BY <2>1, OverIsFinite, FS_AddElement
  <2> QED BY <1>a, <2>2 DEF Inv, OutputsCounted, Over
<1> QED BY <1>1, <1>2, <1>3, <1>4, <1>5 DEF Inv

\* The interruption of the speech waits for the reply task.
LEMMA InterruptKeeps ==
    ASSUME Inv, Interrupt
    PROVE  Inv'
<1> USE DEF Interrupt
<1>1. TypeOK'
  BY DEF Inv, TypeOK
<1>2. CallsInOrder'
  BY DEF Inv, TypeOK, CallsInOrder, UnderWay, WaitsForAll
<1>3. WaitsForAll'
  BY DEF Inv, TypeOK, CallsInOrder, WaitsForAll, UnderWay, SpeechOver, CancelledByFailure
<1>4. CancelledByFailure'
  BY DEF Inv, TypeOK, CallsInOrder, CancelledByFailure, Raised, WaitsForAll
<1>5. OutputsCounted'
  <2>1. {t \in ToolCalls : tool[t] = "over"}' = Over /\ output' = output
    BY DEF Inv, TypeOK, CallsInOrder, Over
  <2> QED BY <2>1 DEF Inv, OutputsCounted, Over
<1> QED BY <1>1, <1>2, <1>3, <1>4, <1>5 DEF Inv

\* The reply task waits for the execution.
LEMMA AwaitToolsKeeps ==
    ASSUME Inv, AwaitTools
    PROVE  Inv'
<1> USE DEF AwaitTools
<1>1. TypeOK'
  BY DEF Inv, TypeOK
<1>2. CallsInOrder'
  BY DEF Inv, TypeOK, CallsInOrder, UnderWay, WaitsForAll
<1>3. WaitsForAll'
  BY DEF Inv, TypeOK, CallsInOrder, WaitsForAll, UnderWay, SpeechOver, CancelledByFailure
<1>4. CancelledByFailure'
  BY DEF Inv, TypeOK, CallsInOrder, CancelledByFailure, Raised, WaitsForAll
<1>5. OutputsCounted'
  <2>1. {t \in ToolCalls : tool[t] = "over"}' = Over /\ output' = output
    BY DEF Inv, TypeOK, CallsInOrder, Over
  <2> QED BY <2>1 DEF Inv, OutputsCounted, Over
<1> QED BY <1>1, <1>2, <1>3, <1>4, <1>5 DEF Inv

\* The cancellation ends an execution that is cleaning up, and interrupts the others.
LEMMA CancelToolsKeeps ==
    ASSUME Inv, CancelTools
    PROVE  Inv'
<1> USE DEF CancelTools
<1>1. TypeOK'
  BY DEF Inv, TypeOK
<1>2. CallsInOrder'
  BY DEF Inv, TypeOK, CallsInOrder, UnderWay, WaitsForAll
<1>3. WaitsForAll'
  BY DEF Inv, TypeOK, CallsInOrder, WaitsForAll, UnderWay, SpeechOver, CancelledByFailure
<1>4. CancelledByFailure'
  BY DEF Inv, TypeOK, CallsInOrder, CancelledByFailure, Raised, WaitsForAll
<1>5. OutputsCounted'
  <2>1. {t \in ToolCalls : tool[t] = "over"}' = Over /\ output' = output
    BY DEF Inv, TypeOK, CallsInOrder, Over
  <2> QED BY <2>1 DEF Inv, OutputsCounted, Over
<1> QED BY <1>1, <1>2, <1>3, <1>4, <1>5 DEF Inv

\* The execution is over.
LEMMA InterruptedEndsKeeps ==
    ASSUME Inv, InterruptedEnds
    PROVE  Inv'
<1> USE DEF InterruptedEnds
<1>1. TypeOK'
  BY DEF Inv, TypeOK
<1>2. CallsInOrder'
  BY DEF Inv, TypeOK, CallsInOrder, UnderWay, WaitsForAll
<1>3. WaitsForAll'
  BY DEF Inv, TypeOK, CallsInOrder, WaitsForAll, UnderWay, SpeechOver, CancelledByFailure
<1>4. CancelledByFailure'
  BY DEF Inv, TypeOK, CallsInOrder, CancelledByFailure, Raised, WaitsForAll
<1>5. OutputsCounted'
  <2>1. {t \in ToolCalls : tool[t] = "over"}' = Over /\ output' = output
    BY DEF Inv, TypeOK, CallsInOrder, Over
  <2> QED BY <2>1 DEF Inv, OutputsCounted, Over
<1> QED BY <1>1, <1>2, <1>3, <1>4, <1>5 DEF Inv

\* The execution is over.
LEMMA ToolsFailKeeps ==
    ASSUME Inv, ToolsFail
    PROVE  Inv'
<1> USE DEF ToolsFail
<1>1. TypeOK'
  BY DEF Inv, TypeOK
<1>2. CallsInOrder'
  BY DEF Inv, TypeOK, CallsInOrder, UnderWay, WaitsForAll
<1>3. WaitsForAll'
  BY DEF Inv, TypeOK, CallsInOrder, WaitsForAll, UnderWay, SpeechOver, CancelledByFailure
<1>4. CancelledByFailure'
  BY DEF Inv, TypeOK, CallsInOrder, CancelledByFailure, Raised, WaitsForAll
<1>5. OutputsCounted'
  <2>1. {t \in ToolCalls : tool[t] = "over"}' = Over /\ output' = output
    BY DEF Inv, TypeOK, CallsInOrder, Over
  <2> QED BY <2>1 DEF Inv, OutputsCounted, Over
<1> QED BY <1>1, <1>2, <1>3, <1>4, <1>5 DEF Inv

\* The execution is over.
LEMMA RespondKeeps ==
    ASSUME Inv, Respond
    PROVE  Inv'
<1> USE DEF Respond
<1>1. TypeOK'
  BY DEF Inv, TypeOK
<1>2. CallsInOrder'
  BY DEF Inv, TypeOK, CallsInOrder, UnderWay, WaitsForAll
<1>3. WaitsForAll'
  BY DEF Inv, TypeOK, CallsInOrder, WaitsForAll, UnderWay, SpeechOver, CancelledByFailure
<1>4. CancelledByFailure'
  BY DEF Inv, TypeOK, CallsInOrder, CancelledByFailure, Raised, WaitsForAll
<1>5. OutputsCounted'
  <2>1. {t \in ToolCalls : tool[t] = "over"}' = Over /\ output' = output
    BY DEF Inv, TypeOK, CallsInOrder, Over
  <2> QED BY <2>1 DEF Inv, OutputsCounted, Over
<1> QED BY <1>1, <1>2, <1>3, <1>4, <1>5 DEF Inv

----------------------------------------------------------------------------
(* The theorems *)

\* Every step keeps the invariant.
LEMMA NextInv == Inv /\ [Next]_vars => Inv'
<1> SUFFICES ASSUME Inv, [Next]_vars PROVE Inv' OBVIOUS
<1>1. CASE LLMEnds \/ ToolCallback \/ Interrupt
  BY <1>1, LLMEndsKeeps, ToolCallbackKeeps, InterruptKeeps
<1>2. CASE ExeStep
  BY <1>2, IgnoreCallKeeps, StartToolKeeps, GatherToolsKeeps, GatherPendingKeeps, GatherRaisesKeeps,
     GatherReturnsKeeps, CleanupEndsKeeps DEF ExeStep
<1>3. CASE SpeechStep
  BY <1>3, AwaitToolsKeeps, CancelToolsKeeps, InterruptedEndsKeeps, ToolsFailKeeps, RespondKeeps
     DEF SpeechStep
<1>4. ASSUME NEW c \in ToolCalls, Call(c) \/ ToolStep(c) PROVE Inv'
  BY <1>4, CallKeeps, ToolCancelledKeeps, ToolEndsKeeps DEF ToolStep
<1>5. CASE UNCHANGED vars
  <2> USE <1>5 DEF vars, Inv
  <2>1. TypeOK'
    BY DEF TypeOK
  <2>2. CallsInOrder' /\ WaitsForAll'
    BY DEF CallsInOrder, WaitsForAll, UnderWay, SpeechOver
  <2>3. CancelledByFailure' /\ OutputsCounted'
    BY DEF CancelledByFailure, Raised, OutputsCounted
  <2> QED BY <2>1, <2>2, <2>3
<1> QED BY <1>1, <1>2, <1>3, <1>4, <1>5 DEF Next

\* In every state of the execution its invariant holds.
THEOREM ExecutionInvariance == Spec => []Inv
<1> QED BY InitInv, NextInv, PTL DEF Spec

\* When the reply's task is over, by a reply, an exception or an interruption, no tool is left
\* running; an interruption lets the tools that had started end by themselves; and an execution
\* that does not fail has one output for each tool it started, however the tools and their
\* callbacks interleave with the calls (voice/generation.py:275-415).
THEOREM NoToolUnaccounted == Spec => []ToolsAccounted
<1>1. Inv => ToolsAccounted
  <2> SUFFICES ASSUME Inv PROVE ToolsAccounted OBVIOUS
  <2>1. NoToolLeftRunning
    BY DEF Inv, WaitsForAll, NoToolLeftRunning
  <2>2. PendingAwaited
    BY DEF Inv, TypeOK, WaitsForAll, CancelledByFailure, UnderWay, PendingAwaited, Raised
  <2>3. OneOutputPerTool
    <3> SUFFICES ASSUME exe = "over", ~exe_failed
                 PROVE  {c \in ToolCalls : tool[c] \notin {"none", "called", "ignored"}}
                            = {c \in ToolCalls : tool[c] = "over"}
      BY DEF Inv, OutputsCounted, OneOutputPerTool
    <3> QED BY DEF Inv, TypeOK, WaitsForAll, CancelledByFailure, UnderWay
  <2> QED BY <2>1, <2>2, <2>3 DEF Inv, ToolsAccounted
<1> QED BY <1>1, ExecutionInvariance, PTL

----------------------------------------------------------------------------
(* The loop over the outputs *)

Nothing == [messages |-> <<>>, agent |-> None, ignored |-> FALSE]

\* The loop over the outputs, unfolded.
LEMMA GatheringUnfolds ==
    ASSUME NEW o, Len(o) \in Nat
    PROVE  /\ Gathering(o)[0] = Nothing
           /\ \A n \in 1..Len(o) : Gathering(o)[n] = Gathered(Gathering(o)[n - 1], o[n])
<1> DEFINE Step(f, n) == IF n = 0 THEN Nothing ELSE Gathered(f[n - 1], o[n])
           T == {m \in Nat : \E f : f = [n \in 0..m |-> Step(f, n)]}
           G == CHOOSE f : f = [n \in 0..Len(o) |-> Step(f, n)]
<1>1. 0 \in T
  <2> DEFINE g == [n \in 0..0 |-> Nothing]
  <2>1. g = [n \in 0..0 |-> Step(g, n)]
    OBVIOUS
  <2> HIDE DEF g
  <2> QED BY <2>1
<1>2. ASSUME NEW k \in Nat, k \in T PROVE k + 1 \in T
  <2> PICK f : f = [n \in 0..k |-> Step(f, n)]
    BY <1>2
  <2> DEFINE g == [n \in 0..(k + 1) |-> IF n = k + 1 THEN Gathered(f[k], o[k + 1]) ELSE f[n]]
  <2>1. ASSUME NEW n \in 0..(k + 1) PROVE g[n] = Step(g, n)
    <3>1. CASE n = k + 1
      <4>1. n # 0 /\ n - 1 = k /\ k \in 0..(k + 1) /\ k # k + 1
        BY <3>1
      <4>2. g[n - 1] = f[k] /\ g[n] = Gathered(f[k], o[k + 1])
        BY <3>1, <4>1
      <4> HIDE DEF g
      <4> QED BY <3>1, <4>1, <4>2
    <3>2. CASE n # k + 1
      <4>1. n \in 0..k /\ g[n] = f[n]
        BY <3>2
      <4>2. n # 0 => n - 1 \in 0..(k + 1) /\ n - 1 # k + 1
        BY <4>1
      <4>3. n # 0 => g[n - 1] = f[n - 1]
        BY <4>2
      <4>4. f[n] = Step(f, n)
        BY <4>1
      <4> HIDE DEF g
      <4> QED BY <4>1, <4>3, <4>4
    <3> QED BY <3>1, <3>2
  <2>2. g = [n \in 0..(k + 1) |-> Step(g, n)]
    <3> DEFINE h == [n \in 0..(k + 1) |-> Step(g, n)]
    <3>1. DOMAIN g = 0..(k + 1) /\ DOMAIN h = 0..(k + 1)
      OBVIOUS
    <3>2. g = h
      OBVIOUS
    <3> QED BY <3>2
  <2> HIDE DEF g
  <2> QED BY <2>2
<1>3. Len(o) \in T
  <2> HIDE DEF T
  <2> QED BY <1>1, <1>2, ByInduction
<1>4. G = [n \in 0..Len(o) |-> Step(G, n)]
  BY <1>3
<1>5. Gathering(o) = G
  BY DEF Gathering, Nothing
<1> HIDE DEF G
<1>6. \A n \in 0..Len(o) : Gathering(o)[n] = IF n = 0 THEN Nothing ELSE Gathered(Gathering(o)[n - 1], o[n])
  BY <1>4, <1>5
<1> QED BY <1>6

\* What is told of a tool that returned, when its output is its own.
OwnOutput(c) == ending[c] \in Returns /\ py_out[c].output = c /\ py_out[c].exception = None

LEMMA SanitizeOwn ==
    ASSUME NEW c \in ToolCalls, OwnOutput(c)
    PROVE  /\ Sanitize(c).told = IF GivesValue(c) THEN c ELSE None
           /\ Sanitize(c).agent = IF GivesAgent(c) THEN c ELSE None
  BY DEF OwnOutput, Sanitize, GivesValue, GivesAgent, Returns, Raises, AllEndings

\* Whatever the callbacks wrote, the agent is that of a tool that gave one.
LEMMA SanitizeAgent ==
    ASSUME TypeOK, NEW c \in ToolCalls
    PROVE  /\ Sanitize(c).agent \in ToolCalls \cup {None}
           /\ Sanitize(c).agent # None => GivesAgent(Sanitize(c).agent)
<1>1. py_out[c].output \in ToolCalls \cup {None}
  BY DEF TypeOK
<1> QED BY <1>1 DEF Sanitize, GivesAgent

\* One round of the loop.
LEMMA GatheredSays ==
    ASSUME NEW acc, NEW c \in ToolCalls
    PROVE  /\ Gathered(acc, c).messages = IF Sanitize(c).told = None THEN acc.messages
                  ELSE Append(acc.messages, [call |-> c, result |-> Sanitize(c).told])
           /\ Gathered(acc, c).agent = Sanitize(c).agent
           /\ Gathered(acc, c).ignored = (acc.ignored \/ (acc.agent # None /\ Sanitize(c).agent # None))
  BY DEF Gathered

\* The agent gathered, for any outputs.
LEMMA GatheredAgent ==
    ASSUME TypeOK, NEW o \in Seq(ToolCalls)
    PROVE  /\ Gathering(o)[0].agent = None
           /\ \A n \in 1..Len(o) : Gathering(o)[n].agent = Sanitize(o[n]).agent
           /\ ReplyOf(o).switch \in ToolCalls \cup {None}
           /\ ReplyOf(o).switch # None => GivesAgent(ReplyOf(o).switch)
<1>1. Len(o) \in Nat /\ \A n \in 1..Len(o) : o[n] \in ToolCalls
  BY ElementsType
<1>2. Gathering(o)[0].agent = None
  BY <1>1, GatheringUnfolds DEF Nothing
<1>3. ASSUME NEW n \in 1..Len(o) PROVE Gathering(o)[n].agent = Sanitize(o[n]).agent
  <2>1. o[n] \in ToolCalls
    BY <1>1
  <2>2. Gathering(o)[n] = Gathered(Gathering(o)[n - 1], o[n])
    BY <1>1, GatheringUnfolds
  <2>3. Gathered(Gathering(o)[n - 1], o[n]).agent = Sanitize(o[n]).agent
    BY <2>1, GatheredSays, Zenon
  <2> QED BY <2>2, <2>3
<1>4. /\ Gathering(o)[Len(o)].agent \in ToolCalls \cup {None}
      /\ Gathering(o)[Len(o)].agent # None => GivesAgent(Gathering(o)[Len(o)].agent)
  <2>1. CASE Len(o) = 0
    BY <2>1, <1>2
  <2>2. CASE Len(o) # 0
    <3>1. Len(o) \in 1..Len(o) /\ o[Len(o)] \in ToolCalls
      BY <2>2, <1>1
    <3>2. Gathering(o)[Len(o)].agent = Sanitize(o[Len(o)]).agent
      BY <3>1, <1>3
    <3> QED BY <3>1, <3>2, SanitizeAgent
  <2> QED BY <2>1, <2>2
<1> DEFINE a == Gathering(o)[Len(o)].agent
           i == Gathering(o)[Len(o)].ignored
<1>5. ReplyOf(o).switch = IF i THEN None ELSE a
  BY DEF ReplyOf
<1> HIDE DEF a
<1>6. ReplyOf(o).switch = None \/ ReplyOf(o).switch = a
  BY <1>5
<1> QED BY <1>2, <1>3, <1>4, <1>6 DEF a

\* The calls of the first n outputs whose tool returned a value.
Valued(o, n) == {c \in ToolCalls : GivesValue(c) /\ \E i \in 1..n : o[i] = c}

\* What the loop has gathered of the first n outputs, each of a tool of its own.
GatheredSoFar(o, n) ==
    LET all == Gathering(o)[n] IN
    /\ all.messages \in Seq([call : ToolCalls, result : ToolCalls])
    /\ Len(all.messages) = Cardinality(Valued(o, n))
    /\ \A c \in Valued(o, n) :
          \E k \in 1..Len(all.messages) : all.messages[k] = [call |-> c, result |-> c]
    /\ all.ignored \in BOOLEAN
    /\ all.ignored <=> \E i \in 1..(n - 1) : GivesAgent(o[i]) /\ GivesAgent(o[i + 1])

LEMMA GatheredStep ==
    ASSUME TypeOK, NEW o \in Seq(ToolCalls), IsInjective(o), \A i \in 1..Len(o) : OwnOutput(o[i]),
           NEW n \in Nat, n + 1 <= Len(o), GatheredSoFar(o, n)
    PROVE  GatheredSoFar(o, n + 1)
<1> DEFINE c == o[n + 1]
           m == Gathering(o)[n].messages
           V == Valued(o, n)
<1>0. /\ Len(o) \in Nat /\ DOMAIN o = 1..Len(o) /\ n + 1 \in 1..Len(o) /\ n \in 0..Len(o)
      /\ \A i \in 1..Len(o) : o[i] \in ToolCalls
  BY ElementsType
<1>1. c \in ToolCalls /\ OwnOutput(c)
  BY <1>0
<1>2. Gathering(o)[n + 1] = Gathered(Gathering(o)[n], c)
  <2>1. Gathering(o)[n + 1] = Gathered(Gathering(o)[n + 1 - 1], o[n + 1])
    BY <1>0, GatheringUnfolds
  <2>2. n + 1 - 1 = n
    OBVIOUS
  <2> QED BY <2>1, <2>2
<1>3. c \notin V
  BY <1>0 DEF Valued, IsInjective
<1>4. IsFiniteSet(V) /\ Cardinality(V) \in Nat
  <2>1. V \in SUBSET ToolCalls
    BY DEF Valued
  <2> QED BY <2>1, FS_Subset, FS_CardinalityType
<1>5. Valued(o, n + 1) = IF GivesValue(c) THEN V \cup {c} ELSE V
  BY <1>0, <1>1 DEF Valued
<1>6. Cardinality(V \cup {c}) = Cardinality(V) + 1
  BY <1>3, <1>4, FS_AddElement
<1>7. /\ Gathering(o)[n + 1].messages = IF GivesValue(c) THEN Append(m, [call |-> c, result |-> c]) ELSE m
      /\ Gathering(o)[n + 1].ignored = (Gathering(o)[n].ignored \/ (Gathering(o)[n].agent # None /\ GivesAgent(c)))
  <2>1. /\ Gathered(Gathering(o)[n], c).messages = IF Sanitize(c).told = None THEN m
                ELSE Append(m, [call |-> c, result |-> Sanitize(c).told])
        /\ Gathered(Gathering(o)[n], c).ignored = (Gathering(o)[n].ignored \/ (Gathering(o)[n].agent # None /\ Sanitize(c).agent # None))
    BY <1>1, GatheredSays, Zenon
  <2>2. /\ Sanitize(c).told = IF GivesValue(c) THEN c ELSE None
        /\ Sanitize(c).agent = IF GivesAgent(c) THEN c ELSE None
    BY <1>1, SanitizeOwn
  <2>3. c # None
    BY <1>1
  <2> HIDE DEF c, m
  <2> QED BY <1>2, <2>1, <2>2, <2>3
<1> DEFINE m2 == Gathering(o)[n + 1].messages
<1>8. m \in Seq([call : ToolCalls, result : ToolCalls]) /\ Len(m) = Cardinality(V)
      /\ \A v \in V : \E k \in 1..Len(m) : m[k] = [call |-> v, result |-> v]
  BY DEF GatheredSoFar
<1>9. /\ m2 \in Seq([call : ToolCalls, result : ToolCalls])
      /\ Len(m2) = Cardinality(Valued(o, n + 1))
      /\ \A v \in Valued(o, n + 1) : \E k \in 1..Len(m2) : m2[k] = [call |-> v, result |-> v]
  <2>1. CASE GivesValue(c)
    <3> DEFINE e == [call |-> c, result |-> c]
    <3>1. e \in [call : ToolCalls, result : ToolCalls]
      BY <1>1
    <3>2. m2 = Append(m, e)
      BY <1>7, <2>1
    <3> HIDE DEF m, m2, e, V
    <3>3. /\ m2 \in Seq([call : ToolCalls, result : ToolCalls]) /\ Len(m2) = Len(m) + 1
          /\ \A k \in 1..Len(m) : m2[k] = m[k]
          /\ m2[Len(m) + 1] = e /\ Len(m) \in Nat
      BY <3>1, <3>2, <1>8, AppendProperties, LenProperties
    <3>4. Valued(o, n + 1) = V \cup {c}
      BY <1>5, <2>1
    <3>5. ASSUME NEW v \in V PROVE \E k \in 1..Len(m2) : m2[k] = [call |-> v, result |-> v]
      <4> PICK k \in 1..Len(m) : m[k] = [call |-> v, result |-> v]
        BY <1>8
      <4> QED BY <3>3
    <3>6. \E k \in 1..Len(m2) : m2[k] = [call |-> c, result |-> c]
      BY <3>3 DEF e
    <3>7. Len(m2) = Cardinality(Valued(o, n + 1))
      BY <3>3, <3>4, <1>6, <1>8
    <3> QED BY <3>3, <3>4, <3>5, <3>6, <3>7
  <2>2. CASE ~GivesValue(c)
    BY <2>2, <1>5, <1>7, <1>8
  <2> QED BY <2>1, <2>2
<1>10. /\ Gathering(o)[n + 1].ignored \in BOOLEAN
       /\ Gathering(o)[n + 1].ignored <=> \E i \in 1..n : GivesAgent(o[i]) /\ GivesAgent(o[i + 1])
  <2> DEFINE b == Gathering(o)[n].ignored
             a == Gathering(o)[n].agent
  <2>1. b \in BOOLEAN /\ (b <=> \E i \in 1..(n - 1) : GivesAgent(o[i]) /\ GivesAgent(o[i + 1]))
    BY DEF GatheredSoFar
  <2>2. a # None <=> n # 0 /\ GivesAgent(o[n])
    <3>1. CASE n = 0
      BY <3>1, GatheredAgent
    <3>2. CASE n # 0
      <4>1. n \in 1..Len(o)
        BY <3>2, <1>0
      <4>2. a = Sanitize(o[n]).agent /\ o[n] \in ToolCalls /\ OwnOutput(o[n])
        BY <4>1, <1>0, GatheredAgent
      <4>3. a = IF GivesAgent(o[n]) THEN o[n] ELSE None
        BY <4>2, SanitizeOwn
      <4>4. o[n] # None
        BY <4>2
      <4> QED BY <3>2, <4>3, <4>4
    <3> QED BY <3>1, <3>2
  <2>3. (\E i \in 1..n : GivesAgent(o[i]) /\ GivesAgent(o[i + 1]))
            <=> (\E i \in 1..(n - 1) : GivesAgent(o[i]) /\ GivesAgent(o[i + 1]))
                \/ (n # 0 /\ GivesAgent(o[n]) /\ GivesAgent(o[n + 1]))
    OBVIOUS
  <2>4. Gathering(o)[n + 1].ignored = (b \/ (a # None /\ GivesAgent(c)))
    BY <1>7
  <2> HIDE DEF a, b
  <2> QED BY <2>1, <2>2, <2>3, <2>4
<1>11. n + 1 - 1 = n
  OBVIOUS
<1> QED BY <1>9, <1>10, <1>11 DEF GatheredSoFar

LEMMA GatheredAll ==
    ASSUME TypeOK, NEW o \in Seq(ToolCalls), IsInjective(o), \A i \in 1..Len(o) : OwnOutput(o[i])
    PROVE  GatheredSoFar(o, Len(o))
<1> DEFINE T == {n \in Nat : n <= Len(o) => GatheredSoFar(o, n)}
<1>1. 0 \in T
  <2>1. Len(o) \in Nat /\ Gathering(o)[0] = Nothing
    BY ElementsType, GatheringUnfolds
  <2>2. Valued(o, 0) = {} /\ Cardinality({}) = 0
    BY FS_EmptySet DEF Valued
  <2>3. /\ Gathering(o)[0].messages = <<>> /\ Gathering(o)[0].ignored = FALSE /\ Len(<<>>) = 0
        /\ <<>> \in Seq([call : ToolCalls, result : ToolCalls])
    BY <2>1, EmptySeq DEF Nothing
  <2>4. GatheredSoFar(o, 0)
    <3>1. ~ \E i \in 1..(0 - 1) : GivesAgent(o[i]) /\ GivesAgent(o[i + 1])
      OBVIOUS
    <3>2. Len(Gathering(o)[0].messages) = Cardinality(Valued(o, 0))
      BY <2>2, <2>3
    <3> QED BY <2>2, <2>3, <3>1, <3>2, Zenon DEF GatheredSoFar
  <2> QED BY <2>4
<1>2. ASSUME NEW n \in Nat, n \in T PROVE n + 1 \in T
  <2> SUFFICES ASSUME n + 1 <= Len(o) PROVE GatheredSoFar(o, n + 1)
    OBVIOUS
  <2>1. n <= Len(o) /\ Len(o) \in Nat
    BY ElementsType
  <2> QED BY <2>1, <1>2, GatheredStep
<1>3. Len(o) \in T
  <2>1. Len(o) \in Nat
    BY ElementsType
  <2> HIDE DEF T
  <2> QED BY <2>1, <1>1, <1>2, ByInduction
<1> QED BY <1>3, ElementsType

----------------------------------------------------------------------------
(* The outcomes *)

LEMMA OutcomeInit == Init => OutcomeInv
<1> SUFFICES ASSUME Init PROVE OutcomeInv OBVIOUS
<1>1. /\ ToSet(<<>>) = {} /\ IsInjective(<<>>) /\ Len(<<>>) = 0
  BY EmptySeq DEF ToSet, IsInjective
<1>2. RaisedAreMet
  BY DEF Init, RaisedAreMet, Raised
<1>3. OwnOutputs
  BY <1>1 DEF Init, OwnOutputs, UnderWay
<1>4. OutcomesReachTheirUse
  BY DEF Init, NoReply, OutcomesReachTheirUse, SequentialResultsReachTheirCalls, ResultsReachTheirCalls,
         NoDisputedSwitch
<1> QED BY <1>2, <1>3, <1>4 DEF Init, OutcomeInv

\* A step that touches neither the outputs of a reply nor the reply keeps what is said of it.
LEMMA ReplyStays ==
    ASSUME OutcomeInv, UNCHANGED reply, speech' = "replied" <=> speech = "replied",
           speech = "replied" => UNCHANGED <<output, ending, overlapped, exe_failed>>
    PROVE  /\ speech' # "replied" => reply' = NoReply
           /\ speech' = "replied" => ~exe_failed'
           /\ OutcomesReachTheirUse'
<1>1. CASE speech # "replied"
  BY <1>1 DEF OutcomeInv, NoReply, OutcomesReachTheirUse, SequentialResultsReachTheirCalls,
              ResultsReachTheirCalls, NoDisputedSwitch
<1>2. CASE speech = "replied"
  <2>1. {c \in ToolCalls : GivesValue(c)}' = {c \in ToolCalls : GivesValue(c)}
    BY <1>2 DEF GivesValue
  <2>2. SequentialResultsReachTheirCalls'
    BY <1>2, <2>1 DEF OutcomeInv, OutcomesReachTheirUse, SequentialResultsReachTheirCalls,
                      ResultsReachTheirCalls, GivesValue
  <2>3. NoDisputedSwitch'
    BY <1>2 DEF OutcomeInv, OutcomesReachTheirUse, NoDisputedSwitch, GivesAgent
  <2> QED BY <1>2, <2>2, <2>3 DEF OutcomeInv, OutcomesReachTheirUse
<1> QED BY <1>1, <1>2

\* The reply made of the outputs.
LEMMA RespondOutcome ==
    ASSUME Inv, OutcomeInv, Respond
    PROVE  OutcomesReachTheirUse'
<1> DEFINE all == Gathering(output)[Len(output)]
<1>0. /\ speech' = "replied" /\ exe = "over" /\ ~exe_failed /\ reply' = ReplyOf(output)
      /\ UNCHANGED <<output, ending, overlapped, tool>>
      /\ output \in Seq(ToolCalls) /\ Len(output) \in Nat
  BY ElementsType DEF Respond, Inv, TypeOK
<1>1. /\ ReplyOf(output).switch \in ToolCalls \cup {None}
      /\ ReplyOf(output).switch # None => GivesAgent(ReplyOf(output).switch)
  BY <1>0, GatheredAgent DEF Inv
<1>2. ASSUME overlapped = {}
      PROVE  IsInjective(output) /\ \A i \in 1..Len(output) : output[i] \in ToolCalls /\ OwnOutput(output[i])
  <2>1. ASSUME NEW i \in 1..Len(output) PROVE output[i] \in ToolCalls /\ OwnOutput(output[i])
    <3>1. output[i] \in ToolCalls /\ output[i] \in ToSet(output)
      BY <1>0, ElementsType
    <3>2. tool[output[i]] = "over"
      BY <1>2, <3>1 DEF OutcomeInv, OwnOutputs
    <3>3. ending[output[i]] \in Returns
      BY <1>0, <3>1, <3>2 DEF Inv, TypeOK, CallsInOrder, OutcomeInv, RaisedAreMet, Raised, AllEndings
    <3> QED BY <1>2, <3>1, <3>2, <3>3 DEF OutcomeInv, OwnOutputs, OwnOutput
  <2> QED BY <1>2, <2>1 DEF OutcomeInv, OwnOutputs
<1>3. ASSUME overlapped = {} PROVE GatheredSoFar(output, Len(output))
  BY <1>0, <1>2, <1>3, GatheredAll DEF Inv
<1>4. /\ ReplyOf(output).messages = all.messages
      /\ ReplyOf(output).switch = IF all.ignored THEN None ELSE all.agent
  BY DEF ReplyOf
<1>5. ASSUME overlapped = {} PROVE Valued(output, Len(output)) = {c \in ToolCalls : GivesValue(c)}
  <2>1. ASSUME NEW c \in ToolCalls, GivesValue(c) PROVE \E i \in 1..Len(output) : output[i] = c
    <3>1. tool[c] = "over"
      <4>1. ending[c] # None
        BY <2>1 DEF GivesValue, AllEndings, Returns
      <4>2. UnderWay = {} /\ tool[c] \in {"ended", "over"}
        BY <1>0, <4>1 DEF Inv, CallsInOrder, WaitsForAll
      <4> QED BY <4>2 DEF UnderWay
    <3>2. c \in ToSet(output) /\ DOMAIN output = 1..Len(output)
      BY <1>0, <1>5, <3>1, ElementsType DEF OutcomeInv, OwnOutputs
    <3> QED BY <3>2 DEF ToSet
  <2> QED BY <2>1 DEF Valued
<1>6. SequentialResultsReachTheirCalls'
  <2> SUFFICES ASSUME overlapped = {}
               PROVE  /\ Len(all.messages) = Cardinality({c \in ToolCalls : GivesValue(c)})
                      /\ \A c \in ToolCalls : GivesValue(c) =>
                             \E i \in DOMAIN all.messages : all.messages[i] = [call |-> c, result |-> c]
    <3>1. {c \in ToolCalls : GivesValue(c)}' = {c \in ToolCalls : GivesValue(c)}
      BY <1>0 DEF GivesValue
    <3>2. \A c \in ToolCalls : GivesValue(c)' = GivesValue(c)
      BY <1>0 DEF GivesValue
    <3>3. reply'.messages = all.messages
      BY <1>0, <1>4
    <3> HIDE DEF all
    <3> QED BY <1>0, <3>1, <3>2, <3>3 DEF SequentialResultsReachTheirCalls, ResultsReachTheirCalls
  <2>1. all.messages \in Seq([call : ToolCalls, result : ToolCalls])
    BY <1>3 DEF GatheredSoFar
  <2>2. DOMAIN all.messages = 1..Len(all.messages)
    BY <2>1, LenProperties
  <2> QED BY <1>3, <1>5, <2>2 DEF GatheredSoFar
<1>7. NoDisputedSwitch'
  <2> DEFINE n == Len(output)
  <2> SUFFICES ASSUME overlapped = {}, n > 0
               PROVE  /\ GivesAgent(output[n]) /\ (\A i \in 1..(n - 1) : ~GivesAgent(output[i]))
                             => ReplyOf(output).switch = output[n]
                      /\ n > 1 /\ GivesAgent(output[n - 1]) => ReplyOf(output).switch = None
    BY <1>0, <1>1 DEF NoDisputedSwitch, GivesAgent
  <2>1. all.agent = Sanitize(output[n]).agent /\ output[n] \in ToolCalls /\ OwnOutput(output[n])
    <3>1. n \in 1..n
      BY <1>0
    <3> QED BY <1>0, <1>2, <3>1, GatheredAgent DEF Inv
  <2>2. all.agent = IF GivesAgent(output[n]) THEN output[n] ELSE None
    BY <2>1, SanitizeOwn
  <2>3. all.ignored <=> \E i \in 1..(n - 1) : GivesAgent(output[i]) /\ GivesAgent(output[i + 1])
    BY <1>3 DEF GatheredSoFar
  <2>4. GivesAgent(output[n]) /\ (\A i \in 1..(n - 1) : ~GivesAgent(output[i])) => ReplyOf(output).switch = output[n]
    BY <1>4, <2>2, <2>3
  <2>5. n > 1 /\ GivesAgent(output[n - 1]) => ReplyOf(output).switch = None
    <3> SUFFICES ASSUME n > 1, GivesAgent(output[n - 1]) PROVE ReplyOf(output).switch = None OBVIOUS
    <3>1. n - 1 \in 1..(n - 1) /\ n - 1 + 1 = n
      BY <1>0
    <3>2. GivesAgent(output[n]) => all.ignored
      BY <2>3, <3>1
    <3> QED BY <1>4, <2>2, <3>2
  <2> QED BY <2>4, <2>5
<1> QED BY <1>6, <1>7 DEF OutcomesReachTheirUse

\* The parts of the invariant that tell of the tools.
ToolsInv == RaisedAreMet /\ OwnOutputs

LEMMA TakingKeeps ==
    ASSUME Inv, ToolsInv, LLMEnds \/ IgnoreCall \/ (\E c \in ToolCalls : Call(c)) PROVE ToolsInv'
<1> USE DEF ToolsInv, RaisedAreMet, OwnOutputs, Raised, Become
<1>1. CASE LLMEnds
  BY <1>1 DEF LLMEnds, UnderWay
<1>2. CASE IgnoreCall
  <2>1. Head(function_ch) \in ToolCalls /\ tool[Head(function_ch)] = "called"
    BY <1>2, TailElements DEF IgnoreCall, Inv, TypeOK, CallsInOrder
  <2>2. UnderWay' = UnderWay /\ \A c \in ToolCalls : tool'[c] = "over" <=> tool[c] = "over"
    BY <1>2, <2>1 DEF IgnoreCall, UnderWay, Inv, TypeOK
  <2> QED BY <1>2, <2>2 DEF IgnoreCall
<1>3. ASSUME NEW c \in ToolCalls, Call(c) PROVE ToolsInv'
  <2>1. UnderWay' = UnderWay /\ \A d \in ToolCalls : tool'[d] = "over" <=> tool[d] = "over"
    BY <1>3 DEF Call, UnderWay, Inv, TypeOK
  <2> QED BY <1>3, <2>1 DEF Call
<1> QED BY <1>1, <1>2, <1>3

\* With nothing under way, the tool that starts is the one the callbacks will name.
LEMMA StartKeeps ==
    ASSUME Inv, ToolsInv, StartTool PROVE ToolsInv'
<1> DEFINE c == Head(function_ch)
<1>1. /\ c \in ToolCalls /\ tool[c] = "called" /\ exe = "stream" /\ bound' = c
      /\ tool' = [tool EXCEPT ![c] = "running"] /\ tasks' = tasks \cup {c}
      /\ overlapped' = overlapped \cup {t \in ToolCalls : tool[t] \in {"running", "ended"}}
      /\ UNCHANGED <<exe, exe_failed, ending, awaited, py_out, output>>
  BY TailElements DEF StartTool, Become, Inv, TypeOK, CallsInOrder
<1> HIDE DEF c
<1>2. \A d \in ToolCalls : tool'[d] = "over" <=> tool[d] = "over"
  BY <1>1 DEF Inv, TypeOK
<1>3. RaisedAreMet'
  BY <1>1, <1>2 DEF ToolsInv, RaisedAreMet, Raised
<1>4. overlapped' = {} => UnderWay = {}
  BY <1>1 DEF UnderWay, Inv, CancelledByFailure
<1>5. overlapped' = {} => UnderWay' \subseteq {bound'}
  BY <1>1, <1>4 DEF UnderWay, Inv, TypeOK
<1>6. overlapped' = {} => overlapped = {}
  BY <1>1
<1>7. OwnOutputs'
  BY <1>1, <1>2, <1>5, <1>6 DEF ToolsInv, OwnOutputs
<1> QED BY <1>3, <1>7 DEF ToolsInv

\* The gathers meet what has raised.
LEMMA GathersKeep ==
    ASSUME Inv, ToolsInv, GatherTools \/ GatherPending \/ GatherRaises \/ GatherReturns \/ CleanupEnds
    PROVE  ToolsInv'
<1> USE DEF ToolsInv, RaisedAreMet, OwnOutputs, Raised, Inv, CancelledByFailure
<1>1. CASE GatherTools
  BY <1>1 DEF GatherTools, UnderWay
<1>2. CASE GatherPending
  BY <1>2 DEF GatherPending, UnderWay
<1>3. CASE GatherRaises
  <2>1. UnderWay' = UnderWay /\ \A d \in ToolCalls : tool'[d] = "over" <=> tool[d] = "over"
    BY <1>3 DEF GatherRaises, UnderWay, TypeOK
  <2> QED BY <1>3, <2>1 DEF GatherRaises
<1>4. CASE GatherReturns
  BY <1>4 DEF GatherReturns, UnderWay
<1>5. CASE CleanupEnds
  BY <1>5 DEF CleanupEnds, UnderWay
<1> QED BY <1>1, <1>2, <1>3, <1>4, <1>5

\* A tool that ends is under way until its callback has run.
LEMMA ToolStepKeeps ==
    ASSUME Inv, ToolsInv, NEW c \in ToolCalls, ToolStep(c) PROVE ToolsInv'
<1>1. /\ UnderWay' \subseteq UnderWay
      /\ \A d \in ToolCalls : /\ tool'[d] = "over" <=> tool[d] = "over"
                              /\ tool[d] = "over" => ending'[d] = ending[d]
  BY DEF ToolStep, ToolCancelled, ToolEnds, Become, UnderWay, Inv, TypeOK
<1>2. UNCHANGED <<exe, exe_failed, tasks, awaited, bound, py_out, output, overlapped>>
  BY DEF ToolStep, ToolCancelled, ToolEnds
<1>3. RaisedAreMet'
  BY <1>1, <1>2 DEF ToolsInv, RaisedAreMet, Raised
<1>4. OwnOutputs'
  <2> SUFFICES ASSUME overlapped = {} PROVE OwnOutputs'
    BY <1>2 DEF OwnOutputs
  <2>1. {d \in ToolCalls : tool'[d] = "over"} = {d \in ToolCalls : tool[d] = "over"}
    BY <1>1
  <2>2. UnderWay' \subseteq {bound'} /\ IsInjective(output') /\ ToSet(output') = {d \in ToolCalls : tool'[d] = "over"}
    BY <1>1, <1>2, <2>1 DEF ToolsInv, OwnOutputs
  <2>3. ASSUME NEW d \in ToolCalls
        PROVE  /\ tool'[d] = "over" /\ ending'[d] \in Returns =>
                      py_out'[d].output = d /\ py_out'[d].exception = None
               /\ tool'[d] # "over" => py_out'[d].output = None /\ py_out'[d].exception = None
    BY <1>1, <1>2 DEF ToolsInv, OwnOutputs
  <2> QED BY <1>2, <2>2, <2>3 DEF OwnOutputs
<1> QED BY <1>3, <1>4 DEF ToolsInv

\* The callback writes to the output of the last call that was started.
LEMMA CallbackKeeps ==
    ASSUME Inv, ToolsInv, ToolCallback PROVE ToolsInv'
<1> DEFINE c == Head(ready)
<1>1. /\ c \in ToolCalls /\ tool[c] = "ended" /\ bound \in ToolCalls /\ ending[c] # None
      /\ tool' = [tool EXCEPT ![c] = "over"]
      /\ output' = Append(output, bound)
      /\ UNCHANGED <<exe, exe_failed, ending, awaited, bound, overlapped>>
  BY TailElements DEF ToolCallback, Become, Inv, TypeOK, CallsInOrder, UnderWay
<1>2. IF ending[c] \in Raises
      THEN py_out' = [py_out EXCEPT ![bound].exception = c] /\ tasks' = tasks
      ELSE py_out' = [py_out EXCEPT ![bound].output = c] /\ tasks' = tasks \ {c}
  BY DEF ToolCallback
<1> HIDE DEF c
<1>3. \A d \in ToolCalls : tool'[d] = "over" <=> tool[d] = "over" \/ d = c
  BY <1>1 DEF Inv, TypeOK
<1>4. RaisedAreMet'
  <2> SUFFICES ASSUME NEW d \in ToolCalls, tool'[d] = "over", ending[d] \in Raises
               PROVE  /\ d \in tasks'
                      /\ exe \in {"gather", "pending", "cleanup"} => d \in awaited
                      /\ exe = "over" => exe_failed
    BY <1>1 DEF RaisedAreMet, Raised
  <2>1. CASE d = c
    BY <1>1, <1>2, <2>1 DEF Inv, WaitsForAll, UnderWay
  <2>2. CASE d # c
    BY <1>1, <1>2, <1>3, <2>2 DEF ToolsInv, RaisedAreMet, Raised
  <2> QED BY <2>1, <2>2
<1>5. OwnOutputs'
  <2> SUFFICES ASSUME overlapped = {} PROVE OwnOutputs'
    BY <1>1 DEF OwnOutputs
  <2>1. bound = c /\ UnderWay' \subseteq UnderWay
    BY <1>1 DEF UnderWay, ToolsInv, OwnOutputs, Inv, TypeOK
  <2>2. /\ output' = Append(output, c) /\ c \notin ToSet(output) /\ output \in Seq(ToolCalls)
    BY <1>1, <2>1 DEF ToolsInv, OwnOutputs, Inv, TypeOK
  <2>3. /\ IsInjective(output') /\ ToSet(output') = ToSet(output) \cup {c}
    BY <1>1, <2>2, AppendElements DEF ToolsInv, OwnOutputs
  <2>4. ToSet(output') = {d \in ToolCalls : tool'[d] = "over"}
    BY <1>1, <1>3, <2>3 DEF ToolsInv, OwnOutputs
  <2>5. py_out[c].output = None /\ py_out[c].exception = None
    BY <1>1 DEF ToolsInv, OwnOutputs
  <2>6. /\ \A d \in ToolCalls \ {c} : py_out'[d] = py_out[d]
        /\ ending[c] \in Returns => py_out'[c].output = c /\ py_out'[c].exception = None
    BY <1>1, <1>2, <2>1, <2>5 DEF Inv, TypeOK, Returns, Raises
  <2>7. ASSUME NEW d \in ToolCalls
        PROVE  /\ tool'[d] = "over" /\ ending'[d] \in Returns =>
                      py_out'[d].output = d /\ py_out'[d].exception = None
               /\ tool'[d] # "over" => py_out'[d].output = None /\ py_out'[d].exception = None
    BY <1>1, <1>3, <2>6 DEF ToolsInv, OwnOutputs
  <2> QED BY <1>1, <2>1, <2>3, <2>4, <2>7 DEF OwnOutputs, ToolsInv
<1> QED BY <1>4, <1>5 DEF ToolsInv

\* The steps of the reply's task.
LEMMA SpeechKeeps ==
    ASSUME Inv, ToolsInv, SpeechStep \/ Interrupt \/ UNCHANGED vars PROVE ToolsInv'
<1>1. /\ UNCHANGED <<exe_failed, tool, ending, tasks, awaited, bound, py_out, output, overlapped>>
      /\ exe' = exe \/ (exe = "cleanup" /\ exe' = "over")
  BY DEF SpeechStep, AwaitTools, CancelTools, InterruptedEnds, ToolsFail, Respond, Interrupt, vars
<1> QED BY <1>1 DEF ToolsInv, RaisedAreMet, Raised, OwnOutputs, UnderWay, Inv, CancelledByFailure

LEMMA OutcomeNext == Inv /\ OutcomeInv /\ [Next]_vars => OutcomeInv'
<1> SUFFICES ASSUME Inv, OutcomeInv, [Next]_vars PROVE OutcomeInv' OBVIOUS
<1>1. ToolsInv'
  <2>1. ToolsInv
    BY DEF OutcomeInv, ToolsInv
  <2> QED BY <2>1, TakingKeeps, StartKeeps, GathersKeep, ToolStepKeeps, CallbackKeeps, SpeechKeeps
             DEF Next, ExeStep
<1>2. CASE Respond
  <2>1. speech' = "replied" /\ ~exe_failed'
    BY <1>2 DEF Respond
  <2> QED BY <1>1, <1>2, <2>1, RespondOutcome DEF OutcomeInv, ToolsInv
<1>3. CASE ~Respond
  <2>1. UNCHANGED reply /\ (speech' = "replied" <=> speech = "replied")
    BY <1>3 DEF Next, ExeStep, SpeechStep, ToolStep, Call, LLMEnds, IgnoreCall, StartTool, GatherTools,
         GatherPending, GatherRaises, GatherReturns, CleanupEnds, ToolEnds, ToolCancelled, ToolCallback,
         Interrupt, AwaitTools, CancelTools, InterruptedEnds, ToolsFail, vars
  <2>2. ASSUME speech = "replied" PROVE UNCHANGED <<output, ending, overlapped, exe_failed>>
    <3>1. exe = "over" /\ UnderWay = {} /\ ready = <<>>
      <4>1. exe = "over" /\ UnderWay = {}
        BY <2>2 DEF Inv, WaitsForAll, SpeechOver, OutcomeInv
      <4>2. ready # <<>> => Head(ready) \in UnderWay
        BY TailElements DEF Inv, TypeOK, CallsInOrder, UnderWay
      <4> QED BY <4>1, <4>2
    <3>2. \A c \in ToolCalls : ~ToolStep(c)
      BY <3>1 DEF UnderWay, ToolStep, ToolCancelled, ToolEnds
    <3> QED BY <3>1, <3>2 DEF Next, ExeStep, SpeechStep, Call, LLMEnds, IgnoreCall, StartTool, GatherTools,
         GatherPending, GatherRaises, GatherReturns, CleanupEnds, ToolCallback,
         Interrupt, AwaitTools, CancelTools, InterruptedEnds, ToolsFail, Respond, vars
  <2>3. /\ speech' # "replied" => reply' = NoReply
        /\ speech' = "replied" => ~exe_failed'
        /\ OutcomesReachTheirUse'
    BY <2>1, <2>2, ReplyStays
  <2> QED BY <1>1, <2>3 DEF OutcomeInv, ToolsInv
<1> QED BY <1>2, <1>3

\* The reply that follows the tools tells the LLM the value of each that returned one, once and under
\* its call, when no two of them overlapped; and the session goes to an agent only if a tool of this
\* speech gave it, the last one when they did not overlap, unless the one before gave one too
\* (voice/generation.py:340-415, 450-551, agent_activity.py:983-1031).
THEOREM OutcomesAreTold == Spec => []OutcomesReachTheirUse
<1>1. Spec => [](Inv /\ OutcomeInv)
  BY InitInv, NextInv, OutcomeInit, OutcomeNext, PTL DEF Spec
<1>2. OutcomeInv => OutcomesReachTheirUse
  BY DEF OutcomeInv
<1> QED BY <1>1, <1>2, PTL

=============================================================================
