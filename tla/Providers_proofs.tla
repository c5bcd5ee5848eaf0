--------------------------- MODULE Providers_proofs ---------------------------
(***************************************************************************)
(* Proofs about the connections to the providers, for any number of        *)
(* streams, connections, frames and calls.  Of the recognitions: every     *)
(* attempt is used, the speech that silero detects is heard whole, the     *)
(* audio of a stream is sent in order and the events tell of one speech    *)
(* after the other.  Of ConnectionPool: what a stream holds is its own,    *)
(* and what the pool closes it can no longer hand out.                     *)
(***************************************************************************)
EXTENDS ConnectionPool, SpeechToText, SequenceLemmas, TLAPS

----------------------------------------------------------------------------
(* Recognition of a whole utterance: the retries *)

\* A call that waits for the service or before it asks again has attempts left.
AttemptsLeft ==
    /\ \A c \in Recognitions :
          /\ recognition[c].stage \in {"none", "asking", "sleeping"} => recognition[c].attempts <= MaxRetry
          /\ recognition[c].stage \in {"asked", "sleeping"} => recognition[c].attempts # 0

\* What a provider raises is an error; it returns only what it was told of the audio.
LEMMA RaisedType ==
    ASSUME RecognizeAssumption, recognizer \in Recognizers, NEW answer \in ServiceAnswers
    PROVE  /\ Raised(answer) \subseteq Errors \cup Others \cup {"none"}
           /\ "none" \in Raised(answer) => answer \in {"text", "silence"}
<1>1. recognizer \in {"deepgram", "openai", "google", "fal", "clova"}
  BY DEF RecognizeAssumption
<1>2. answer \in {"text", "silence", "refused", "late", "lost"}
  BY DEF ServiceAnswers
<1> USE DEF Raised, Errors, Others
<1>3. CASE recognizer = "deepgram"
  BY <1>2, <1>3 DEF DeepgramRaises
<1>4. CASE recognizer = "openai"
  BY <1>2, <1>4 DEF OpenAIRaises
<1>5. CASE recognizer = "google"
  BY <1>2, <1>5 DEF GoogleRaises, OpenAIRaises
<1>6. CASE recognizer = "fal"
  BY <1>2, <1>6 DEF FalRaises
<1>7. CASE recognizer = "clova"
  BY <1>2, <1>7 DEF ClovaRaises
<1> QED BY <1>1, <1>3, <1>4, <1>5, <1>6, <1>7

LEMMA RecognizeStep ==
    ASSUME RecognizeAssumption, RecognizeTypeOK, AttemptsLeft, EveryAttemptUsed, [RecognizeNext]_recognizeVars
    PROVE  RecognizeTypeOK' /\ AttemptsLeft' /\ EveryAttemptUsed'
<1> USE DEF RecognizeTypeOK, AttemptsLeft, EveryAttemptUsed, At
<1>0. MaxRetry \in Nat /\ MaxOptions \in Nat
  BY DEF RecognizeAssumption
<1>1. CASE UpdateLanguage
  BY <1>0, <1>1 DEF UpdateLanguage
<1>2. CASE UNCHANGED recognizeVars
  BY <1>2 DEF recognizeVars
<1>3. ASSUME NEW c \in Recognitions, Begin(c) PROVE RecognizeTypeOK' /\ AttemptsLeft' /\ EveryAttemptUsed'
  <2>1. PICK given \in Languages \cup {NotGiven} :
            recognition' = [recognition EXCEPT ![c].stage = "asking", ![c].given = given]
    BY <1>3 DEF Begin
  <2>2. [recognition[c] EXCEPT !.stage = "asking", !.given = given] \in
            [stage : RecognitionStages, given : Languages \cup {NotGiven}, attempts : 0 .. MaxRetry + 1,
             answer : ServiceAnswers \cup {"none"}, error : Errors \cup Others \cup {"none"}]
    BY DEF RecognitionStages
  <2>3. UNCHANGED <<recognizer, language, options>>
    BY <1>3 DEF Begin
  <2>4. RecognizeTypeOK'
    BY <2>1, <2>2, <2>3
  <2>5. AttemptsLeft'
    BY <1>0, <1>3, <2>1 DEF Begin
  <2>6. EveryAttemptUsed'
    BY <2>1
  <2> QED BY <2>4, <2>5, <2>6
<1>4. ASSUME NEW c \in Recognitions, RecognizerAsks(c)
      PROVE  RecognizeTypeOK' /\ AttemptsLeft' /\ EveryAttemptUsed'
  <2>1. Chosen(c) \in Languages
    BY <1>4 DEF Chosen
  <2>2. recognition[c].attempts + 1 \in 0..MaxRetry + 1
    BY <1>0, <1>4 DEF RecognizerAsks
  <2> QED BY <1>0, <1>4, <2>1, <2>2 DEF RecognizerAsks, RecognitionStages
<1>5. ASSUME NEW c \in Recognitions, RecognizerAnswers(c)
      PROVE  RecognizeTypeOK' /\ AttemptsLeft' /\ EveryAttemptUsed'
  <2>1. PICK answer \in ServiceAnswers : \E error \in Raised(answer) :
            recognition' = [recognition EXCEPT ![c].answer = answer, ![c].error = error,
                ![c].stage = IF error = "none" THEN "returned" ELSE AfterError(c, error)]
    BY <1>5 DEF RecognizerAnswers
  <2>2. PICK error \in Raised(answer) :
            recognition' = [recognition EXCEPT ![c].answer = answer, ![c].error = error,
                ![c].stage = IF error = "none" THEN "returned" ELSE AfterError(c, error)]
    BY <2>1
  <2>3. /\ error \in Errors \cup Others \cup {"none"}
        /\ error = "none" => answer \in {"text", "silence"}
    BY <2>2, RaisedType
  <2>4. "none" \notin Errors \cup Others /\ Errors \cap Others = {}
    BY DEF Errors, Others
  <2> DEFINE stage == IF error = "none" THEN "returned" ELSE AfterError(c, error)
  <2>5. stage \in {"returned", "raised", "sleeping"}
    BY DEF AfterError
  <2>6. /\ stage = "sleeping" => recognition[c].attempts <= MaxRetry
        /\ stage = "raised" /\ error \in Errors => recognition[c].attempts = MaxRetry + 1
        /\ stage = "returned" => error = "none"
    BY <1>0, <2>4 DEF AfterError
  <2>7. recognition[c].attempts # 0
    BY <1>5 DEF RecognizerAnswers
  <2>8. recognition' = [recognition EXCEPT ![c].answer = answer, ![c].error = error, ![c].stage = stage]
    BY <2>2
  <2>9. UNCHANGED <<recognizer, language, options>>
    BY <1>5 DEF RecognizerAnswers
  <2> HIDE DEF stage
  <2>a. RecognizeTypeOK'
    <3>1. [recognition[c] EXCEPT !.answer = answer, !.error = error, !.stage = stage] \in
              [stage : RecognitionStages, given : Languages \cup {NotGiven}, attempts : 0 .. MaxRetry + 1,
               answer : ServiceAnswers \cup {"none"}, error : Errors \cup Others \cup {"none"}]
      BY <2>3, <2>5 DEF RecognitionStages
    <3> QED BY <2>8, <2>9, <3>1
  <2>b. AttemptsLeft'
    BY <1>0, <2>5, <2>6, <2>7, <2>8
  <2>c. EveryAttemptUsed'
    BY <1>0, <2>3, <2>4, <2>5, <2>6, <2>8
  <2> QED BY <2>a, <2>b, <2>c
<1>6. ASSUME NEW c \in Recognitions, Slept(c) PROVE RecognizeTypeOK' /\ AttemptsLeft' /\ EveryAttemptUsed'
  BY <1>0, <1>6 DEF Slept, RecognitionStages
<1> QED BY <1>1, <1>2, <1>3, <1>4, <1>5, <1>6 DEF RecognizeNext

LEMMA RecognizeSafe ==
    RecognizeSpec => [](RecognizeTypeOK /\ EveryAttemptUsed)
<1>1. RecognizeInit => RecognizeTypeOK /\ AttemptsLeft /\ EveryAttemptUsed
  BY RecognizeAssumption
     DEF RecognizeAssumption, RecognizeInit, Fresh, RecognizeTypeOK, AttemptsLeft, EveryAttemptUsed, At, RecognitionStages
<1>2. RecognizeTypeOK /\ AttemptsLeft /\ EveryAttemptUsed /\ [RecognizeNext]_recognizeVars
        => (RecognizeTypeOK /\ AttemptsLeft /\ EveryAttemptUsed)'
  BY RecognizeAssumption, RecognizeStep
<1> QED BY <1>1, <1>2, PTL DEF RecognizeSpec

----------------------------------------------------------------------------
(* The detection of speech *)

\* The buffer fits, until an update makes it smaller; a buffer that is too small is all that fails.
VadShape ==
    /\ vadOpts.speech \in Nat \ {0} /\ {vadOpts.silence, vadOpts.padding, vadOpts.buffered} \subseteq Nat
    /\ capacity = vadOpts.buffered + vadOpts.padding
    /\ ~shrunk => Len(speechBuffer) <= capacity
    /\ vadUpdates = 0 => ~shrunk
    /\ speechSpan <= vadWindow /\ silenceSpan <= vadWindow
    /\ vadRun = "failed" => shrunk
    /\ \A k \in 1..Len(vadEvents) : vadEvents[k].at <= vadWindow

Lesser(a, b) == IF a <= b THEN a ELSE b

\* The first window the buffer holds, when none was dropped.
FirstHeld ==
    IF pubSpeaking THEN FirstHeard(vadEvents[Len(vadEvents)])
    ELSE vadWindow + 1 - Lesser(vadWindow, vadOpts.padding + speechSpan)

\* What was told last.
ToldLast == IF Len(vadEvents) = 0 THEN "end" ELSE vadEvents[Len(vadEvents)].type

\* A speech that is told of goes on in the buffer.
VadHolds ==
    /\ vadRun = "runs" => (pubSpeaking <=> ToldLast = "start")
    /\ vadUpdates = 0 =>
         /\ Rises(speechBuffer) /\ \A i \in 1..Len(speechBuffer) : speechBuffer[i] <= vadWindow
         /\ pubSpeaking => Len(vadEvents) # 0 /\ IsPrefix(vadEvents[Len(vadEvents)].frames, speechBuffer)
         /\ ~pubSpeaking => speechSpan < vadOpts.speech
    /\ vadUpdates = 0 /\ ~dropped => speechBuffer = Windows(FirstHeld, vadWindow)

VadInv == VadTypeOK /\ VadShape /\ VadHolds /\ SpeechIsHeard


----------------------------------------------------------------------------

LEMMA PrefixAt ==
    ASSUME NEW S, NEW s \in Seq(S), NEW t \in Seq(S)
    PROVE  IsPrefix(s, t) <=> (Len(s) <= Len(t) /\ \A i \in 1..Len(s) : s[i] = t[i])
<1> DEFINE n == Len(s)
           a == SubSeq(s, 1, n)
           b == SubSeq(t, 1, n)
<1>1. n \in Nat /\ Len(t) \in Nat /\ \A i \in 1..n : s[i] \in S
  BY LenProperties, ElementOfSeq
<1> SUFFICES ASSUME n <= Len(t) PROVE a = b <=> \A i \in 1..n : s[i] = t[i]
  BY DEF IsPrefix
<1>2. \A i \in 1..n : t[i] \in S
  BY <1>1, ElementOfSeq
<1>3. 1 \in Int /\ n \in Int /\ (IF 1 <= n THEN n - 1 + 1 ELSE 0) = n
  BY <1>1
<1>4. a \in Seq(S) /\ Len(a) = n /\ \A i \in 1..n - 1 + 1 : a[i] = s[1 + i - 1]
  BY <1>1, <1>3, SubSeqProperties
<1>5. b \in Seq(S) /\ Len(b) = n /\ \A i \in 1..n - 1 + 1 : b[i] = t[1 + i - 1]
  BY <1>2, <1>3, SubSeqProperties
<1>6. n - 1 + 1 = n /\ \A i \in 1..n : 1 + i - 1 = i
  BY <1>1
<1>7. \A i \in 1..n : a[i] = s[i] /\ b[i] = t[i]
  BY <1>4, <1>5, <1>6
<1>8. a = b <=> \A i \in 1..n : a[i] = b[i]
  BY <1>4, <1>5, SeqEqual
<1> QED BY <1>7, <1>8

LEMMA WindowsAt ==
    ASSUME NEW a \in Nat, NEW b \in Nat, a <= b + 1
    PROVE  /\ Windows(a, b) \in Seq(Nat) /\ Len(Windows(a, b)) = b + 1 - a /\ b + 1 - a \in Nat
           /\ \A i \in 1..(b + 1 - a) : Windows(a, b)[i] = a + i - 1
<1> DEFINE n == b + 1 - a
<1>1. n \in Nat
  OBVIOUS
<1>2. [i \in 1..n |-> a + i - 1] \in [1..n -> Nat]
  BY <1>1
<1>3. Windows(a, b) \in Seq(Nat) /\ DOMAIN Windows(a, b) = 1..n
  BY <1>1, <1>2 DEF Windows
<1>4. Len(Windows(a, b)) = n
  <2>1. Len(Windows(a, b)) \in Nat /\ 1..Len(Windows(a, b)) = 1..n
    BY <1>3, LenProperties
  <2> QED BY <1>1, <2>1
<1> QED BY <1>1, <1>3, <1>4 DEF Windows

\* One window more.
LEMMA WindowsAppend ==
    ASSUME NEW a \in Nat, NEW b \in Nat, a <= b + 1
    PROVE  Append(Windows(a, b), b + 1) = Windows(a, b + 1)
<1> DEFINE s == Windows(a, b)
           t == Windows(a, b + 1)
           n == b + 1 - a
<1>1. s \in Seq(Nat) /\ Len(s) = n /\ n \in Nat /\ \A i \in 1..n : s[i] = a + i - 1
  BY WindowsAt
<1>2. a <= (b + 1) + 1 /\ b + 1 \in Nat /\ (b + 1) + 1 - a = n + 1
  OBVIOUS
<1>3. t \in Seq(Nat) /\ Len(t) = n + 1 /\ \A i \in 1..(n + 1) : t[i] = a + i - 1
  BY <1>2, WindowsAt
<1> HIDE DEF s, t
<1>4. /\ Append(s, b + 1) \in Seq(Nat) /\ Len(Append(s, b + 1)) = n + 1
      /\ \A i \in 1..n : Append(s, b + 1)[i] = s[i]
      /\ Append(s, b + 1)[n + 1] = b + 1
  BY <1>1, <1>2, AppendProperties
<1>5. ASSUME NEW i \in 1..(n + 1) PROVE Append(s, b + 1)[i] = t[i]
  <2>1. CASE i = n + 1
    BY <1>1, <1>3, <1>4, <2>1
  <2>2. CASE i # n + 1
    <3>1. i \in 1..n
      BY <1>1, <2>2
    <3> QED BY <1>1, <1>3, <1>4, <3>1
  <2> QED BY <2>1, <2>2
<1>6. Append(s, b + 1) = t
  BY <1>3, <1>4, <1>5, SeqEqual
<1> QED BY <1>6 DEF s, t

\* The last n of them.
LEMMA WindowsLast ==
    ASSUME NEW a \in Nat, NEW b \in Nat, a <= b + 1, NEW n \in Nat, n <= b + 1 - a,
           NEW len, len = b + 1 - a
    PROVE  SubSeq(Windows(a, b), len - n + 1, len) = Windows(b + 1 - n, b)
<1> DEFINE s == Windows(a, b)
           m == len - n + 1
           u == SubSeq(s, m, len)
           t == Windows(b + 1 - n, b)
<1>1. s \in Seq(Nat) /\ Len(s) = len /\ len \in Nat /\ \A i \in 1..len : s[i] = a + i - 1
  BY WindowsAt
<1>2. b + 1 - n \in Nat /\ b + 1 - n <= b + 1 /\ b + 1 - (b + 1 - n) = n
  OBVIOUS
<1>3. t \in Seq(Nat) /\ Len(t) = n /\ \A i \in 1..n : t[i] = (b + 1 - n) + i - 1
  BY <1>2, WindowsAt
<1>4. m \in Int /\ len \in Int /\ m \in 1..(len + 1) /\ m..len \subseteq 1..len /\ len - m + 1 = n
  BY <1>1
<1> HIDE DEF s, t, m
<1>5. \A i \in m..len : s[i] \in Nat
  BY <1>1, <1>4, ElementOfSeq
<1>6. /\ u \in Seq(Nat) /\ Len(u) = IF m <= len THEN len - m + 1 ELSE 0
      /\ \A i \in 1..(len - m + 1) : u[i] = s[m + i - 1]
  BY <1>4, <1>5, SubSeqProperties
<1>7. Len(u) = n
  BY <1>1, <1>4, <1>6
<1>8. ASSUME NEW i \in 1..n PROVE u[i] = t[i]
  <2>1. u[i] = s[m + i - 1]
    BY <1>4, <1>6
  <2>2. m + i - 1 \in 1..len /\ a + (m + i - 1) - 1 = (b + 1 - n) + i - 1
    BY <1>1, <1>4 DEF m
  <2>3. s[m + i - 1] = a + (m + i - 1) - 1
    BY <1>1, <2>2
  <2> QED BY <1>3, <2>1, <2>2, <2>3
<1>9. u = t
  BY <1>3, <1>6, <1>7, <1>8, SeqEqual
<1> QED BY <1>9 DEF s, t, m

LEMMA MinOfTwo ==
    ASSUME NEW a \in Nat, NEW b \in Nat
    PROVE  Min({a, b}) = Lesser(a, b)
BY MinIsLeast DEF Lesser

----------------------------------------------------------------------------

VadEventType == [type : {"start", "end"}, at : 1..MaxWindows, frames : Seq(0..MaxWindows)]

LEMMA FirstHeardBound ==
    ASSUME NEW e \in VadEventType, vadOpts.speech \in Nat, vadOpts.padding \in Nat, MaxWindows \in Nat
    PROVE  /\ FirstHeard(e) = e.at + 1 - Lesser(e.at, vadOpts.padding + vadOpts.speech)
           /\ FirstHeard(e) \in Nat \ {0} /\ FirstHeard(e) <= e.at + 1
           /\ e.at \in Nat \ {0} /\ e.at <= MaxWindows /\ e.frames \in Seq(0..MaxWindows)
<1>1. e.at \in Nat \ {0} /\ e.at <= MaxWindows /\ e.frames \in Seq(0..MaxWindows)
  BY DEF VadEventType
<1>2. vadOpts.padding + vadOpts.speech \in Nat
  OBVIOUS
<1>3. Min({e.at, vadOpts.padding + vadOpts.speech}) = Lesser(e.at, vadOpts.padding + vadOpts.speech)
  BY <1>1, <1>2, MinOfTwo
<1>4. Lesser(e.at, vadOpts.padding + vadOpts.speech) \in Nat /\ Lesser(e.at, vadOpts.padding + vadOpts.speech) <= e.at
  BY <1>1, <1>2 DEF Lesser
<1> QED BY <1>1, <1>3, <1>4 DEF FirstHeard

\* What is heard stays so, when nothing is told and no option changes.
LEMMA NothingTold ==
    ASSUME VadTypeOK, SpeechIsHeard, UNCHANGED <<vadEvents, vadOpts, vadUpdates>>, dropped => dropped'
    PROVE  SpeechIsHeard'
<1>1. \A k : Opening(k)' = Opening(k)
  BY DEF Opening
<1>2. \A e : FirstHeard(e)' = FirstHeard(e)
  BY DEF FirstHeard
<1>3. \A k \in DOMAIN vadEvents : HeardAt(k) => HeardAt(k)'
  BY <1>1, <1>2 DEF HeardAt, IsPrefix, Rises
<1> QED BY <1>3 DEF SpeechIsHeard

\* An event is told with what was copied.
LEMMA EventTold ==
    ASSUME VadAssumption, VadTypeOK, VadShape, SpeechIsHeard, vadWindow < MaxWindows,
           NEW type, type = IF ToldLast = "end" THEN "start" ELSE "end",
           Tells(type), Copied \in Seq(0..MaxWindows), UNCHANGED <<vadOpts, vadUpdates>>, dropped => dropped',
           vadUpdates = 0 => Rises(Copied),
           vadUpdates = 0 /\ type = "end" => IsPrefix(vadEvents[Len(vadEvents)].frames, Copied),
           vadUpdates = 0 /\ ~dropped' /\ type = "end" =>
                Copied = Windows(FirstHeard(vadEvents[Len(vadEvents)]), vadWindow + 1),
           vadUpdates = 0 /\ ~dropped' /\ type = "start" =>
                Copied = Windows(vadWindow + 2 - Lesser(vadWindow + 1, vadOpts.padding + vadOpts.speech), vadWindow + 1)
    PROVE  /\ SpeechIsHeard' /\ vadEvents' \in Seq(VadEventType) /\ Len(vadEvents') = Len(vadEvents) + 1
           /\ ToldLast' = type
           /\ \A k \in 1..Len(vadEvents') : vadEvents'[k].at <= vadWindow + 1
           /\ vadEvents'[Len(vadEvents')] = [type |-> type, at |-> vadWindow + 1, frames |-> Copied]
<1> DEFINE e == [type |-> type, at |-> vadWindow + 1, frames |-> Copied]
<1>1. vadWindow \in Nat /\ MaxWindows \in Nat /\ vadWindow + 1 \in 1..MaxWindows
  BY DEF VadTypeOK, VadAssumption
<1>2. e \in VadEventType /\ e.type = type /\ e.at = vadWindow + 1 /\ e.frames = Copied
  BY <1>1 DEF VadEventType
<1>3. vadEvents \in Seq(VadEventType) /\ Len(vadEvents) \in Nat
  BY LenProperties DEF VadTypeOK, VadEventType
<1> PICK n \in Nat : n = Len(vadEvents)
  BY <1>3
<1>t. \A k \in 1..n : vadEvents[k] \in VadEventType
  BY <1>3, ElementOfSeq
<1> HIDE DEF e
<1>4. vadEvents' = Append(vadEvents, e)
  BY DEF Tells, e
<1>5. /\ vadEvents' \in Seq(VadEventType) /\ Len(vadEvents') = n + 1
      /\ \A k \in 1..n : vadEvents'[k] = vadEvents[k]
      /\ vadEvents'[n + 1] = e
  BY <1>2, <1>3, <1>4, AppendProperties
<1>6. \A k \in 1..Len(vadEvents') : vadEvents'[k].at <= vadWindow + 1
  <2>1. \A k \in 1..n : vadEvents[k].at <= vadWindow /\ vadEvents[k].at \in Nat
    BY <1>t DEF VadShape, VadEventType
  <2>2. ASSUME NEW k \in 1..n + 1 PROVE vadEvents'[k].at <= vadWindow + 1
    <3>1. CASE k = n + 1
      BY <1>1, <1>2, <1>5, <3>1
    <3>2. CASE k # n + 1
      <4>1. k \in 1..n
        BY <3>2
      <4>2. vadEvents'[k] = vadEvents[k] /\ vadEvents[k].at <= vadWindow /\ vadEvents[k].at \in Nat
        BY <1>5, <2>1, <4>1
      <4> QED BY <1>1, <4>2
    <3> QED BY <3>1, <3>2
  <2> QED BY <1>5, <2>2
<1>7. DOMAIN vadEvents = 1..n /\ DOMAIN vadEvents' = 1..n + 1
  BY <1>3, <1>5, LenProperties
<1>8. \A x : FirstHeard(x)' = FirstHeard(x)
  BY DEF FirstHeard
<1>9. \A k \in 1..n : HeardAt(k)
  BY <1>7 DEF SpeechIsHeard
<1>a. ASSUME NEW k \in 1..n PROVE HeardAt(k)'
  <2>1. vadEvents'[k] = vadEvents[k] /\ (k > 1 => vadEvents'[k - 1] = vadEvents[k - 1])
    <3>1. k > 1 => k - 1 \in 1..n
      OBVIOUS
    <3> QED BY <1>5, <3>1
  <2>2. Opening(k)' = Opening(k)
    <3>1. CASE vadEvents[k].type = "start"
      BY <2>1, <3>1 DEF Opening
    <3>2. CASE vadEvents[k].type # "start"
      <4>1. k > 1
        BY <1>9, <3>2 DEF HeardAt
      <4> QED BY <2>1, <3>2, <4>1 DEF Opening
    <3> QED BY <3>1, <3>2
  <2> QED BY <1>8, <1>9, <2>1, <2>2 DEF HeardAt, IsPrefix, Rises
<1>b. HeardAt(n + 1)'
  <2>1. n + 1 - 1 = n /\ (n + 1 > 1 <=> n # 0)
    OBVIOUS
  <2>2. n # 0 => n \in 1..n /\ vadEvents[n].type \in {"start", "end"}
    BY <1>t DEF VadEventType
  <2>3. type = IF n # 0 /\ vadEvents[n].type = "start" THEN "end" ELSE "start"
    BY <2>2 DEF ToldLast
  <2>4. n # 0 => vadEvents'[n] = vadEvents[n]
    BY <1>5, <2>2
  <2>5. vadEvents'[n + 1].type = IF n + 1 > 1 /\ vadEvents'[n + 1 - 1].type = "start" THEN "end" ELSE "start"
    BY <1>2, <1>5, <2>1, <2>3, <2>4
  <2>6. CASE type = "start"
    <3>1. Opening(n + 1)' = e
      <4>1. vadEvents'[n + 1].type = "start"
        BY <1>2, <1>5, <2>6
      <4> QED BY <1>5, <4>1 DEF Opening
    <3>2. Len(e.frames) \in Nat /\ IsPrefix(e.frames, e.frames)
      BY <1>2, LenProperties DEF IsPrefix
    <3>3. FirstHeard(e) = e.at + 1 - Lesser(e.at, vadOpts.padding + vadOpts.speech)
      BY <1>1, <1>2, FirstHeardBound DEF VadShape
    <3>4. FirstHeard(e) = vadWindow + 2 - Lesser(vadWindow + 1, vadOpts.padding + vadOpts.speech)
      <4>1. e.at = vadWindow + 1
        BY <1>2
      <4>2. Lesser(e.at, vadOpts.padding + vadOpts.speech) = Lesser(vadWindow + 1, vadOpts.padding + vadOpts.speech)
        BY <4>1
      <4>3. Lesser(e.at, vadOpts.padding + vadOpts.speech) \in Nat
        <5>1. vadOpts.padding + vadOpts.speech \in Nat
          BY DEF VadShape
        <5> QED BY <1>1, <4>1, <5>1 DEF Lesser
      <4>4. \A x, y, z \in Nat : x = y + 1 => x + 1 - z = y + 2 - z
        OBVIOUS
      <4>5. e.at + 1 - Lesser(e.at, vadOpts.padding + vadOpts.speech)
              = vadWindow + 2 - Lesser(e.at, vadOpts.padding + vadOpts.speech)
        BY <1>1, <4>1, <4>3, <4>4
      <4> QED BY <3>3, <4>2, <4>5
    <3>5. vadUpdates' = 0 => IsPrefix(Opening(n + 1)'.frames, vadEvents'[n + 1].frames) /\ Rises(vadEvents'[n + 1].frames)
      BY <1>2, <1>5, <3>1, <3>2
    <3>6. vadUpdates' = 0 /\ ~dropped' =>
            vadEvents'[n + 1].frames = Windows(FirstHeard(Opening(n + 1))', vadEvents'[n + 1].at)
      BY <1>2, <1>5, <1>8, <2>6, <3>1, <3>4
    <3> QED BY <2>5, <3>5, <3>6 DEF HeardAt
  <2>7. CASE type = "end"
    <3>1. Opening(n + 1)' = vadEvents[n]
      <4>1. vadEvents'[n + 1].type # "start"
        BY <1>2, <1>5, <2>7
      <4>2. n # 0
        BY <2>3, <2>7
      <4> QED BY <2>1, <2>4, <4>1, <4>2 DEF Opening
    <3>2. vadUpdates' = 0 => IsPrefix(Opening(n + 1)'.frames, vadEvents'[n + 1].frames) /\ Rises(vadEvents'[n + 1].frames)
      BY <1>2, <1>5, <2>7, <3>1
    <3>3. vadUpdates' = 0 /\ ~dropped' =>
            vadEvents'[n + 1].frames = Windows(FirstHeard(Opening(n + 1))', vadEvents'[n + 1].at)
      BY <1>2, <1>5, <1>8, <2>7, <3>1
    <3> QED BY <2>5, <3>2, <3>3 DEF HeardAt
  <2> QED BY <2>3, <2>6, <2>7
<1>c. SpeechIsHeard'
  <2>1. \A k \in 1..n + 1 : HeardAt(k)'
    <3>1. ASSUME NEW k \in 1..n + 1 PROVE HeardAt(k)'
      <4>1. k = n + 1 \/ k \in 1..n
        OBVIOUS
      <4> QED BY <1>a, <1>b, <4>1
    <3> QED BY <3>1
  <2> QED BY <1>7, <2>1 DEF SpeechIsHeard
<1>d. ToldLast' = type
  BY <1>2, <1>5 DEF ToldLast
<1> QED BY <1>2, <1>5, <1>6, <1>c, <1>d DEF e

\* What is copied: the buffer, and the window if there is room.
LEMMA CopiedFacts ==
    ASSUME VadAssumption, VadTypeOK, VadShape, VadHolds, vadRun = "runs", vadWindow < MaxWindows
    PROVE  /\ Copied \in Seq(0..MaxWindows) /\ Len(Copied) \in Nat /\ Len(speechBuffer) <= Len(Copied)
           /\ ~shrunk => Len(Copied) <= capacity
           /\ vadUpdates = 0 =>
                /\ Rises(Copied) /\ \A i \in 1..Len(Copied) : Copied[i] <= vadWindow + 1
                /\ pubSpeaking => IsPrefix(vadEvents[Len(vadEvents)].frames, Copied)
           /\ FirstHeld \in Nat /\ FirstHeld <= vadWindow + 1
           /\ vadUpdates = 0 /\ ~dropped /\ Len(speechBuffer) < capacity => Copied = Windows(FirstHeld, vadWindow + 1)
<1> DEFINE b == speechBuffer
           w == vadWindow
<1>1. /\ w \in Nat /\ MaxWindows \in Nat /\ w + 1 \in 0..MaxWindows /\ capacity \in Nat
      /\ b \in Seq(0..MaxWindows)
  BY DEF VadTypeOK, VadAssumption
<1>2. Len(b) \in Nat /\ DOMAIN b = 1..Len(b) /\ \A i \in 1..Len(b) : b[i] \in 0..MaxWindows
  BY <1>1, LenProperties, ElementOfSeq
<1>3. FirstHeld \in Nat /\ FirstHeld <= w + 1
  <2>1. CASE pubSpeaking
    <3>1. Len(vadEvents) # 0 /\ vadEvents \in Seq(VadEventType)
      BY <2>1 DEF VadHolds, VadTypeOK, VadEventType, ToldLast
    <3>2. Len(vadEvents) \in 1..Len(vadEvents) /\ vadEvents[Len(vadEvents)] \in VadEventType
      BY <3>1, LenProperties, ElementOfSeq
    <3>3. vadEvents[Len(vadEvents)].at <= w
      BY <3>2 DEF VadShape
    <3> DEFINE e == vadEvents[Len(vadEvents)]
    <3>4. FirstHeard(e) \in Nat \ {0} /\ FirstHeard(e) <= e.at + 1 /\ e.at \in Nat
      BY <1>1, <3>2, FirstHeardBound DEF VadShape
    <3> QED BY <1>1, <2>1, <3>3, <3>4 DEF FirstHeld
  <2>2. CASE ~pubSpeaking
    <3>1. Lesser(w, vadOpts.padding + speechSpan) \in 0..w
      <4>1. vadOpts.padding \in Nat /\ speechSpan \in Nat
        BY <1>1 DEF VadShape, VadTypeOK
      <4> QED BY <1>1, <4>1 DEF Lesser
    <3> QED BY <1>1, <2>2, <3>1 DEF FirstHeld
  <2> QED BY <2>1, <2>2
<1>4. CASE Len(b) < capacity
  <2> DEFINE c == Append(b, w + 1)
  <2>1. Copied = c
    BY <1>4 DEF Copied
  <2>2. /\ c \in Seq(0..MaxWindows) /\ Len(c) = Len(b) + 1 /\ DOMAIN c = 1..Len(b) + 1
        /\ \A i \in 1..Len(b) : c[i] = b[i]
        /\ c[Len(b) + 1] = w + 1
    BY <1>1, AppendProperties, LenProperties
  <2> HIDE DEF c
  <2>3. Len(c) \in Nat /\ Len(b) <= Len(c) /\ Len(c) <= capacity
    BY <1>1, <1>2, <1>4, <2>2
  <2>4. ASSUME vadUpdates = 0
        PROVE  /\ Rises(c) /\ \A i \in 1..Len(c) : c[i] <= w + 1
               /\ pubSpeaking => IsPrefix(vadEvents[Len(vadEvents)].frames, c)
    <3>1. Rises(b) /\ \A i \in 1..Len(b) : b[i] <= w
      BY <2>4 DEF VadHolds
    <3>2. ASSUME NEW i \in 1..Len(b) + 1 PROVE (i \in 1..Len(b) /\ c[i] = b[i]) \/ (i = Len(b) + 1 /\ c[i] = w + 1)
      BY <1>2, <2>2
    <3>3. \A i \in 1..Len(c) : c[i] <= w + 1
      <4>1. ASSUME NEW i \in 1..Len(c) PROVE c[i] <= w + 1
        <5>1. i \in 1..Len(b) => b[i] <= w /\ b[i] \in Nat
          BY <1>1, <1>2, <3>1
        <5> QED BY <1>1, <2>2, <3>2, <5>1
      <4> QED BY <4>1
    <3>4. Rises(c)
      <4>1. ASSUME NEW i \in 1..Len(b) + 1, NEW j \in 1..Len(b) + 1, i < j PROVE c[i] < c[j]
        <5>1. i \in 1..Len(b) /\ c[i] = b[i] /\ b[i] \in Nat /\ b[i] <= w
          BY <1>1, <1>2, <2>2, <3>1, <4>1
        <5>2. CASE j \in 1..Len(b)
          BY <1>2, <2>2, <3>1, <4>1, <5>1, <5>2 DEF Rises
        <5>3. CASE j = Len(b) + 1
          BY <1>1, <2>2, <5>1, <5>3
        <5> QED BY <3>2, <5>2, <5>3
      <4> QED BY <2>2, <4>1 DEF Rises
    <3>5. ASSUME pubSpeaking PROVE IsPrefix(vadEvents[Len(vadEvents)].frames, c)
      <4>1. Len(vadEvents) # 0 /\ vadEvents \in Seq(VadEventType) /\ IsPrefix(vadEvents[Len(vadEvents)].frames, b)
        BY <2>4, <3>5 DEF VadHolds, VadTypeOK, VadEventType
      <4>2. vadEvents[Len(vadEvents)] \in VadEventType
        BY <4>1, LenProperties, ElementOfSeq
      <4> DEFINE f == vadEvents[Len(vadEvents)].frames
      <4>3. f \in Seq(0..MaxWindows) /\ Len(f) \in Nat
        BY <4>2, LenProperties DEF VadEventType
      <4>4. Len(f) <= Len(b) /\ \A i \in 1..Len(f) : f[i] = b[i]
        BY <1>1, <4>1, <4>3, PrefixAt
      <4>5. Len(f) <= Len(c) /\ \A i \in 1..Len(f) : f[i] = c[i]
        BY <1>2, <2>2, <4>3, <4>4
      <4> QED BY <2>2, <4>3, <4>5, PrefixAt
    <3> QED BY <3>3, <3>4, <3>5
  <2>5. ASSUME vadUpdates = 0, ~dropped PROVE c = Windows(FirstHeld, w + 1)
    <3>1. b = Windows(FirstHeld, w)
      BY <2>5 DEF VadHolds
    <3>2. Append(Windows(FirstHeld, w), w + 1) = Windows(FirstHeld, w + 1)
      BY <1>1, <1>3, WindowsAppend
    <3> QED BY <3>1, <3>2 DEF c
  <2> QED BY <1>3, <2>1, <2>2, <2>3, <2>4, <2>5
<1>5. CASE ~(Len(b) < capacity)
  <2>1. Copied = b
    BY <1>5 DEF Copied
  <2>2. ~shrunk => Len(b) <= capacity
    BY DEF VadShape
  <2>3. vadUpdates = 0 => \A i \in 1..Len(b) : b[i] <= w + 1
    <3>1. vadUpdates = 0 => \A i \in 1..Len(b) : b[i] <= w
      BY DEF VadHolds
    <3> QED BY <1>1, <1>2, <3>1
  <2> QED BY <1>1, <1>2, <1>3, <1>5, <2>1, <2>2, <2>3 DEF VadHolds
<1> QED BY <1>4, <1>5

----------------------------------------------------------------------------

\* The end of a sequence that rises.
LEMMA SuffixFacts ==
    ASSUME NEW N \in Nat, NEW s \in Seq(0..N), NEW n \in Nat, n <= Len(s)
    PROVE  /\ SubSeq(s, Len(s) - n + 1, Len(s)) \in Seq(0..N) /\ Len(SubSeq(s, Len(s) - n + 1, Len(s))) = n
           /\ Rises(s) => Rises(SubSeq(s, Len(s) - n + 1, Len(s)))
           /\ \A m \in Nat : (\A i \in 1..Len(s) : s[i] <= m)
                    => \A i \in 1..n : SubSeq(s, Len(s) - n + 1, Len(s))[i] <= m
<1> PICK len \in Nat : len = Len(s)
  BY LenProperties
<1>0. len - n + 1 \in Nat \ {0}
  OBVIOUS
<1> PICK m \in Nat \ {0} : m = len - n + 1
  BY <1>0
<1> DEFINE u == SubSeq(s, m, len)
<1>1. /\ m \in Int /\ len \in Int /\ m..len \subseteq 1..len /\ len - m + 1 = n /\ DOMAIN s = 1..len
      /\ \A i \in 1..n : m + i - 1 \in 1..len
      /\ \A i, j \in 1..n : i < j => m + i - 1 < m + j - 1
  BY LenProperties
<1>2. \A i \in m..len : s[i] \in 0..N
  BY <1>1, ElementOfSeq
<1>3. /\ u \in Seq(0..N) /\ Len(u) = IF m <= len THEN len - m + 1 ELSE 0
      /\ \A i \in 1..(len - m + 1) : u[i] = s[m + i - 1]
  BY <1>1, <1>2, SubSeqProperties
<1> HIDE DEF u
<1>4. Len(u) = n
  BY <1>1, <1>3
<1>5. DOMAIN u = 1..n /\ \A i \in 1..n : u[i] = s[m + i - 1]
  BY <1>1, <1>3, <1>4, LenProperties
<1>6. ASSUME Rises(s) PROVE Rises(u)
  BY <1>1, <1>5, <1>6 DEF Rises
<1>7. ASSUME NEW k \in Nat, \A i \in 1..len : s[i] <= k, NEW i \in 1..n PROVE u[i] <= k
  BY <1>1, <1>5, <1>7
<1> QED BY <1>3, <1>4, <1>6, <1>7 DEF u

LEMMA SpeechWindowKeeps ==
    ASSUME VadAssumption, VadInv, VadWindow, SpeechWindow
    PROVE  VadInv'
<1> DEFINE w == vadWindow
           P == vadOpts.padding
           S == vadOpts.speech
           d == speechSpan
<1>1. /\ w \in Nat /\ MaxWindows \in Nat /\ w < MaxWindows /\ w + 1 \in 0..MaxWindows /\ w' = w + 1
      /\ P \in Nat /\ S \in Nat \ {0} /\ d \in Nat /\ d <= w /\ d' = d + 1 /\ silenceSpan' = 0
      /\ d + 1 \in 0..MaxWindows /\ 0 \in 0..MaxWindows
  BY DEF VadWindow, SpeechWindow, VadInv, VadTypeOK, VadShape, VadAssumption
<1>2. /\ Copied \in Seq(0..MaxWindows) /\ Len(Copied) \in Nat
      /\ ~shrunk => Len(Copied) <= capacity
      /\ vadUpdates = 0 =>
            /\ Rises(Copied) /\ \A i \in 1..Len(Copied) : Copied[i] <= w + 1
            /\ pubSpeaking => IsPrefix(vadEvents[Len(vadEvents)].frames, Copied)
      /\ FirstHeld \in Nat /\ FirstHeld <= w + 1
      /\ vadUpdates = 0 /\ ~dropped /\ Len(speechBuffer) < capacity => Copied = Windows(FirstHeld, w + 1)
  BY CopiedFacts DEF VadInv, VadWindow
<1>3. /\ speechBuffer' = Copied /\ UNCHANGED <<vadOpts, capacity, vadUpdates, shrunk>>
      /\ dropped' = (dropped \/ Len(speechBuffer) >= capacity) /\ vadRun = "runs"
  BY DEF VadWindow, SpeechWindow
<1>4. dropped' \in BOOLEAN /\ (dropped => dropped') /\ (~dropped' => ~dropped /\ Len(speechBuffer) < capacity)
  <2>1. Len(speechBuffer) \in Nat /\ capacity \in Nat /\ dropped \in BOOLEAN
    BY LenProperties DEF VadInv, VadTypeOK
  <2>2. dropped' \in BOOLEAN /\ (dropped' <=> (dropped \/ Len(speechBuffer) >= capacity))
    BY <1>3
  <2>3. Len(speechBuffer) >= capacity <=> ~(Len(speechBuffer) < capacity)
    BY <2>1
  <2> QED BY <2>2, <2>3
<1>5. Torn => shrunk
  <2>1. capacity \in Nat
    BY DEF VadInv, VadTypeOK
  <2> QED BY <1>2, <2>1 DEF Torn
<1>6. shrunk => vadUpdates # 0
  BY DEF VadInv, VadShape
<1>7. /\ VadTypeOK /\ VadShape /\ VadHolds /\ SpeechIsHeard
      /\ vadEvents \in Seq(VadEventType)
  BY DEF VadInv, VadTypeOK, VadEventType
<1>8. CASE pubSpeaking \/ d + 1 < S
  <2>1. UNCHANGED <<pubSpeaking, vadEvents, vadRun>>
    BY <1>1, <1>8 DEF SpeechWindow
  <2>2. VadTypeOK'
    BY <1>1, <1>2, <1>3, <1>4, <1>7, <2>1 DEF VadTypeOK
  <2>3. \A k \in 1..Len(vadEvents) : vadEvents[k].at <= w + 1
    <3>1. \A k \in 1..Len(vadEvents) : vadEvents[k].at <= w /\ vadEvents[k].at \in Nat
      <4>1. \A k \in 1..Len(vadEvents) : vadEvents[k] \in VadEventType
        BY <1>7, ElementOfSeq
      <4> QED BY <1>7, <4>1 DEF VadEventType, VadShape
    <3> QED BY <1>1, <3>1
  <2>4. VadShape'
    BY <1>1, <1>2, <1>3, <1>7, <2>1, <2>3 DEF VadShape
  <2>5. SpeechIsHeard'
    BY <1>3, <1>4, <1>7, <2>1, NothingTold
  <2>6. FirstHeld' = FirstHeld
    <3>1. CASE pubSpeaking
      BY <1>3, <2>1, <3>1 DEF FirstHeld, FirstHeard
    <3>2. CASE ~pubSpeaking
      <4>1. FirstHeld = w + 1 - Lesser(w, P + d) /\ FirstHeld' = (w + 1) + 1 - Lesser(w + 1, P + (d + 1))
        BY <1>1, <1>3, <2>1, <3>2 DEF FirstHeld, Lesser
      <4> QED BY <1>1, <4>1 DEF Lesser
    <3> QED BY <3>1, <3>2
  <2>7. VadHolds'
    <3>1. ToldLast' = ToldLast
      BY <2>1 DEF ToldLast
    <3>2. ~pubSpeaking => d' < S
      BY <1>1, <1>8
    <3>3. vadUpdates = 0 =>
             /\ pubSpeaking => Len(vadEvents) # 0
      BY <1>7 DEF VadHolds
    <3>4. vadRun = "runs" => (pubSpeaking <=> ToldLast = "start")
      BY <1>7 DEF VadHolds
    <3>5. vadUpdates' = 0 /\ ~dropped' => speechBuffer' = Windows(FirstHeld', w')
      BY <1>1, <1>2, <1>3, <1>4, <2>6
    <3>6. vadUpdates' = 0 =>
             /\ Rises(speechBuffer') /\ \A i \in 1..Len(speechBuffer') : speechBuffer'[i] <= w'
             /\ pubSpeaking' => Len(vadEvents') # 0 /\ IsPrefix(vadEvents'[Len(vadEvents')].frames, speechBuffer')
             /\ ~pubSpeaking' => d' < vadOpts'.speech
      BY <1>1, <1>2, <1>3, <2>1, <3>2, <3>3
    <3> QED BY <2>1, <3>1, <3>4, <3>5, <3>6 DEF VadHolds, Rises, IsPrefix, Windows
  <2> QED BY <2>2, <2>4, <2>5, <2>7 DEF VadInv
<1>9. CASE ~(pubSpeaking \/ d + 1 < S)
  <2>1. /\ ~pubSpeaking /\ pubSpeaking' = TRUE
        /\ IF Torn THEN vadRun' = "failed" /\ UNCHANGED vadEvents ELSE Tells("start") /\ UNCHANGED vadRun
    BY <1>1, <1>9 DEF SpeechWindow
  <2>2. CASE Torn
    <3>1. vadRun' = "failed" /\ UNCHANGED vadEvents /\ shrunk' /\ vadUpdates' # 0
      BY <1>3, <1>5, <1>6, <2>1, <2>2
    <3>2. VadTypeOK'
      BY <1>1, <1>2, <1>3, <1>4, <1>7, <2>1, <3>1 DEF VadTypeOK
    <3>3. \A k \in 1..Len(vadEvents) : vadEvents[k].at <= w + 1
      <4>1. \A k \in 1..Len(vadEvents) : vadEvents[k].at <= w /\ vadEvents[k].at \in Nat
        <5>1. \A k \in 1..Len(vadEvents) : vadEvents[k] \in VadEventType
          BY <1>7, ElementOfSeq
        <5> QED BY <1>7, <5>1 DEF VadEventType, VadShape
      <4> QED BY <1>1, <4>1
    <3>4. VadShape'
      BY <1>1, <1>2, <1>3, <1>7, <3>1, <3>3 DEF VadShape
    <3>5. SpeechIsHeard'
      BY <1>3, <1>4, <1>7, <3>1, NothingTold
    <3>6. VadHolds'
      BY <3>1 DEF VadHolds
    <3> QED BY <3>2, <3>4, <3>5, <3>6 DEF VadInv
  <2>3. CASE ~Torn
    <3>1. Tells("start") /\ UNCHANGED vadRun
      BY <2>1, <2>3
    <3>2. ToldLast = "end"
      <4>1. ToldLast # "start"
        BY <1>3, <1>7, <2>1 DEF VadHolds
      <4>2. Len(vadEvents) # 0 => vadEvents[Len(vadEvents)] \in VadEventType
        BY <1>7, LenProperties, ElementOfSeq
      <4> QED BY <4>1, <4>2 DEF ToldLast, VadEventType
    <3>3. vadUpdates = 0 => d + 1 = S
      <4>1. vadUpdates = 0 => d < S
        BY <1>7, <2>1 DEF VadHolds
      <4> QED BY <1>1, <1>9, <4>1
    <3>4. FirstHeld = w + 1 - Lesser(w, P + d)
      BY <2>1 DEF FirstHeld
    <3>5. d + 1 = S => FirstHeld = w + 2 - Lesser(w + 1, P + S)
      BY <1>1, <3>4 DEF Lesser
    <3>6. vadUpdates = 0 /\ ~dropped' => Copied = Windows(w + 2 - Lesser(w + 1, P + S), w + 1)
      BY <1>2, <1>4, <3>3, <3>5
    <3>7. "start" = (IF ToldLast = "end" THEN "start" ELSE "end") /\ "start" # "end" /\ w < MaxWindows
      BY <1>1, <3>2
    <3>8. /\ SpeechIsHeard' /\ vadEvents' \in Seq(VadEventType) /\ Len(vadEvents') = Len(vadEvents) + 1
          /\ ToldLast' = "start"
          /\ \A k \in 1..Len(vadEvents') : vadEvents'[k].at <= w + 1
          /\ vadEvents'[Len(vadEvents')] = [type |-> "start", at |-> w + 1, frames |-> Copied]
      BY <1>2, <1>3, <1>4, <1>7, <3>1, <3>6, <3>7, EventTold
    <3>9. Len(vadEvents) \in Nat
      BY <1>7, LenProperties
    <3>a. VadTypeOK'
      BY <1>1, <1>2, <1>3, <1>4, <1>7, <2>1, <3>1, <3>8 DEF VadTypeOK, VadEventType
    <3>b. VadShape'
      BY <1>1, <1>2, <1>3, <1>7, <3>1, <3>8 DEF VadShape
    <3> DEFINE e == [type |-> "start", at |-> w + 1, frames |-> Copied]
    <3>c. e \in VadEventType /\ e.at = w + 1 /\ e.frames = Copied
      BY <1>1, <1>2 DEF VadEventType
    <3>d. FirstHeld' = w + 2 - Lesser(w + 1, P + S)
      <4>1. FirstHeld' = FirstHeard(e)
        BY <1>3, <2>1, <3>8 DEF FirstHeld, FirstHeard
      <4>2. FirstHeard(e) = e.at + 1 - Lesser(e.at, P + S)
        BY <1>1, <3>c, FirstHeardBound
      <4>3. FirstHeard(e) = (w + 1) + 1 - Lesser(w + 1, P + S)
        BY <3>c, <4>2
      <4>4. Lesser(w + 1, P + S) \in Nat
        BY <1>1 DEF Lesser
      <4>5. \A x \in Nat : (w + 1) + 1 - x = w + 2 - x
        BY <1>1
      <4> QED BY <4>1, <4>3, <4>4, <4>5
    <3>e. IsPrefix(Copied, Copied)
      BY <1>2 DEF IsPrefix
    <3>f. VadHolds'
      <4>1. vadUpdates' = 0 /\ ~dropped' => speechBuffer' = Windows(FirstHeld', w')
        BY <1>1, <1>3, <3>6, <3>d
      <4>2. vadUpdates' = 0 =>
             /\ Rises(speechBuffer') /\ \A i \in 1..Len(speechBuffer') : speechBuffer'[i] <= w'
             /\ Len(vadEvents') # 0 /\ IsPrefix(vadEvents'[Len(vadEvents')].frames, speechBuffer')
        BY <1>1, <1>2, <1>3, <3>8, <3>9, <3>e
      <4> QED BY <2>1, <3>8, <4>1, <4>2 DEF VadHolds, Rises, IsPrefix, Windows
    <3> QED BY <3>8, <3>a, <3>b, <3>f DEF VadInv
  <2> QED BY <2>2, <2>3
<1> QED BY <1>8, <1>9
\* The padding that a buffer keeps, in numbers: f is its first window, w the last but one.
LEMMA PaddingKept ==
    ASSUME NEW w \in Nat, NEW P \in Nat, NEW n \in Nat, NEW f \in Nat, f <= w + 1, n = (w + 1) + 1 - f
    PROVE  /\ n > P /\ f # 0 => (w + 1) + 1 - Lesser(w + 1, P + 0) = w + 2 - P
           /\ \A d \in Nat : n > P /\ f = w + 1 - Lesser(w, P + d) => (w + 1) + 1 - Lesser(w + 1, P + 0) = w + 2 - P
           /\ \A at, S \in Nat : at <= w /\ f = at + 1 - Lesser(at, P + S) /\ ~(n > P)
                 => (w + 1) + 1 - Lesser(w + 1, P + 0) = f
<1>1. ASSUME n > P, f # 0 PROVE (w + 1) + 1 - Lesser(w + 1, P + 0) = w + 2 - P
  BY <1>1 DEF Lesser
<1>2. ASSUME NEW d \in Nat, n > P, f = w + 1 - Lesser(w, P + d)
      PROVE  (w + 1) + 1 - Lesser(w + 1, P + 0) = w + 2 - P
  BY <1>2 DEF Lesser
<1>3. ASSUME NEW at \in Nat, NEW S \in Nat, at <= w, f = at + 1 - Lesser(at, P + S), ~(n > P)
      PROVE  (w + 1) + 1 - Lesser(w + 1, P + 0) = f
  BY <1>3 DEF Lesser
<1> QED BY <1>1, <1>2, <1>3

LEMMA SilenceWindowKeeps ==
    ASSUME VadAssumption, VadInv, VadWindow, SilenceWindow
    PROVE  VadInv'
<1> DEFINE w == vadWindow
           P == vadOpts.padding
           S == vadOpts.speech
           d == speechSpan
           ends == pubSpeaking /\ silenceSpan + 1 >= vadOpts.silence
           resets == (~pubSpeaking \/ ends) /\ Len(Copied) > P
           fails == Torn /\ (ends \/ (resets /\ P > 0))
<1>1. /\ w \in Nat /\ MaxWindows \in Nat /\ w < MaxWindows /\ w + 1 \in 0..MaxWindows /\ w' = w + 1
      /\ P \in Nat /\ S \in Nat \ {0} /\ d \in Nat /\ d <= w /\ d' = 0
      /\ silenceSpan \in Nat /\ silenceSpan <= w /\ silenceSpan' = silenceSpan + 1
      /\ silenceSpan + 1 \in 0..MaxWindows /\ 0 \in 0..MaxWindows
  BY DEF VadWindow, SilenceWindow, VadInv, VadTypeOK, VadShape, VadAssumption
<1>2. /\ Copied \in Seq(0..MaxWindows) /\ Len(Copied) \in Nat
      /\ ~shrunk => Len(Copied) <= capacity
      /\ vadUpdates = 0 =>
            /\ Rises(Copied) /\ \A i \in 1..Len(Copied) : Copied[i] <= w + 1
            /\ pubSpeaking => IsPrefix(vadEvents[Len(vadEvents)].frames, Copied)
      /\ FirstHeld \in Nat /\ FirstHeld <= w + 1
      /\ vadUpdates = 0 /\ ~dropped /\ Len(speechBuffer) < capacity => Copied = Windows(FirstHeld, w + 1)
  BY CopiedFacts DEF VadInv, VadWindow
<1>3. /\ UNCHANGED <<vadOpts, capacity, vadUpdates, shrunk>>
      /\ dropped' = (dropped \/ Len(speechBuffer) >= capacity) /\ vadRun = "runs"
  BY DEF VadWindow
<1>4. dropped' \in BOOLEAN /\ (dropped => dropped') /\ (~dropped' => ~dropped /\ Len(speechBuffer) < capacity)
  <2>1. Len(speechBuffer) \in Nat /\ capacity \in Nat /\ dropped \in BOOLEAN
    BY LenProperties DEF VadInv, VadTypeOK
  <2>2. dropped' \in BOOLEAN /\ (dropped' <=> (dropped \/ Len(speechBuffer) >= capacity))
    BY <1>3
  <2>3. Len(speechBuffer) >= capacity <=> ~(Len(speechBuffer) < capacity)
    BY <2>1
  <2> QED BY <2>2, <2>3
<1>5. Torn => shrunk
  <2>1. capacity \in Nat
    BY DEF VadInv, VadTypeOK
  <2> QED BY <1>2, <2>1 DEF Torn
<1>6. shrunk => vadUpdates # 0
  BY DEF VadInv, VadShape
<1>7. /\ VadTypeOK /\ VadShape /\ VadHolds /\ SpeechIsHeard
      /\ vadEvents \in Seq(VadEventType)
  BY DEF VadInv, VadTypeOK, VadEventType
<1>8. /\ pubSpeaking' = (pubSpeaking /\ ~ends) /\ vadRun' = (IF fails THEN "failed" ELSE "runs")
      /\ IF ends /\ ~fails THEN Tells("end") ELSE UNCHANGED vadEvents
      /\ speechBuffer' = IF resets /\ ~fails THEN ResetWriteCursor ELSE Copied
  BY <1>1 DEF SilenceWindow
<1>9. pubSpeaking \in BOOLEAN
  BY <1>7 DEF VadTypeOK
<1>a. pubSpeaking' \in BOOLEAN
  BY <1>8
<1>b. \A k \in 1..Len(vadEvents) : vadEvents[k].at <= w + 1
  <2>1. \A k \in 1..Len(vadEvents) : vadEvents[k] \in VadEventType
    BY <1>7, ElementOfSeq
  <2>2. \A k \in 1..Len(vadEvents) : vadEvents[k].at <= w /\ vadEvents[k].at \in Nat
    BY <1>7, <2>1 DEF VadEventType, VadShape
  <2> QED BY <1>1, <2>2
<1> DEFINE u == ResetWriteCursor
<1>c. ASSUME Len(Copied) > P
      PROVE  /\ u \in Seq(0..MaxWindows) /\ Len(u) = P /\ Len(u) < Len(Copied)
             /\ vadUpdates = 0 => Rises(u) /\ \A i \in 1..Len(u) : u[i] <= w + 1
  <2>1. P <= Len(Copied) /\ w + 1 \in Nat
    BY <1>1, <1>2, <1>c
  <2>2. /\ u \in Seq(0..MaxWindows) /\ Len(u) = P
        /\ Rises(Copied) => Rises(u)
        /\ \A m \in Nat : (\A i \in 1..Len(Copied) : Copied[i] <= m) => \A i \in 1..P : u[i] <= m
    BY <1>1, <1>2, <2>1, SuffixFacts DEF ResetWriteCursor
  <2> QED BY <1>2, <1>c, <2>1, <2>2
<1>d. ASSUME Len(Copied) > P, NEW a \in Nat, a <= w + 1, Copied = Windows(a, w + 1)
      PROVE  P <= w + 2 - a /\ u = Windows(w + 2 - P, w + 1)
  <2>1. a <= (w + 1) + 1 /\ w + 1 \in Nat /\ (w + 1) + 1 - a = w + 2 - a /\ (w + 1) + 1 - P = w + 2 - P
    BY <1>1, <1>d
  <2>2. Len(Copied) = (w + 1) + 1 - a
    BY <1>1, <1>d, <2>1, WindowsAt
  <2>3. P <= (w + 1) + 1 - a
    BY <1>1, <1>2, <1>d, <2>2
  <2>4. \A m : m = (w + 1) + 1 - a => SubSeq(Windows(a, w + 1), m - P + 1, m) = Windows((w + 1) + 1 - P, w + 1)
    BY <1>1, <1>d, <2>1, <2>3, WindowsLast
  <2>5. SubSeq(Windows(a, w + 1), Len(Copied) - P + 1, Len(Copied)) = Windows((w + 1) + 1 - P, w + 1)
    BY <2>2, <2>4
  <2> QED BY <1>d, <2>1, <2>3, <2>5 DEF ResetWriteCursor
<1>e. CASE fails
  <2>1. vadRun' = "failed" /\ UNCHANGED vadEvents /\ shrunk' /\ vadUpdates' # 0 /\ speechBuffer' = Copied
    BY <1>3, <1>5, <1>6, <1>8, <1>e
  <2>2. VadTypeOK'
    BY <1>1, <1>2, <1>3, <1>4, <1>7, <1>a, <2>1 DEF VadTypeOK
  <2>3. VadShape'
    BY <1>1, <1>2, <1>3, <1>7, <1>b, <2>1 DEF VadShape
  <2>4. SpeechIsHeard'
    BY <1>3, <1>4, <1>7, <2>1, NothingTold
  <2>5. VadHolds'
    BY <2>1 DEF VadHolds
  <2> QED BY <2>2, <2>3, <2>4, <2>5 DEF VadInv
<1>f. CASE ~fails /\ ~ends
  <2>1. vadRun' = "runs" /\ UNCHANGED <<vadEvents, pubSpeaking>>
    BY <1>8, <1>9, <1>f
  <2>2. /\ resets => speechBuffer' = u /\ Len(Copied) > P /\ ~pubSpeaking
        /\ ~resets => speechBuffer' = Copied /\ (~pubSpeaking => ~(Len(Copied) > P))
    BY <1>8, <1>f
  <2>3. /\ speechBuffer' \in Seq(0..MaxWindows) /\ Len(speechBuffer') \in Nat /\ Len(speechBuffer') <= Len(Copied)
        /\ vadUpdates = 0 => Rises(speechBuffer') /\ \A i \in 1..Len(speechBuffer') : speechBuffer'[i] <= w + 1
    <3>1. CASE resets
      BY <1>1, <1>2, <1>c, <2>2, <3>1
    <3>2. CASE ~resets
      BY <1>2, <2>2, <3>2
    <3> QED BY <3>1, <3>2
  <2>4. VadTypeOK'
    BY <1>1, <1>3, <1>4, <1>7, <1>a, <2>1, <2>3 DEF VadTypeOK
  <2>5. ~shrunk => Len(speechBuffer') <= capacity
    <3>1. capacity \in Nat
      BY <1>7 DEF VadTypeOK
    <3> QED BY <1>2, <2>3, <3>1
  <2>6. VadShape'
    BY <1>1, <1>3, <1>7, <1>b, <2>1, <2>5 DEF VadShape
  <2>7. SpeechIsHeard'
    BY <1>3, <1>4, <1>7, <2>1, NothingTold
  <2>8. ASSUME vadUpdates = 0, ~dropped' PROVE speechBuffer' = Windows(FirstHeld', w + 1)
    <3>1. Copied = Windows(FirstHeld, w + 1)
      BY <1>2, <1>4, <2>8
    <3>2. CASE pubSpeaking
      <4>1. FirstHeld' = FirstHeld
        BY <1>3, <2>1, <3>2 DEF FirstHeld, FirstHeard
      <4> QED BY <2>2, <3>1, <3>2, <4>1
    <3>3. CASE ~pubSpeaking
      <4>1. FirstHeld = w + 1 - Lesser(w, P + d) /\ FirstHeld' = (w + 1) + 1 - Lesser(w + 1, P + 0)
        BY <1>1, <1>3, <2>1, <3>3 DEF FirstHeld, Lesser
      <4>2. FirstHeld <= (w + 1) + 1 /\ w + 1 \in Nat
        BY <1>1, <1>2
      <4>3. Len(Copied) = (w + 1) + 1 - FirstHeld
        BY <1>2, <3>1, <4>2, WindowsAt
      <4>4. CASE Len(Copied) > P
        <5>1. u = Windows(w + 2 - P, w + 1)
          BY <1>2, <1>d, <3>1, <4>4
        <5>2. FirstHeld' = w + 2 - P
          <6>1. FirstHeld \in Nat /\ FirstHeld <= w + 1 /\ Len(Copied) \in Nat /\ Len(Copied) > P
            BY <1>2, <4>4
          <6>2. \A e \in Nat : Len(Copied) > P /\ FirstHeld = w + 1 - Lesser(w, P + e)
                    => (w + 1) + 1 - Lesser(w + 1, P + 0) = w + 2 - P
            BY <1>1, <4>3, <6>1, PaddingKept
          <6>3. (w + 1) + 1 - Lesser(w + 1, P + 0) = w + 2 - P
            BY <1>1, <4>1, <6>1, <6>2
          <6> QED BY <4>1, <6>3
        <5> QED BY <2>2, <3>3, <4>4, <5>1, <5>2
      <4>5. CASE ~(Len(Copied) > P)
        <5>1. FirstHeld' = FirstHeld
          BY <1>1, <1>2, <4>1, <4>3, <4>5 DEF Lesser
        <5> QED BY <2>2, <3>1, <4>5, <5>1
      <4> QED BY <4>4, <4>5
    <3> QED BY <3>2, <3>3
  <2>9. VadHolds'
    <3>1. ToldLast' = ToldLast
      BY <2>1 DEF ToldLast
    <3>2. vadRun = "runs" => (pubSpeaking <=> ToldLast = "start")
      BY <1>7 DEF VadHolds
    <3>3. vadUpdates = 0 => (pubSpeaking => Len(vadEvents) # 0)
      BY <1>7 DEF VadHolds
    <3>4. vadUpdates' = 0 =>
             /\ Rises(speechBuffer') /\ \A i \in 1..Len(speechBuffer') : speechBuffer'[i] <= w'
             /\ pubSpeaking' => Len(vadEvents') # 0 /\ IsPrefix(vadEvents'[Len(vadEvents')].frames, speechBuffer')
             /\ d' < vadOpts'.speech
      BY <1>1, <1>2, <1>3, <2>1, <2>2, <2>3, <3>3
    <3> QED BY <1>1, <1>3, <2>1, <2>8, <3>1, <3>2, <3>4 DEF VadHolds, Rises, IsPrefix, Windows
  <2> QED BY <2>4, <2>6, <2>7, <2>9 DEF VadInv
<1>g. CASE ~fails /\ ends
  <2>1. /\ vadRun' = "runs" /\ Tells("end") /\ pubSpeaking' = FALSE /\ pubSpeaking /\ UNCHANGED vadRun
        /\ Len(Copied) > P => speechBuffer' = u
        /\ ~(Len(Copied) > P) => speechBuffer' = Copied
    BY <1>3, <1>8, <1>g
  <2>2. ToldLast = "start" /\ Len(vadEvents) # 0
    BY <1>3, <1>7, <2>1 DEF VadHolds, ToldLast
  <2>3. "end" = (IF ToldLast = "end" THEN "start" ELSE "end") /\ "start" # "end" /\ w < MaxWindows
    BY <1>1, <2>2
  <2>4. vadUpdates = 0 /\ ~dropped' => Copied = Windows(FirstHeard(vadEvents[Len(vadEvents)]), w + 1)
    BY <1>2, <1>4, <2>1 DEF FirstHeld
  <2>5. /\ SpeechIsHeard' /\ vadEvents' \in Seq(VadEventType) /\ Len(vadEvents') = Len(vadEvents) + 1
        /\ ToldLast' = "end"
        /\ \A k \in 1..Len(vadEvents') : vadEvents'[k].at <= w + 1
    BY <1>2, <1>3, <1>4, <1>7, <2>1, <2>3, <2>4, EventTold
  <2>6. /\ speechBuffer' \in Seq(0..MaxWindows) /\ Len(speechBuffer') \in Nat /\ Len(speechBuffer') <= Len(Copied)
        /\ vadUpdates = 0 => Rises(speechBuffer') /\ \A i \in 1..Len(speechBuffer') : speechBuffer'[i] <= w + 1
    <3>1. CASE Len(Copied) > P
      BY <1>1, <1>2, <1>c, <2>1, <3>1
    <3>2. CASE ~(Len(Copied) > P)
      BY <1>2, <2>1, <3>2
    <3> QED BY <3>1, <3>2
  <2>7. VadTypeOK'
    BY <1>1, <1>3, <1>4, <1>7, <1>a, <2>1, <2>5, <2>6 DEF VadTypeOK, VadEventType
  <2>8. ~shrunk => Len(speechBuffer') <= capacity
    <3>1. capacity \in Nat
      BY <1>7 DEF VadTypeOK
    <3> QED BY <1>2, <2>6, <3>1
  <2>9. VadShape'
    BY <1>1, <1>3, <1>7, <2>1, <2>5, <2>8 DEF VadShape
  <2>a. ASSUME vadUpdates = 0, ~dropped' PROVE speechBuffer' = Windows(FirstHeld', w + 1)
    <3> DEFINE e == vadEvents[Len(vadEvents)]
    <3>1. Copied = Windows(FirstHeld, w + 1) /\ FirstHeld = FirstHeard(e)
      BY <1>2, <1>4, <2>1, <2>a DEF FirstHeld
    <3>2. e \in VadEventType /\ e.at <= w
      <4>1. Len(vadEvents) \in 1..Len(vadEvents)
        BY <1>7, <2>2, LenProperties
      <4> QED BY <1>7, <4>1, ElementOfSeq DEF VadShape
    <3>3. e.at \in Nat /\ FirstHeld = e.at + 1 - Lesser(e.at, P + S) /\ FirstHeld # 0
      BY <1>1, <3>1, <3>2, FirstHeardBound
    <3>4. FirstHeld' = (w + 1) + 1 - Lesser(w + 1, P + 0)
      BY <1>1, <1>3, <2>1 DEF FirstHeld, Lesser
    <3>5. FirstHeld <= (w + 1) + 1 /\ w + 1 \in Nat
      BY <1>1, <1>2
    <3>6. Len(Copied) = (w + 1) + 1 - FirstHeld
      BY <1>2, <3>1, <3>5, WindowsAt
    <3>7. CASE Len(Copied) > P
      <4>1. u = Windows(w + 2 - P, w + 1)
        BY <1>2, <1>d, <3>1, <3>7
      <4>2. FirstHeld' = w + 2 - P
        <5>1. FirstHeld \in Nat /\ FirstHeld <= w + 1 /\ FirstHeld # 0 /\ Len(Copied) \in Nat /\ Len(Copied) > P
          BY <1>2, <3>3, <3>7
        <5>2. (w + 1) + 1 - Lesser(w + 1, P + 0) = w + 2 - P
          BY <1>1, <3>6, <5>1, PaddingKept
        <5> QED BY <3>4, <5>2
      <4> QED BY <2>1, <3>7, <4>1, <4>2
    <3>8. CASE ~(Len(Copied) > P)
      <4>1. FirstHeld' = FirstHeld
        <5>1. e.at \in Nat /\ e.at <= w /\ FirstHeld = e.at + 1 - Lesser(e.at, P + S)
          BY <3>2, <3>3
        <5> QED BY <1>1, <1>2, <3>4, <3>6, <3>8, <5>1, PaddingKept
      <4> QED BY <2>1, <3>1, <3>8, <4>1
    <3> QED BY <3>7, <3>8
  <2>b. VadHolds'
    <3>1. vadUpdates' = 0 =>
             /\ Rises(speechBuffer') /\ \A i \in 1..Len(speechBuffer') : speechBuffer'[i] <= w'
             /\ d' < vadOpts'.speech
      BY <1>1, <1>3, <2>6
    <3> QED BY <1>1, <1>3, <2>1, <2>5, <2>a, <3>1 DEF VadHolds, Rises, IsPrefix, Windows
  <2> QED BY <2>5, <2>7, <2>9, <2>b DEF VadInv
<1> QED BY <1>e, <1>f, <1>g

LEMMA UpdateKeeps ==
    ASSUME VadAssumption, VadInv, NEW opts \in VadOptions, UpdateVadOptions(opts)
    PROVE  VadInv'
<1> DEFINE b == speechBuffer
<1>1. /\ vadUpdates \in Nat /\ vadUpdates' = vadUpdates + 1 /\ vadUpdates' \in 0..MaxVadUpdates /\ vadUpdates' # 0
      /\ MaxWindows \in Nat
  BY DEF UpdateVadOptions, VadInv, VadTypeOK, VadAssumption
<1>2. opts.speech \in Nat \ {0} /\ {opts.silence, opts.padding, opts.buffered} \subseteq Nat
  BY DEF VadAssumption
<1>3. capacity' \in Nat /\ capacity \in Nat /\ capacity' = opts.buffered + opts.padding /\ vadOpts' = opts
  BY <1>2 DEF UpdateVadOptions, VadInv, VadTypeOK
<1>4. b \in Seq(0..MaxWindows) /\ DOMAIN b = 1..Len(b) /\ Len(b) \in Nat /\ \A k \in 1..Len(b) : b[k] \in 0..MaxWindows
  BY LenProperties, ElementOfSeq DEF VadInv, VadTypeOK
<1>5. b' = [k \in 1..Len(b) |-> IF k <= capacity' THEN b[k] ELSE 0]
  BY <1>4 DEF UpdateVadOptions
<1>6. b' \in Seq(0..MaxWindows) /\ DOMAIN b' = 1..Len(b)
  <2>1. \A k \in 1..Len(b) : (IF k <= capacity' THEN b[k] ELSE 0) \in 0..MaxWindows
    BY <1>1, <1>4
  <2> QED BY <1>4, <1>5, <2>1
<1>7. Len(b') = Len(b)
  <2>1. Len(b') \in Nat /\ 1..Len(b') = 1..Len(b)
    BY <1>6, LenProperties
  <2> QED BY <1>4, <2>1
<1>8. UNCHANGED <<vadWindow, pubSpeaking, speechSpan, silenceSpan, vadEvents, vadRun, dropped>>
      /\ shrunk' = (shrunk \/ capacity' < capacity) /\ vadRun = "runs"
  BY DEF UpdateVadOptions
<1>9. shrunk' \in BOOLEAN /\ (~shrunk' => ~shrunk /\ capacity <= capacity')
  <2>1. shrunk' \in BOOLEAN /\ (shrunk' <=> (shrunk \/ capacity' < capacity))
    BY <1>8
  <2>2. capacity' < capacity <=> ~(capacity <= capacity')
    BY <1>3
  <2> QED BY <2>1, <2>2
<1>a. VadTypeOK'
  BY <1>1, <1>3, <1>6, <1>8, <1>9 DEF VadInv, VadTypeOK
<1>b. ~shrunk' => Len(b') <= capacity'
  <2>1. ~shrunk => Len(b) <= capacity
    BY DEF VadInv, VadShape
  <2> QED BY <1>3, <1>4, <1>7, <1>9, <2>1
<1>c. VadShape'
  BY <1>1, <1>2, <1>3, <1>8, <1>b DEF VadInv, VadShape
<1>d. ToldLast' = ToldLast
  BY <1>8 DEF ToldLast
<1>e. VadHolds'
  BY <1>1, <1>8, <1>d DEF VadInv, VadHolds
<1>f. SpeechIsHeard'
  BY <1>1, <1>8 DEF VadInv, SpeechIsHeard, HeardAt
<1> QED BY <1>a, <1>c, <1>e, <1>f DEF VadInv

LEMMA VadSafe ==
    VadSpec => [](VadTypeOK /\ SpeechIsHeard /\ VadGoesOn)
<1>1. VadInit => VadInv
  <2> SUFFICES ASSUME VadInit PROVE VadInv
    OBVIOUS
  <2>1. /\ vadOpts.speech \in Nat \ {0} /\ {vadOpts.silence, vadOpts.padding, vadOpts.buffered} \subseteq Nat
        /\ MaxWindows \in Nat /\ MaxVadUpdates \in Nat
    BY VadAssumption DEF VadAssumption, VadInit
  <2>2. VadTypeOK
    <3>1. capacity \in Nat
      BY <2>1 DEF VadInit
    <3>2. <<>> \in Seq(0..MaxWindows) /\ 0 \in 0..MaxWindows /\ 0 \in 0..MaxVadUpdates
          /\ <<>> \in Seq([type : {"start", "end"}, at : 1..MaxWindows, frames : Seq(0..MaxWindows)])
      BY <2>1
    <3> QED BY <3>1, <3>2 DEF VadInit, VadTypeOK
  <2>3. VadShape
    BY <2>1 DEF VadInit, VadShape
  <2>4. SpeechIsHeard
    BY DEF VadInit, SpeechIsHeard
  <2>5. FirstHeld = 1
    BY <2>1 DEF VadInit, FirstHeld, Lesser
  <2>6. Windows(1, 0) = <<>>
    <3>1. 1 \in Nat /\ 0 \in Nat /\ 1 <= 0 + 1 /\ 0 + 1 - 1 = 0
      OBVIOUS
    <3>2. Windows(1, 0) \in Seq(Nat) /\ Len(Windows(1, 0)) = 0
      BY <3>1, WindowsAt
    <3> QED BY <3>2, EmptySeq
  <2>7. VadHolds
    BY <2>1, <2>5, <2>6 DEF VadInit, VadHolds, ToldLast, Rises
  <2> QED BY <2>2, <2>3, <2>4, <2>7 DEF VadInv
<1>2. VadInv /\ [VadNext]_vadVars => VadInv'
  <2> SUFFICES ASSUME VadInv, [VadNext]_vadVars PROVE VadInv'
    OBVIOUS
  <2>1. CASE VadWindow
    BY <2>1, VadAssumption, SpeechWindowKeeps, SilenceWindowKeeps DEF VadWindow
  <2>2. ASSUME NEW opts \in VadOptions, UpdateVadOptions(opts) PROVE VadInv'
    BY <2>2, VadAssumption, UpdateKeeps
  <2>3. CASE UNCHANGED vadVars
    <3>1. VadTypeOK'
      BY <2>3 DEF VadInv, VadTypeOK, vadVars
    <3>2. VadShape'
      BY <2>3 DEF VadInv, VadShape, vadVars
    <3>3. ToldLast' = ToldLast /\ FirstHeld' = FirstHeld
      BY <2>3 DEF ToldLast, FirstHeld, FirstHeard, vadVars
    <3>4. VadHolds'
      BY <2>3, <3>3 DEF VadInv, VadHolds, vadVars, Rises, IsPrefix, Windows
    <3>5. SpeechIsHeard'
      BY <2>3, NothingTold DEF VadInv, vadVars
    <3> QED BY <3>1, <3>2, <3>4, <3>5 DEF VadInv
  <2> QED BY <2>1, <2>2, <2>3 DEF VadNext
<1>3. VadInv => VadTypeOK /\ SpeechIsHeard /\ VadGoesOn
  BY DEF VadInv, VadGoesOn, VadShape
<1> QED BY <1>1, <1>2, <1>3, PTL DEF VadSpec

----------------------------------------------------------------------------
(* The sockets of the recognitions *)

ItemType == 0..MaxUnitsPushed
InHand == ToSet(sender.buffer) \cup ToSet(sender.out)
Waiting == FramesOf(mic.queue)

\* A stream in which nothing has failed and nobody has updated anything.
Undisturbed == runs = 1 /\ updates = 0 /\ run \in {"connecting", "open"}

\* The sender is there while the connection is, and has one thing in hand.
SenderShape ==
    /\ sender.state # "none" => run = "open"
    /\ sender.state \in {"none", "starts", "done"} => sender.out = <<>>
    /\ sender.state \in {"none", "starts"} => sender.buffer = <<>>
    /\ sender.state = "done" => mic.closed /\ mic.queue = <<>>
    /\ sender.out # <<>> \/ dialect \notin WithChunks => sender.buffer = <<>>
    /\ run = "open" => wires # <<>>
    /\ mic.closed /\ mic.queue # <<>> => Last(mic.queue) = 0

\* Who disturbs a stream leaves a trace.
Disturbances ==
    /\ reconnect \/ run = "stopping" => updates # 0
    /\ thief => ~Undisturbed
    /\ Undisturbed /\ mic.closed /\ mic.queue = <<>> => sender.buffer = <<>>

\* What was sent precedes what the sender has in hand, and that what waits.
FlowInOrder ==
    /\ Ascends(sender.buffer) /\ Ascends(sender.out) /\ Ascends(mic.queue)
    /\ Below(FramesSent, InHand) /\ Below(FramesSent, Waiting) /\ Below(InHand, Waiting)
    /\ FramesSent \cup InHand \cup Waiting \subseteq 1..mic.pushed
    /\ Undisturbed => 1..mic.pushed \subseteq FramesSent \cup InHand \cup Waiting

WiresInOrder ==
    \A c \in 1..Len(wires) : \A j \in 1..Len(wires[c]) :
        /\ Ascends(wires[c][j])
        /\ \A d \in 1..Len(wires) : \A k \in 1..Len(wires[d]) :
              c < d \/ (c = d /\ j < k) => Below(FramesOf(wires[c][j]), FramesOf(wires[d][k]))

HearsInTurn ==
    dialect \in {"deepgram", "azure"} => (isSpeaking <=> InSpeech(heardEvents, Len(heardEvents)))

----------------------------------------------------------------------------

\* Frames are items; the frames of a sequence of frames are what it holds.
LEMMA FramesAreItems ==
    ASSUME SttSocketsAssumption, NEW s \in Seq(Frames)
    PROVE  /\ s \in Seq(ItemType) /\ FramesOf(s) = ToSet(s) /\ ToSet(s) \subseteq Frames
           /\ Len(s) \in Nat /\ DOMAIN s = 1..Len(s)
<1>1. Frames \subseteq ItemType
  BY DEF Frames, ItemType, SttSocketsAssumption
<1>2. Len(s) \in Nat /\ s \in [1..Len(s) -> Frames] /\ DOMAIN s = 1..Len(s)
  BY LenProperties
<1>3. ToSet(s) \subseteq Frames
  BY <1>2 DEF ToSet
<1>4. s \in [1..Len(s) -> ItemType]
  BY <1>1, <1>2
<1> QED BY <1>2, <1>3, <1>4 DEF FramesOf

LEMMA AscendsAppend ==
    ASSUME NEW s \in Seq(ItemType), NEW e \in ItemType, Ascends(s), Below(FramesOf(s), {e} \cap Frames),
           MaxUnitsPushed \in Nat
    PROVE  /\ Append(s, e) \in Seq(ItemType) /\ Ascends(Append(s, e))
           /\ ToSet(Append(s, e)) = ToSet(s) \cup {e}
           /\ FramesOf(Append(s, e)) = FramesOf(s) \cup ({e} \cap Frames)
<1> DEFINE t == Append(s, e)
<1>1. /\ Len(s) \in Nat /\ DOMAIN s = 1..Len(s)
      /\ t \in Seq(ItemType) /\ Len(t) = Len(s) + 1 /\ DOMAIN t = 1..Len(s) + 1
      /\ \A i \in 1..Len(s) : t[i] = s[i]
      /\ t[Len(s) + 1] = e
  BY AppendProperties, LenProperties
<1>2. ToSet(t) = ToSet(s) \cup {e}
  BY AppendElements
<1>3. \A i \in 1..Len(s) : s[i] \in ToSet(s)
  BY <1>1 DEF ToSet
<1> HIDE DEF t
<1>4. ASSUME NEW i \in 1..Len(s) + 1, NEW j \in 1..Len(s) + 1, i < j, {t[i], t[j]} \subseteq Frames PROVE t[i] < t[j]
  <2>1. i \in 1..Len(s) /\ t[i] = s[i]
    BY <1>1, <1>4
  <2>2. CASE j = Len(s) + 1
    <3>1. s[i] \in FramesOf(s) /\ e \in {e} \cap Frames /\ t[j] = e
      BY <1>1, <1>3, <1>4, <2>1, <2>2 DEF FramesOf
    <3> QED BY <2>1, <3>1 DEF Below
  <2>3. CASE j \in 1..Len(s)
    BY <1>1, <1>4, <2>1, <2>3 DEF Ascends
  <2> QED BY <1>1, <2>2, <2>3
<1>5. Ascends(t)
  BY <1>1, <1>4 DEF Ascends
<1> QED BY <1>1, <1>2, <1>5 DEF t, FramesOf

LEMMA AscendsTail ==
    ASSUME NEW s \in Seq(ItemType), s # <<>>, Ascends(s), MaxUnitsPushed \in Nat
    PROVE  /\ Tail(s) \in Seq(ItemType) /\ Ascends(Tail(s)) /\ Head(s) \in ItemType
           /\ ToSet(s) = ToSet(Tail(s)) \cup {Head(s)}
           /\ FramesOf(s) = FramesOf(Tail(s)) \cup ({Head(s)} \cap Frames)
           /\ Below({Head(s)} \cap Frames, FramesOf(Tail(s)))
<1> DEFINE t == Tail(s)
<1>1. /\ t \in Seq(ItemType) /\ Head(s) = s[1] /\ Head(s) \in ItemType /\ Len(s) \in Nat /\ 1 \in 1..Len(s)
      /\ \A k \in 1..Len(t) : t[k] = s[k + 1] /\ k + 1 \in 1..Len(s) /\ k + 1 # 1
      /\ \A k, i \in 1..Len(t) : i < k <=> i + 1 < k + 1
  BY TailAt
<1>2. DOMAIN s = 1..Len(s) /\ DOMAIN t = 1..Len(t)
  BY <1>1, LenProperties
<1>3. ToSet(s) = ToSet(t) \cup {Head(s)}
  BY TailElements
<1> HIDE DEF t
<1>4. Ascends(t)
  BY <1>1, <1>2 DEF Ascends
<1>5. \A k \in 1..Len(t) : 1 < k + 1
  OBVIOUS
<1>6. \A y \in FramesOf(t) : \E k \in 1..Len(t) : y = t[k] /\ y \in Frames
  BY <1>2 DEF FramesOf, ToSet
<1>7. ASSUME NEW x \in {Head(s)} \cap Frames, NEW y \in FramesOf(t) PROVE x < y
  <2> PICK k \in 1..Len(t) : y = t[k] /\ y \in Frames
    BY <1>6
  <2>1. y = s[k + 1] /\ k + 1 \in DOMAIN s /\ 1 \in DOMAIN s /\ 1 < k + 1 /\ x = s[1] /\ x \in Frames
    BY <1>1, <1>2, <1>5
  <2> QED BY <2>1 DEF Ascends
<1>8. Below({Head(s)} \cap Frames, FramesOf(t))
  BY <1>7 DEF Below
<1> QED BY <1>1, <1>3, <1>4, <1>8 DEF t, FramesOf

\* The last of a sequence stays the last when the first is taken.
LEMMA LastOfTail ==
    ASSUME NEW S, NEW s \in Seq(S), s # <<>>
    PROVE  IF Tail(s) = <<>> THEN Last(s) = Head(s) ELSE Last(s) = Last(Tail(s))
BY LastElement

----------------------------------------------------------------------------
(* The wires *)

LEMMA WireType ==
    ASSUME SttSocketsTypeOK
    PROVE  /\ Len(wires) \in Nat /\ DOMAIN wires = 1..Len(wires)
           /\ \A c \in 1..Len(wires) : /\ wires[c] \in Seq(Seq(ItemType)) /\ Len(wires[c]) \in Nat
                                       /\ DOMAIN wires[c] = 1..Len(wires[c])
                                       /\ \A k \in 1..Len(wires[c]) : wires[c][k] \in Seq(ItemType)
<1>1. wires \in Seq(Seq(Seq(ItemType)))
  BY DEF SttSocketsTypeOK, ItemType
<1>2. Len(wires) \in Nat /\ DOMAIN wires = 1..Len(wires)
  BY <1>1, LenProperties
<1>3. \A c \in 1..Len(wires) : wires[c] \in Seq(Seq(ItemType))
  BY <1>1, ElementOfSeq
<1>4. \A c \in 1..Len(wires) : Len(wires[c]) \in Nat /\ DOMAIN wires[c] = 1..Len(wires[c])
  BY <1>3, LenProperties
<1>5. \A c \in 1..Len(wires) : \A k \in 1..Len(wires[c]) : wires[c][k] \in Seq(ItemType)
  BY <1>3, ElementOfSeq
<1> QED BY <1>2, <1>3, <1>4, <1>5

\* Every frame on a wire is sent.
LEMMA SentFrames ==
    ASSUME SttSocketsTypeOK
    PROVE  /\ \A c \in 1..Len(wires) : \A k \in 1..Len(wires[c]) : FramesOf(wires[c][k]) \subseteq FramesSent
           /\ \A f \in FramesSent : \E c \in 1..Len(wires) : \E k \in 1..Len(wires[c]) : f \in FramesOf(wires[c][k])
<1>1. DOMAIN wires = 1..Len(wires) /\ \A c \in 1..Len(wires) : DOMAIN wires[c] = 1..Len(wires[c])
  BY WireType
<1> QED BY <1>1 DEF FramesSent, FramesOf

\* A new connection has been sent nothing.
LEMMA NewWire ==
    ASSUME SttSocketsTypeOK, WiresInOrder, wires' = Append(wires, <<>>)
    PROVE  /\ wires' \in Seq(Seq(Seq(ItemType))) /\ wires' # <<>>
           /\ WiresInOrder' /\ FramesSent' = FramesSent
<1> PICK n \in Nat : n = Len(wires)
  BY WireType
<1>1. wires \in Seq(Seq(Seq(ItemType))) /\ <<>> \in Seq(Seq(ItemType)) /\ Len(<<>>) = 0
  BY DEF SttSocketsTypeOK, ItemType
<1>2. /\ wires' \in Seq(Seq(Seq(ItemType))) /\ Len(wires') = n + 1 /\ DOMAIN wires' = 1..n + 1
      /\ \A c \in 1..n : wires'[c] = wires[c]
      /\ wires'[n + 1] = <<>>
  BY <1>1, AppendProperties, LenProperties
<1>3. wires' # <<>>
  BY <1>2, EmptySeq
<1>4. \A c \in 1..n + 1 : \A k \in 1..Len(wires'[c]) : c \in 1..n /\ k \in 1..Len(wires[c]) /\ wires'[c] = wires[c]
  BY <1>1, <1>2
<1>5. WiresInOrder'
  BY <1>2, <1>4 DEF WiresInOrder
<1>6. \A c \in 1..n + 1 : DOMAIN wires'[c] = 1..Len(wires'[c])
  <2>1. \A c \in 1..n + 1 : wires'[c] \in Seq(Seq(ItemType))
    BY <1>2, ElementOfSeq
  <2> QED BY <2>1, LenProperties
<1>7. \A c \in 1..n : DOMAIN wires[c] = 1..Len(wires[c])
  BY WireType
<1>8. DOMAIN wires = 1..n
  BY WireType
<1>9. FramesSent' = FramesSent
  <2>1. ASSUME NEW f \in FramesSent' PROVE f \in FramesSent
    BY <1>2, <1>4, <1>6, <1>7, <1>8, <2>1 DEF FramesSent
  <2>2. ASSUME NEW f \in FramesSent PROVE f \in FramesSent'
    BY <1>2, <1>6, <1>7, <1>8, <2>2 DEF FramesSent
  <2> QED BY <2>1, <2>2
<1> QED BY <1>2, <1>3, <1>5, <1>9

\* What deepgram is sent after the chunk that ends a speech.
Finalize == <<<<0>>>>

\* A chunk, and then perhaps a mark, goes to the last connection, after all that was sent.
LEMMA ChunkSent ==
    ASSUME SttSocketsAssumption, SttSocketsTypeOK, WiresInOrder, NEW out \in Seq(Frames), Ascends(out),
           Below(FramesSent, ToSet(out)), wires # <<>>,
           NEW mark, mark = <<>> \/ mark = Finalize,
           wires' = [wires EXCEPT ![Len(wires)] = @ \o <<out>> \o mark]
    PROVE  /\ wires' \in Seq(Seq(Seq(ItemType))) /\ wires' # <<>>
           /\ WiresInOrder' /\ FramesSent' = FramesSent \cup ToSet(out)
<1> PICK n \in Nat : n = Len(wires)
  BY WireType
<1>1. n \in 1..n /\ DOMAIN wires = 1..n /\ wires \in Seq(Seq(Seq(ItemType)))
  BY WireType, EmptySeq DEF SttSocketsTypeOK, ItemType
<1> DEFINE before == wires[n]
           new == before \o <<out>> \o mark
<1>2. out \in Seq(ItemType) /\ FramesOf(out) = ToSet(out) /\ ToSet(out) \subseteq Frames
  BY FramesAreItems
<1>3. before \in Seq(Seq(ItemType)) /\ Len(before) \in Nat /\ DOMAIN before = 1..Len(before)
  BY <1>1, WireType
<1>4. /\ <<out>> \in Seq(Seq(ItemType)) /\ Len(<<out>>) = 1 /\ <<out>>[1] = out
      /\ mark \in Seq(Seq(ItemType)) /\ Len(mark) \in {0, 1} /\ (Len(mark) = 1 => mark[1] = <<0>>)
  <2>1. 0 \in ItemType
    BY DEF ItemType, SttSocketsAssumption
  <2>2. <<out>> \in Seq(Seq(ItemType)) /\ Len(<<out>>) = 1 /\ <<out>>[1] = out
    BY <1>2
  <2>3. CASE mark = <<>>
    BY <2>2, <2>3
  <2>4. CASE mark = <<<<0>>>>
    <3>1. <<0>> \in Seq(ItemType)
      BY <2>1
    <3>2. mark \in Seq(Seq(ItemType)) /\ Len(mark) = 1 /\ mark[1] = <<0>>
      BY <2>4, <3>1
    <3> QED BY <2>2, <3>2
  <2> QED BY <2>3, <2>4 DEF Finalize
<1> PICK l \in {0, 1} : l = Len(mark)
  BY <1>4
<1> PICK m \in Nat : m = Len(before)
  BY <1>3
<1>5. /\ before \o <<out>> \in Seq(Seq(ItemType)) /\ Len(before \o <<out>>) = m + 1
      /\ \A k \in 1..m : (before \o <<out>>)[k] = before[k]
      /\ (before \o <<out>>)[m + 1] = out
  <2>1. \A k \in 1..1 : m + k \in 1..m + 1 /\ (before \o <<out>>)[m + k] = <<out>>[k]
    BY <1>3, <1>4, ConcatElements
  <2> QED BY <1>3, <1>4, <2>1, ConcatElements
<1>6. /\ new \in Seq(Seq(ItemType)) /\ Len(new) = m + 1 + l
      /\ \A k \in 1..m + 1 : new[k] = (before \o <<out>>)[k]
      /\ l = 1 => new[m + 2] = <<0>>
  <2> DEFINE a == before \o <<out>>
  <2>0. a \in Seq(Seq(ItemType)) /\ Len(a) = m + 1 /\ mark \in Seq(Seq(ItemType))
    BY <1>4, <1>5
  <2> HIDE DEF a
  <2>1. /\ a \o mark \in Seq(Seq(ItemType)) /\ Len(a \o mark) = Len(a) + Len(mark)
        /\ \A k \in 1..Len(a) : (a \o mark)[k] = a[k]
        /\ \A k \in 1..Len(mark) : Len(a) + k \in 1..Len(a \o mark) /\ (a \o mark)[Len(a) + k] = mark[k]
    <3>1. \A x, y \in Seq(Seq(ItemType)) :
            /\ x \o y \in Seq(Seq(ItemType)) /\ Len(x \o y) = Len(x) + Len(y)
            /\ \A k \in 1..Len(x) : (x \o y)[k] = x[k]
            /\ \A k \in 1..Len(y) : Len(x) + k \in 1..Len(x \o y) /\ (x \o y)[Len(x) + k] = y[k]
      BY ConcatElements
    <3> QED BY <2>0, <3>1
  <2>2. ASSUME l = 1 PROVE (a \o mark)[(m + 1) + 1] = <<0>>
    <3>1. 1 \in 1..Len(mark)
      BY <2>2
    <3>2. (a \o mark)[Len(a) + 1] = mark[1]
      BY <2>1, <3>1
    <3> QED BY <1>4, <2>0, <2>2, <3>2
  <2>3. (m + 1) + 1 = m + 2
    OBVIOUS
  <2> QED BY <2>0, <2>1, <2>2, <2>3 DEF a
<1>7. /\ wires' \in Seq(Seq(Seq(ItemType))) /\ Len(wires') = n /\ DOMAIN wires' = 1..n
      /\ \A c \in 1..n : c # n => wires'[c] = wires[c]
      /\ wires'[n] = new
  <2>1. wires' = [wires EXCEPT ![n] = new]
    OBVIOUS
  <2> HIDE DEF new
  <2>2. /\ wires' \in Seq(Seq(Seq(ItemType))) /\ Len(wires') = n
        /\ \A c \in 1..n : wires'[c] = IF c = n THEN new ELSE wires[c]
    <3> DEFINE w == [wires EXCEPT ![n] = new]
    <3>1. n \in 1..Len(wires) /\ new \in Seq(Seq(ItemType)) /\ wires \in Seq(Seq(Seq(ItemType)))
      BY <1>1, <1>6
    <3>2. /\ w \in Seq(Seq(Seq(ItemType))) /\ Len(w) = Len(wires)
          /\ \A c \in 1..Len(wires) : w[c] = IF c = n THEN new ELSE wires[c]
      BY ONLY <3>1, ExceptSeq
    <3> QED BY <2>1, <3>2
  <2> QED BY <1>1, <2>2, LenProperties
<1> HIDE DEF new, before
<1> DEFINE Old(c, k) == c \in 1..n /\ k \in 1..Len(wires[c])
<1>8. \A c \in 1..n : \A k \in 1..Len(wires[c]) : k \in 1..Len(wires'[c]) /\ wires'[c][k] = wires[c][k]
  <2>1. ASSUME NEW k \in 1..m PROVE k \in 1..Len(new) /\ new[k] = before[k]
    <3>1. k \in 1..m + 1 /\ k \in 1..m + 1 + l
      OBVIOUS
    <3> QED BY <1>5, <1>6, <3>1
  <2> QED BY <1>7, <2>1 DEF before
<1>9. m + 1 \in 1..Len(wires'[n]) /\ wires'[n][m + 1] = out
  <2>1. m + 1 \in 1..m + 1 /\ m + 1 \in 1..m + 1 + l
    OBVIOUS
  <2> QED BY <1>5, <1>6, <1>7, <2>1
<1>a. ASSUME NEW c \in 1..n, NEW k \in 1..Len(wires'[c])
      PROVE  \/ Old(c, k)
             \/ c = n /\ k = m + 1 /\ wires'[c][k] = out
             \/ c = n /\ k = m + 2 /\ wires'[c][k] = <<0>>
  <2>1. CASE c # n
    BY <1>7, <1>a, <2>1
  <2>2. CASE c = n
    <3>1. k \in 1..m + 1 + l
      BY <1>6, <1>7, <2>2
    <3>2. k \in 1..m \/ k = m + 1 \/ (k = m + 2 /\ l = 1)
      <4>1. CASE l = 0
        BY <3>1, <4>1
      <4>2. CASE l = 1
        <5>1. \A a \in Nat : \A x \in 1..a + 1 + 1 : x \in 1..a \/ x = a + 1 \/ x = a + 2
          OBVIOUS
        <5>2. k \in 1..m + 1 + 1
          BY <3>1, <4>2
        <5> QED BY <4>2, <5>1, <5>2
      <4> QED BY <4>1, <4>2
    <3> QED BY <1>6, <1>7, <1>9, <2>2, <3>2 DEF before
  <2> QED BY <2>1, <2>2
<1>b. Ascends(<<0>>) /\ FramesOf(<<0>>) = {}
  BY DEF Ascends, FramesOf, ToSet, Frames
<1>c. ASSUME NEW c \in 1..n, NEW j \in 1..Len(wires'[c]) PROVE Ascends(wires'[c][j])
  BY <1>8, <1>a, <1>b DEF WiresInOrder
<1>d. ASSUME NEW c \in 1..n, NEW j \in 1..Len(wires'[c]), NEW d \in 1..n, NEW k \in 1..Len(wires'[d]),
             c < d \/ (c = d /\ j < k)
      PROVE  Below(FramesOf(wires'[c][j]), FramesOf(wires'[d][k]))
  <2>1. CASE Old(d, k)
    <3>1. Old(c, j)
      <4>1. CASE c = n
        <5>1. d = n /\ j < k
          BY <1>d, <4>1
        <5>2. k \in 1..m
          BY <2>1, <5>1 DEF before
        <5> QED BY <4>1, <5>1, <5>2 DEF before
      <4>2. CASE c # n
        BY <1>a, <4>2
      <4> QED BY <4>1, <4>2
    <3> QED BY <1>8, <1>d, <2>1, <3>1 DEF WiresInOrder
  <2>2. CASE d = n /\ k = m + 1 /\ wires'[d][k] = out
    <3>1. Old(c, j)
      <4>1. c = n => j < m + 1 /\ j # m + 1 /\ j # m + 2
        BY <1>d, <2>2
      <4> QED BY <1>a, <4>1
    <3>2. FramesOf(wires'[c][j]) \subseteq FramesSent
      BY <1>8, <3>1, SentFrames
    <3> QED BY <1>2, <2>2, <3>2 DEF Below
  <2>3. CASE d = n /\ k = m + 2 /\ wires'[d][k] = <<0>>
    BY <1>b, <2>3 DEF Below
  <2> QED BY <1>a, <2>1, <2>2, <2>3
<1>e. WiresInOrder'
  <2> SUFFICES ASSUME NEW c \in 1..Len(wires'), NEW j \in 1..Len(wires'[c])
               PROVE  /\ Ascends(wires'[c][j])
                      /\ \A d \in 1..Len(wires') : \A k \in 1..Len(wires'[d]) :
                            c < d \/ (c = d /\ j < k) => Below(FramesOf(wires'[c][j]), FramesOf(wires'[d][k]))
    BY DEF WiresInOrder, Ascends, Below, FramesOf
  <2>1. c \in 1..n
    BY <1>7
  <2> QED BY <1>7, <1>c, <1>d, <2>1
<1>f. FramesSent' = FramesSent \cup ToSet(out)
  <2>0. \A c \in 1..n : DOMAIN wires'[c] = 1..Len(wires'[c])
    <3>1. \A c \in 1..n : wires'[c] \in Seq(Seq(ItemType))
      BY <1>7, ElementOfSeq
    <3> QED BY <3>1, LenProperties
  <2>1. ASSUME NEW f \in FramesSent' PROVE f \in FramesSent \cup ToSet(out)
    <3> PICK c \in 1..n : \E k \in 1..Len(wires'[c]) : f \in FramesOf(wires'[c][k])
      <4>1. PICK c \in DOMAIN wires' : \E k \in DOMAIN wires'[c] : f \in ToSet(wires'[c][k])
        BY <2>1 DEF FramesSent
      <4>2. c \in 1..n /\ DOMAIN wires'[c] = 1..Len(wires'[c]) /\ f \in Frames
        BY <1>7, <2>0, <2>1, <4>1 DEF FramesSent
      <4> QED BY <4>1, <4>2 DEF FramesOf
    <3> PICK k \in 1..Len(wires'[c]) : f \in FramesOf(wires'[c][k])
      OBVIOUS
    <3>1. CASE Old(c, k)
      <4>1. FramesOf(wires[c][k]) \subseteq FramesSent
        BY <3>1, SentFrames
      <4> QED BY <1>8, <3>1, <4>1
    <3>2. CASE wires'[c][k] = out
      BY <1>2, <3>2
    <3>3. CASE wires'[c][k] = <<0>>
      BY <1>b, <3>3
    <3> QED BY <1>a, <3>1, <3>2, <3>3
  <2>2. ASSUME NEW f \in FramesSent PROVE f \in FramesSent'
    <3> PICK c \in 1..n : \E k \in 1..Len(wires[c]) : f \in FramesOf(wires[c][k])
      BY <2>2, SentFrames
    <3> PICK k \in 1..Len(wires[c]) : f \in FramesOf(wires[c][k])
      OBVIOUS
    <3>1. k \in DOMAIN wires'[c] /\ f \in ToSet(wires'[c][k]) /\ f \in Frames
      BY <1>8, <2>0 DEF FramesOf
    <3> QED BY <1>7, <3>1 DEF FramesSent
  <2>3. ASSUME NEW f \in ToSet(out) PROVE f \in FramesSent'
    <3>1. m + 1 \in DOMAIN wires'[n] /\ f \in ToSet(wires'[n][m + 1]) /\ f \in Frames
      BY <1>2, <1>9, <2>0
    <3> QED BY <1>1, <1>7, <3>1 DEF FramesSent
  <2> QED BY <2>1, <2>2, <2>3
<1>g. wires' # <<>>
  BY <1>1, <1>7, EmptySeq
<1> QED BY <1>7, <1>e, <1>f, <1>g

----------------------------------------------------------------------------
(* The actions *)

\* The inductive invariant of the audio.
AudioInv == SttSocketsTypeOK /\ SenderShape /\ Disturbances /\ FlowInOrder /\ WiresInOrder

SenderType == [state : {"none", "starts", "reads", "done"}, buffer : Seq(Frames), out : Seq(Frames), ended : BOOLEAN]

LEMMA SttBounds ==
    ASSUME SttSocketsAssumption
    PROVE  /\ MaxUnitsPushed \in Nat /\ MaxMarks \in Nat /\ MaxHeardEvents \in Nat /\ MaxAnew \in Nat
           /\ FramesPerChunk \in Nat \ {0}
           /\ NoSender \in SenderType /\ Len(NoSender.buffer) < FramesPerChunk /\ Len(NoSender.out) <= FramesPerChunk
           /\ NoSender.state = "none" /\ NoSender.buffer = <<>> /\ NoSender.out = <<>>
<1>1. NoSender \in SenderType
  BY DEF NoSender, SenderType
<1>2. NoSender.state = "none" /\ NoSender.buffer = <<>> /\ NoSender.out = <<>>
  BY DEF NoSender
<1>3. Len(<<>>) = 0
  OBVIOUS
<1> QED BY <1>1, <1>2, <1>3 DEF SttSocketsAssumption

\* Nothing is in hand of a sender that holds nothing.
LEMMA EmptyHands ==
    /\ ToSet(<<>>) = {} /\ Ascends(<<>>)
    /\ sender.buffer = <<>> /\ sender.out = <<>> => InHand = {}
BY DEF ToSet, InHand, Ascends

LEMMA WiresRest ==
    ASSUME WiresInOrder, UNCHANGED wires
    PROVE  WiresInOrder'
BY DEF WiresInOrder, Ascends, Below, FramesOf

\* The audio stays in order when it does not move.
LEMMA AudioRests ==
    ASSUME FlowInOrder, WiresInOrder, UNCHANGED <<wires, mic, sender>>, Undisturbed' => Undisturbed
    PROVE  FlowInOrder' /\ WiresInOrder'
<1>1. FramesSent' = FramesSent /\ InHand' = InHand /\ Waiting' = Waiting
  BY DEF FramesSent, InHand, Waiting, FramesOf
<1>2. FlowInOrder'
  BY <1>1 DEF FlowInOrder, Ascends, Below
<1>3. WiresInOrder'
  BY WiresRest
<1> QED BY <1>2, <1>3

\* A sender is cancelled with what it has in hand: its stream is disturbed, or over.
LEMMA SenderCancelled ==
    ASSUME SttSocketsAssumption, SttSocketsTypeOK, SenderShape, FlowInOrder, WiresInOrder,
           sender' = NoSender, UNCHANGED <<dialect, wires, mic>>, ~Undisturbed', run' # "open"
    PROVE  SenderShape' /\ FlowInOrder' /\ WiresInOrder' /\ sender' \in SenderType
           /\ Len(sender'.buffer) < FramesPerChunk /\ Len(sender'.out) <= FramesPerChunk
           /\ sender'.buffer = <<>>
<1>1. /\ sender' \in SenderType /\ sender'.buffer = <<>> /\ sender'.out = <<>> /\ sender'.state = "none"
      /\ Len(sender'.buffer) < FramesPerChunk /\ Len(sender'.out) <= FramesPerChunk
  BY SttBounds
<1>2. FramesSent' = FramesSent /\ Waiting' = Waiting /\ InHand' = {}
  BY <1>1 DEF FramesSent, Waiting, FramesOf, InHand, ToSet
<1>3. Ascends(<<>>)
  BY EmptyHands
<1>4. FlowInOrder'
  BY <1>1, <1>2, <1>3 DEF FlowInOrder, Ascends, Below
<1>5. WiresInOrder'
  BY WiresRest
<1>6. SenderShape'
  BY <1>1 DEF SenderShape, Last
<1> QED BY <1>1, <1>4, <1>5, <1>6

LEMMA PushesKeeps ==
    ASSUME SttSocketsAssumption, AudioInv, Pushes
    PROVE  AudioInv'
<1> USE SttBounds
<1>1. /\ ~mic.closed /\ mic \in [queue : Seq(ItemType), pushed : ItemType, marks : 0..MaxMarks, closed : BOOLEAN]
      /\ UNCHANGED <<dialect, run, runs, updates, sender, recvDone, closingWs, reconnect, started, stopped,
                   thief, isSpeaking, seqNo, wires, told, heardEvents>>
  BY DEF Pushes, AudioInv, SttSocketsTypeOK, ItemType
<1> DEFINE q == mic.queue
           n == mic.pushed
<1>2. q \in Seq(ItemType) /\ n \in Nat /\ n <= MaxUnitsPushed
  BY <1>1 DEF ItemType
<1>3. FramesSent' = FramesSent /\ InHand' = InHand /\ (Undisturbed' <=> Undisturbed)
  BY <1>1 DEF FramesSent, InHand, Undisturbed
<1>4. WiresInOrder'
  BY <1>1, WiresRest DEF AudioInv
<1>5. Ascends(q) /\ FramesOf(q) = Waiting
  BY DEF AudioInv, FlowInOrder, Waiting
<1>6. CASE n < MaxUnitsPushed /\ mic' = [mic EXCEPT !.queue = Append(@, n + 1), !.pushed = @ + 1]
  <2>1. n + 1 \in ItemType /\ n + 1 \in Frames /\ {n + 1} \cap Frames = {n + 1}
    BY <1>2, <1>6 DEF ItemType, Frames
  <2>2. FramesSent \cup InHand \cup Waiting \subseteq 1..n
    BY DEF AudioInv, FlowInOrder
  <2>3. Below(FramesSent, {n + 1}) /\ Below(InHand, {n + 1}) /\ Below(Waiting, {n + 1})
    BY <1>2, <2>2 DEF Below
  <2>4. /\ Append(q, n + 1) \in Seq(ItemType) /\ Ascends(Append(q, n + 1))
        /\ FramesOf(Append(q, n + 1)) = FramesOf(q) \cup {n + 1}
    BY <1>2, <1>5, <2>1, <2>3, AscendsAppend
  <2>5. /\ mic' \in [queue : Seq(ItemType), pushed : ItemType, marks : 0..MaxMarks, closed : BOOLEAN]
        /\ mic'.queue = Append(q, n + 1) /\ mic'.pushed = n + 1 /\ ~mic'.closed
    BY <1>1, <1>6, <2>1, <2>4
  <2>6. Waiting' = Waiting \cup {n + 1}
    BY <1>5, <2>4, <2>5 DEF Waiting, FramesOf
  <2>7. 1..n + 1 = 1..n \cup {n + 1}
    BY <1>2
  <2>8. FlowInOrder'
    BY <1>1, <1>3, <2>2, <2>3, <2>4, <2>5, <2>6, <2>7 DEF AudioInv, FlowInOrder, Below, Ascends
  <2>9. SttSocketsTypeOK'
    BY <1>1, <2>5 DEF AudioInv, SttSocketsTypeOK, ItemType
  <2>a. SenderShape' /\ Disturbances'
    BY <1>1, <1>3, <2>5 DEF AudioInv, SenderShape, Disturbances
  <2> QED BY <1>4, <2>8, <2>9, <2>a DEF AudioInv
<1>7. ASSUME NEW marks \in 0..MaxMarks, NEW shut \in BOOLEAN,
             mic' = [mic EXCEPT !.queue = Append(@, 0), !.marks = marks, !.closed = shut]
      PROVE  AudioInv'
  <2>1. 0 \in ItemType /\ {0} \cap Frames = {}
    BY DEF ItemType, Frames
  <2>2. Below(FramesOf(q), {0} \cap Frames)
    BY <2>1 DEF Below
  <2>3. /\ Append(q, 0) \in Seq(ItemType) /\ Ascends(Append(q, 0))
        /\ FramesOf(Append(q, 0)) = FramesOf(q) \cup ({0} \cap Frames)
    BY <1>2, <1>5, <2>1, <2>2, AscendsAppend
  <2>4. Last(Append(q, 0)) = 0 /\ Append(q, 0) # <<>>
    BY <1>2, <2>1, LastElement
  <2>5. /\ mic' \in [queue : Seq(ItemType), pushed : ItemType, marks : 0..MaxMarks, closed : BOOLEAN]
        /\ mic'.queue = Append(q, 0) /\ mic'.pushed = n
    BY <1>1, <1>7, <2>3
  <2>6. Waiting' = Waiting
    BY <1>5, <2>1, <2>3, <2>5 DEF Waiting, FramesOf
  <2>7. FlowInOrder'
    BY <1>1, <1>3, <2>3, <2>5, <2>6 DEF AudioInv, FlowInOrder, Below, Ascends
  <2>8. SttSocketsTypeOK'
    BY <1>1, <2>5 DEF AudioInv, SttSocketsTypeOK, ItemType
  <2>9. sender.state # "done"
    BY <1>1 DEF AudioInv, SenderShape
  <2>a. SenderShape'
    BY <1>1, <2>4, <2>5, <2>9 DEF AudioInv, SenderShape, Last
  <2>b. Disturbances'
    BY <1>1, <1>3, <2>4, <2>5 DEF AudioInv, Disturbances
  <2> QED BY <1>4, <2>7, <2>8, <2>a, <2>b DEF AudioInv
<1>8. CASE mic.marks < MaxMarks /\ mic' = [mic EXCEPT !.queue = Append(@, 0), !.marks = @ + 1]
  <2>1. mic.marks + 1 \in 0..MaxMarks /\ FALSE \in BOOLEAN
    BY <1>1, <1>8
  <2>2. mic' = [mic EXCEPT !.queue = Append(@, 0), !.marks = mic.marks + 1, !.closed = FALSE]
    BY <1>1, <1>8
  <2> QED BY <1>7, <2>1, <2>2
<1>9. CASE mic' = [mic EXCEPT !.queue = Append(@, 0), !.closed = TRUE]
  <2>1. mic.marks \in 0..MaxMarks /\ TRUE \in BOOLEAN
    BY <1>1
  <2>2. mic' = [mic EXCEPT !.queue = Append(@, 0), !.marks = mic.marks, !.closed = TRUE]
    BY <1>1, <1>9
  <2> QED BY <1>7, <2>1, <2>2
<1> QED BY <1>6, <1>8, <1>9 DEF Pushes

LEMMA UpdateOptionsKeeps ==
    ASSUME SttSocketsAssumption, AudioInv, UpdateOptions
    PROVE  AudioInv'
<1>1. updates \in Nat /\ runs \in Nat \ {0} /\ updates' \in Nat /\ updates' # 0 /\ runs + updates' <= MaxAnew + 1
  BY SttBounds DEF UpdateOptions, MayGoOn, AudioInv, SttSocketsTypeOK
<1>2. ~Undisturbed'
  BY <1>1 DEF Undisturbed
<1>3. SttSocketsTypeOK'
  BY <1>1 DEF UpdateOptions, AudioInv, SttSocketsTypeOK
<1>4. FlowInOrder' /\ WiresInOrder'
  BY <1>2, AudioRests DEF UpdateOptions, AudioInv
<1>5. SenderShape' /\ Disturbances'
  BY <1>1, <1>2 DEF UpdateOptions, AudioInv, SenderShape, Disturbances
<1> QED BY <1>3, <1>4, <1>5 DEF AudioInv

LEMMA ConnectsKeeps ==
    ASSUME SttSocketsAssumption, AudioInv, Connects
    PROVE  AudioInv'
<1> DEFINE state == IF dialect \in {"speechmatics", "azure"} THEN "starts" ELSE "reads"
<1>1. /\ sender.state = "none" /\ sender.buffer = <<>> /\ sender.out = <<>>
      /\ SttSocketsTypeOK /\ WiresInOrder /\ FlowInOrder /\ SenderShape /\ Disturbances
  BY DEF AudioInv, SenderShape, Connects, SttSocketsTypeOK
<1>2. /\ sender' = [NoSender EXCEPT !.state = state] /\ run' = "open" /\ run = "connecting"
      /\ wires' = Append(wires, <<>>) /\ recvDone' = FALSE
      /\ told' = [begun |-> FALSE, last |-> "no"]
      /\ isSpeaking' = (isSpeaking /\ dialect # "google")
      /\ UNCHANGED <<dialect, mic, runs, updates, closingWs, reconnect, started, stopped, thief, seqNo, heardEvents>>
  BY DEF Connects
<1>3. /\ sender' \in SenderType /\ sender'.buffer = <<>> /\ sender'.out = <<>> /\ sender'.state \in {"starts", "reads"}
      /\ Len(sender'.buffer) < FramesPerChunk /\ Len(sender'.out) <= FramesPerChunk
  <2>1. state \in {"starts", "reads"}
    OBVIOUS
  <2> HIDE DEF state
  <2>2. sender' \in SenderType /\ sender'.buffer = <<>> /\ sender'.out = <<>> /\ sender'.state = state
    <3>1. sender' = [state |-> state, buffer |-> <<>>, out |-> <<>>, ended |-> FALSE]
      BY <1>2 DEF NoSender
    <3> QED BY <2>1, <3>1 DEF SenderType
  <2> QED BY <2>1, <2>2, SttBounds
<1>4. /\ wires' \in Seq(Seq(Seq(ItemType))) /\ wires' # <<>> /\ WiresInOrder' /\ FramesSent' = FramesSent
  BY <1>1, <1>2, NewWire
<1>5. InHand' = {} /\ InHand = {} /\ Waiting' = Waiting /\ (Undisturbed' <=> Undisturbed)
  BY <1>1, <1>2, <1>3 DEF InHand, ToSet, Waiting, FramesOf, Undisturbed
<1>6. FlowInOrder'
  BY <1>1, <1>2, <1>3, <1>4, <1>5 DEF FlowInOrder, Below, Ascends
<1>7. isSpeaking' \in BOOLEAN
  BY <1>2
<1>8. SttSocketsTypeOK'
  BY <1>1, <1>2, <1>3, <1>4, <1>7 DEF SttSocketsTypeOK, SenderType, ItemType
<1>9. SenderShape' /\ Disturbances'
  BY <1>1, <1>2, <1>3, <1>4, <1>5 DEF SenderShape, Disturbances
<1> QED BY <1>4, <1>6, <1>8, <1>9 DEF AudioInv

LEMMA ConnectAgainKeeps ==
    ASSUME SttSocketsAssumption, AudioInv, ConnectAgain
    PROVE  AudioInv'
<1>1. /\ updates # 0 /\ run' \in {"stopping", "connecting"} /\ sender' = NoSender /\ reconnect' = FALSE
      /\ UNCHANGED <<dialect, mic, runs, updates, recvDone, closingWs, started, stopped, isSpeaking, seqNo, wires,
                   told, heardEvents>>
  BY DEF ConnectAgain, AudioInv, Disturbances
<1>2. ~Undisturbed'
  BY <1>1 DEF Undisturbed
<1>3. /\ SenderShape' /\ FlowInOrder' /\ WiresInOrder' /\ sender' \in SenderType
      /\ Len(sender'.buffer) < FramesPerChunk /\ Len(sender'.out) <= FramesPerChunk
  BY <1>1, <1>2, SenderCancelled DEF AudioInv
<1>4. thief' \in BOOLEAN
  BY DEF ConnectAgain, LeavesAThief, AudioInv, SttSocketsTypeOK
<1>5. SttSocketsTypeOK'
  BY <1>1, <1>3, <1>4 DEF AudioInv, SttSocketsTypeOK, SenderType
<1>6. Disturbances'
  BY <1>1, <1>2 DEF Disturbances
<1> QED BY <1>3, <1>5, <1>6 DEF AudioInv

LEMMA RunReturnsKeeps ==
    ASSUME SttSocketsAssumption, AudioInv, RunReturns
    PROVE  AudioInv'
<1>1. /\ run' = "over" /\ sender' = NoSender
      /\ UNCHANGED <<dialect, mic, runs, updates, recvDone, closingWs, reconnect, started, stopped, thief,
                   isSpeaking, seqNo, wires, told, heardEvents>>
  BY DEF RunReturns
<1>2. ~Undisturbed'
  BY <1>1 DEF Undisturbed
<1>3. /\ SenderShape' /\ FlowInOrder' /\ WiresInOrder' /\ sender' \in SenderType
      /\ Len(sender'.buffer) < FramesPerChunk /\ Len(sender'.out) <= FramesPerChunk
  BY <1>1, <1>2, SenderCancelled DEF AudioInv
<1>4. SttSocketsTypeOK'
  BY <1>1, <1>3 DEF AudioInv, SttSocketsTypeOK, SenderType
<1>5. Disturbances'
  BY <1>1, <1>2 DEF AudioInv, Disturbances
<1> QED BY <1>3, <1>4, <1>5 DEF AudioInv

LEMMA RunFailsKeeps ==
    ASSUME SttSocketsAssumption, AudioInv, RunFails,
           UNCHANGED <<dialect, mic, updates, reconnect, started, stopped, isSpeaking, seqNo, wires, told, heardEvents>>
    PROVE  AudioInv'
<1>1. updates \in Nat /\ runs \in Nat \ {0} /\ runs + updates <= MaxAnew + 1 /\ MaxAnew \in Nat
  BY SttBounds DEF AudioInv, SttSocketsTypeOK
<1>2. /\ run' \in {"connecting", "failed"} /\ runs' \in Nat \ {0} /\ runs' + updates <= MaxAnew + 1
      /\ run' = "connecting" => runs' # 1
  BY <1>1 DEF RunFails, MayGoOn
<1>3. ~Undisturbed'
  BY <1>2 DEF Undisturbed
<1>4. sender' = NoSender /\ recvDone' = FALSE /\ closingWs' = FALSE
  BY DEF RunFails
<1>5. /\ SenderShape' /\ FlowInOrder' /\ WiresInOrder' /\ sender' \in SenderType
      /\ Len(sender'.buffer) < FramesPerChunk /\ Len(sender'.out) <= FramesPerChunk
  BY <1>2, <1>3, <1>4, SenderCancelled DEF AudioInv
<1>6. thief' \in BOOLEAN
  BY DEF RunFails, LeavesAThief, AudioInv, SttSocketsTypeOK
<1>7. SttSocketsTypeOK'
  BY <1>2, <1>4, <1>5, <1>6 DEF AudioInv, SttSocketsTypeOK, SenderType
<1>8. Disturbances'
  BY <1>2, <1>3 DEF AudioInv, Disturbances
<1> QED BY <1>5, <1>7, <1>8 DEF AudioInv

LEMMA SessionStoppedKeeps ==
    ASSUME SttSocketsAssumption, AudioInv, SessionStopped
    PROVE  AudioInv'
<1>1. /\ run = "stopping" /\ run' = "connecting" /\ stopped' = TRUE /\ updates # 0
      /\ UNCHANGED <<dialect, mic, runs, updates, sender, recvDone, closingWs, reconnect, started, thief,
                   isSpeaking, seqNo, wires, told, heardEvents>>
  BY DEF SessionStopped, AudioInv, Disturbances
<1>2. ~Undisturbed'
  BY <1>1 DEF Undisturbed
<1>3. FlowInOrder' /\ WiresInOrder'
  BY <1>1, <1>2, AudioRests DEF AudioInv
<1>4. SttSocketsTypeOK'
  BY <1>1 DEF AudioInv, SttSocketsTypeOK
<1>5. SenderShape' /\ Disturbances'
  BY <1>1, <1>2 DEF AudioInv, SenderShape, Disturbances
<1> QED BY <1>3, <1>4, <1>5 DEF AudioInv

LEMMA SenderStartsKeeps ==
    ASSUME SttSocketsAssumption, AudioInv, SenderStarts
    PROVE  AudioInv'
<1>1. /\ sender.state = "starts" /\ sender' = [sender EXCEPT !.state = "reads"] /\ sender \in SenderType
      /\ UNCHANGED <<dialect, mic, run, runs, updates, recvDone, closingWs, reconnect, started, stopped, thief,
                   isSpeaking, seqNo, wires, told, heardEvents>>
  BY DEF SenderStarts, AudioInv, SttSocketsTypeOK, SenderType
<1>2. /\ sender' \in SenderType /\ sender'.buffer = sender.buffer /\ sender'.out = sender.out
      /\ sender'.state = "reads"
  BY <1>1 DEF SenderType
<1>3. /\ FramesSent' = FramesSent /\ InHand' = InHand /\ Waiting' = Waiting /\ (Undisturbed' <=> Undisturbed)
      /\ WiresInOrder'
  BY <1>1, <1>2, WiresRest DEF AudioInv, FramesSent, InHand, Waiting, FramesOf, Undisturbed
<1>4. FlowInOrder'
  BY <1>1, <1>2, <1>3 DEF AudioInv, FlowInOrder, Below, Ascends
<1>5. SttSocketsTypeOK'
  BY <1>1, <1>2 DEF AudioInv, SttSocketsTypeOK, SenderType
<1>6. SenderShape' /\ Disturbances'
  BY <1>1, <1>2, <1>3 DEF AudioInv, SenderShape, Disturbances
<1> QED BY <1>3, <1>4, <1>5, <1>6 DEF AudioInv

\* What the sender makes of an item, in any dialect.
LEMMA ReadsItem ==
    ASSUME SttSocketsAssumption, SttSocketsTypeOK, SenderShape, SenderReads,
           NEW item, item = Head(mic.queue), item \in ItemType
    PROVE  /\ sender' \in SenderType /\ sender'.state = "reads" /\ sender.state = "reads" /\ sender.out = <<>>
           /\ Len(sender'.buffer) < FramesPerChunk /\ Len(sender'.out) <= FramesPerChunk
           /\ dialect \notin WithChunks => sender'.buffer = <<>> /\ sender.buffer = <<>>
           /\ item = 0 =>
                \/ sender'.buffer = <<>> /\ sender'.out = sender.buffer
                \/ sender'.buffer = <<>> /\ sender'.out = <<>> /\ sender.buffer = <<>>
           /\ item # 0 =>
                \/ sender'.buffer = <<>> /\ sender'.out = Append(sender.buffer, item)
                \/ sender'.buffer = Append(sender.buffer, item) /\ sender'.out = <<>>
<1>1. /\ sender \in SenderType /\ sender.state = "reads" /\ sender.out = <<>>
      /\ Len(sender.buffer) < FramesPerChunk /\ Len(sender.buffer) \in Nat
      /\ dialect \notin WithChunks => sender.buffer = <<>>
  <2>1. sender \in SenderType /\ sender.state = "reads" /\ sender.out = <<>> /\ Len(sender.buffer) < FramesPerChunk
        /\ (dialect \notin WithChunks => sender.buffer = <<>>)
    BY DEF SttSocketsTypeOK, SenderType, SenderReads, SenderShape
  <2>2. sender.buffer \in Seq(Frames)
    BY <2>1 DEF SenderType
  <2> QED BY <2>1, <2>2, LenProperties
<1>2. FramesPerChunk \in Nat \ {0} /\ MaxUnitsPushed \in Nat
  BY SttBounds
<1>3. item # 0 => item \in Frames
  BY <1>2 DEF ItemType, Frames
<1> DEFINE b == Append(sender.buffer, item)
<1>4. ASSUME item # 0 PROVE b \in Seq(Frames) /\ Len(b) = Len(sender.buffer) + 1
  <2>1. sender.buffer \in Seq(Frames) /\ item \in Frames
    BY <1>1, <1>3, <1>4 DEF SenderType
  <2> QED BY <2>1, AppendProperties
<1> HIDE DEF b
<1>5. ASSUME item = 0, dialect \in WithChunks
      PROVE  \E ended \in BOOLEAN : sender' = [sender EXCEPT !.out = sender.buffer, !.buffer = <<>>, !.ended = ended]
  <2>1. CASE dialect = "deepgram"
    <3>1. sender' = [Flush EXCEPT !.ended = TRUE]
      BY <1>5, <2>1 DEF SenderReads, DeepgramReads
    <3> QED BY <1>1, <3>1 DEF Flush, SenderType
  <2>2. CASE dialect \in {"assemblyai", "speechmatics", "openai"}
    <3>1. sender' = Flush
      BY <1>5, <2>2 DEF SenderReads, AssemblyAIReads, SpeechmaticsReads, OpenAIReads
    <3>2. sender.ended \in BOOLEAN
      BY <1>1 DEF SenderType
    <3>3. sender' = [sender EXCEPT !.out = sender.buffer, !.buffer = <<>>, !.ended = sender.ended]
      BY <1>1, <3>1 DEF Flush, SenderType
    <3> QED BY <3>2, <3>3
  <2> QED BY <1>5, <2>1, <2>2 DEF WithChunks
<1>6. ASSUME item # 0, dialect \in WithChunks
      PROVE  sender' = IF Len(b) = FramesPerChunk THEN [sender EXCEPT !.buffer = <<>>, !.out = b]
                       ELSE [sender EXCEPT !.buffer = b]
  BY <1>6 DEF SenderReads, DeepgramReads, AssemblyAIReads, SpeechmaticsReads, OpenAIReads, WithChunks, Write, b
<1>7. ASSUME dialect \notin WithChunks
      PROVE  sender' = IF item = 0 THEN sender ELSE [sender EXCEPT !.out = <<item>>]
  <2>1. dialect \in {"azure", "google", "aws"}
    BY <1>7 DEF SttSocketsTypeOK, SttSocketsAssumption, WithChunks
  <2> QED BY <2>1 DEF SenderReads, AzureReads, GoogleReads, AwsReads
<1>8. CASE item = 0 /\ dialect \in WithChunks
  <2> PICK ended \in BOOLEAN : sender' = [sender EXCEPT !.out = sender.buffer, !.buffer = <<>>, !.ended = ended]
    BY <1>5, <1>8
  <2>1. /\ sender' \in SenderType /\ sender'.state = "reads" /\ sender'.buffer = <<>> /\ sender'.out = sender.buffer
    BY <1>1 DEF SenderType
  <2>2. Len(<<>>) = 0
    OBVIOUS
  <2> QED BY <1>1, <1>2, <1>8, <2>1, <2>2
<1>9. CASE item # 0 /\ dialect \in WithChunks
  <2>1. CASE Len(b) = FramesPerChunk
    <3>1. /\ sender' \in SenderType /\ sender'.state = "reads" /\ sender'.buffer = <<>> /\ sender'.out = b
      BY <1>1, <1>4, <1>6, <1>9, <2>1 DEF SenderType
    <3>2. Len(<<>>) = 0
      OBVIOUS
    <3> QED BY <1>1, <1>2, <1>9, <2>1, <3>1, <3>2 DEF b
  <2>2. CASE Len(b) # FramesPerChunk
    <3>1. /\ sender' \in SenderType /\ sender'.state = "reads" /\ sender'.buffer = b /\ sender'.out = <<>>
      BY <1>1, <1>4, <1>6, <1>9, <2>2 DEF SenderType
    <3>2. Len(<<>>) = 0
      OBVIOUS
    <3>3. Len(b) < FramesPerChunk
      BY <1>1, <1>2, <1>4, <1>9, <2>2
    <3> QED BY <1>1, <1>2, <1>9, <3>1, <3>2, <3>3 DEF b
  <2> QED BY <2>1, <2>2
<1>a. CASE dialect \notin WithChunks /\ item = 0
  <2>1. sender' = sender /\ sender.buffer = <<>>
    BY <1>1, <1>7, <1>a
  <2>2. Len(<<>>) = 0
    OBVIOUS
  <2> QED BY <1>1, <1>2, <1>a, <2>1, <2>2
<1>b. CASE dialect \notin WithChunks /\ item # 0
  <2>1. sender' = [sender EXCEPT !.out = <<item>>] /\ sender.buffer = <<>>
    BY <1>1, <1>7, <1>b
  <2>2. <<item>> \in Seq(Frames) /\ Len(<<item>>) = 1 /\ Append(<<>>, item) = <<item>> /\ Len(<<>>) = 0
    BY <1>3, <1>b
  <2>3. sender' \in SenderType /\ sender'.state = "reads" /\ sender'.buffer = <<>> /\ sender'.out = <<item>>
    BY <1>1, <2>1, <2>2 DEF SenderType
  <2> QED BY <1>1, <1>2, <1>b, <2>1, <2>2, <2>3
<1> QED BY <1>8, <1>9, <1>a, <1>b

LEMMA SenderReadsKeeps ==
    ASSUME SttSocketsAssumption, AudioInv, SenderReads
    PROVE  AudioInv'
<1>0. MaxUnitsPushed \in Nat
  BY SttBounds
<1>1. /\ SttSocketsTypeOK /\ SenderShape /\ Disturbances /\ FlowInOrder /\ WiresInOrder
      /\ mic \in [queue : Seq(ItemType), pushed : ItemType, marks : 0..MaxMarks, closed : BOOLEAN]
      /\ mic.queue \in Seq(ItemType) /\ mic.queue # <<>> /\ sender.buffer \in Seq(Frames)
  BY DEF AudioInv, SttSocketsTypeOK, ItemType, SenderReads
<1> DEFINE q == mic.queue
<1> PICK item : item = Head(q)
  OBVIOUS
<1>2. /\ Tail(q) \in Seq(ItemType) /\ Ascends(Tail(q)) /\ item \in ItemType
      /\ FramesOf(q) = FramesOf(Tail(q)) \cup ({item} \cap Frames)
      /\ Below({item} \cap Frames, FramesOf(Tail(q)))
  BY <1>0, <1>1, AscendsTail DEF FlowInOrder
<1>3. /\ sender' \in SenderType /\ sender'.state = "reads" /\ sender.state = "reads" /\ sender.out = <<>>
      /\ Len(sender'.buffer) < FramesPerChunk /\ Len(sender'.out) <= FramesPerChunk
      /\ dialect \notin WithChunks => sender'.buffer = <<>> /\ sender.buffer = <<>>
      /\ item = 0 =>
           \/ sender'.buffer = <<>> /\ sender'.out = sender.buffer
           \/ sender'.buffer = <<>> /\ sender'.out = <<>> /\ sender.buffer = <<>>
      /\ item # 0 =>
           \/ sender'.buffer = <<>> /\ sender'.out = Append(sender.buffer, item)
           \/ sender'.buffer = Append(sender.buffer, item) /\ sender'.out = <<>>
  BY <1>1, <1>2, ReadsItem
<1>4. /\ mic' = [mic EXCEPT !.queue = Tail(@)] /\ run = "open"
      /\ UNCHANGED <<dialect, run, runs, updates, recvDone, closingWs, reconnect, started, stopped, thief,
                   isSpeaking, seqNo, wires, told, heardEvents>>
  BY DEF SenderReads
<1>5. /\ mic' \in [queue : Seq(ItemType), pushed : ItemType, marks : 0..MaxMarks, closed : BOOLEAN]
      /\ mic'.queue = Tail(q) /\ mic'.pushed = mic.pushed /\ mic'.closed = mic.closed
  BY <1>1, <1>2, <1>4
<1>6. FramesSent' = FramesSent /\ (Undisturbed' <=> Undisturbed) /\ WiresInOrder'
  BY <1>1, <1>4, WiresRest DEF FramesSent, Undisturbed
<1>7. Waiting = Waiting' \cup ({item} \cap Frames) /\ Waiting' = FramesOf(Tail(q))
  BY <1>2, <1>5 DEF Waiting, FramesOf
<1>8. /\ sender.buffer \in Seq(ItemType) /\ FramesOf(sender.buffer) = ToSet(sender.buffer)
      /\ InHand = ToSet(sender.buffer) /\ ToSet(<<>>) = {} /\ Ascends(<<>>) /\ Ascends(sender.buffer)
  <2>1. sender.buffer \in Seq(ItemType) /\ FramesOf(sender.buffer) = ToSet(sender.buffer)
    BY <1>1, FramesAreItems
  <2> QED BY <1>1, <1>3, <2>1, EmptyHands DEF InHand, FlowInOrder
<1>9. InHand' = InHand \cup ({item} \cap Frames) /\ Ascends(sender'.buffer) /\ Ascends(sender'.out)
  <2>1. CASE item = 0
    <3>1. {item} \cap Frames = {}
      BY <2>1 DEF Frames
    <3> QED BY <1>3, <1>8, <2>1, <3>1 DEF InHand
  <2>2. CASE item # 0
    <3>1. {item} \cap Frames = {item}
      BY <1>0, <1>2, <2>2 DEF ItemType, Frames
    <3>2. Below(FramesOf(sender.buffer), {item} \cap Frames)
      BY <1>1, <1>7, <1>8 DEF FlowInOrder, Below
    <3>3. /\ Ascends(Append(sender.buffer, item))
          /\ ToSet(Append(sender.buffer, item)) = ToSet(sender.buffer) \cup {item}
      BY <1>0, <1>2, <1>8, <3>2, AscendsAppend
    <3> QED BY <1>3, <1>8, <2>2, <3>1, <3>3 DEF InHand
  <2> QED BY <2>1, <2>2
<1>a. FlowInOrder'
  <2>1. Below(FramesSent, InHand') /\ Below(FramesSent, Waiting') /\ Below(InHand', Waiting')
    BY <1>1, <1>2, <1>7, <1>9 DEF FlowInOrder, Below
  <2>2. FramesSent \cup InHand' \cup Waiting' = FramesSent \cup InHand \cup Waiting
    BY <1>7, <1>9
  <2>3. Ascends(mic'.queue)
    BY <1>2, <1>5
  <2> QED BY <1>1, <1>5, <1>6, <1>9, <2>1, <2>2, <2>3 DEF FlowInOrder, Below, Ascends
<1>b. SttSocketsTypeOK'
  BY <1>1, <1>3, <1>4, <1>5 DEF SttSocketsTypeOK, SenderType, ItemType
<1>c. mic.closed => (IF Tail(q) = <<>> THEN item = 0 ELSE Last(Tail(q)) = 0)
  BY <1>1, LastOfTail DEF SenderShape
<1>d. sender'.out # <<>> => sender'.buffer = <<>>
  BY <1>3
<1>e. SenderShape'
  BY <1>1, <1>3, <1>4, <1>5, <1>c, <1>d DEF SenderShape, Last
<1>f. Disturbances'
  BY <1>1, <1>3, <1>4, <1>5, <1>6, <1>c DEF Disturbances
<1> QED BY <1>6, <1>a, <1>b, <1>e, <1>f DEF AudioInv

LEMMA SenderSendsKeeps ==
    ASSUME SttSocketsAssumption, AudioInv, SenderSends
    PROVE  AudioInv'
<1> DEFINE mark == IF sender.ended THEN <<<<0>>>> ELSE <<>>
<1>1. /\ SttSocketsTypeOK /\ SenderShape /\ Disturbances /\ FlowInOrder /\ WiresInOrder
      /\ sender \in SenderType /\ sender.out \in Seq(Frames) /\ sender.out # <<>> /\ sender.buffer = <<>>
      /\ wires # <<>> /\ sender.state = "reads" /\ run = "open"
  BY DEF AudioInv, SttSocketsTypeOK, SenderType, SenderShape, SenderSends
<1>2. /\ sender' = [sender EXCEPT !.out = <<>>, !.ended = FALSE]
      /\ wires' = [wires EXCEPT ![Len(wires)] = @ \o <<sender.out>> \o mark]
      /\ seqNo' = (IF dialect = "speechmatics" THEN seqNo + 1 ELSE seqNo)
      /\ UNCHANGED <<dialect, mic, run, runs, updates, recvDone, closingWs, reconnect, started, stopped, thief,
                   isSpeaking, told, heardEvents>>
  BY DEF SenderSends
<1>3. mark = <<>> \/ mark = Finalize
  BY DEF Finalize
<1> HIDE DEF mark
<1>4. InHand = ToSet(sender.out)
  BY <1>1, EmptyHands DEF InHand
<1>5. /\ wires' \in Seq(Seq(Seq(ItemType))) /\ wires' # <<>>
      /\ WiresInOrder' /\ FramesSent' = FramesSent \cup ToSet(sender.out)
  BY <1>1, <1>2, <1>3, <1>4, ChunkSent DEF FlowInOrder
<1>6. /\ sender' \in SenderType /\ sender'.out = <<>> /\ sender'.buffer = <<>> /\ sender'.state = "reads"
  BY <1>1, <1>2 DEF SenderType
<1>7. InHand' = {} /\ Waiting' = Waiting /\ (Undisturbed' <=> Undisturbed)
  BY <1>2, <1>6 DEF InHand, ToSet, Waiting, FramesOf, Undisturbed
<1>8. FlowInOrder'
  <2>1. Ascends(<<>>)
    BY EmptyHands
  <2>2. FramesSent' \cup InHand' \cup Waiting' = FramesSent \cup InHand \cup Waiting
    BY <1>4, <1>5, <1>7
  <2>3. Below(FramesSent', Waiting')
    BY <1>1, <1>4, <1>5, <1>7 DEF FlowInOrder, Below
  <2> QED BY <1>1, <1>2, <1>6, <1>7, <2>1, <2>2, <2>3 DEF FlowInOrder, Below, Ascends
<1>9. seqNo' \in Nat
  <2>1. seqNo \in Nat
    BY <1>1 DEF SttSocketsTypeOK
  <2> QED BY <1>2, <2>1
<1>a. Len(<<>>) = 0 /\ FramesPerChunk \in Nat \ {0}
  BY SttBounds
<1>b. SttSocketsTypeOK'
  BY <1>1, <1>2, <1>5, <1>6, <1>9, <1>a DEF SttSocketsTypeOK, SenderType, ItemType
<1>c. SenderShape' /\ Disturbances'
  BY <1>1, <1>2, <1>5, <1>6, <1>7 DEF SenderShape, Disturbances
<1> QED BY <1>5, <1>8, <1>b, <1>c DEF AudioInv

LEMMA SenderEndsKeeps ==
    ASSUME SttSocketsAssumption, AudioInv, SenderEnds
    PROVE  AudioInv'
<1>1. /\ run = "open" /\ sender.state = "reads" /\ sender.out = <<>> /\ mic.queue = <<>> /\ mic.closed
      /\ sender' = [sender EXCEPT !.state = "done"] /\ sender \in SenderType
      /\ closingWs' \in BOOLEAN
      /\ UNCHANGED <<dialect, mic, run, runs, updates, recvDone, reconnect, started, stopped, thief, isSpeaking,
                   seqNo, wires, heardEvents>>
  BY DEF SenderEnds, AudioInv, SttSocketsTypeOK, SenderType
<1>2. told' \in [begun : BOOLEAN, last : {"no", "closes"}]
  BY DEF SenderEnds, AudioInv, SttSocketsTypeOK
<1>3. /\ sender' \in SenderType /\ sender'.buffer = sender.buffer /\ sender'.out = sender.out
      /\ sender'.state = "done"
  BY <1>1 DEF SenderType
<1>4. /\ FramesSent' = FramesSent /\ InHand' = InHand /\ Waiting' = Waiting /\ (Undisturbed' <=> Undisturbed)
      /\ WiresInOrder'
  BY <1>1, <1>3, WiresRest DEF AudioInv, FramesSent, InHand, Waiting, FramesOf, Undisturbed
<1>5. FlowInOrder'
  BY <1>1, <1>3, <1>4 DEF AudioInv, FlowInOrder, Below, Ascends
<1>6. SttSocketsTypeOK'
  BY <1>1, <1>2, <1>3 DEF AudioInv, SttSocketsTypeOK, SenderType
<1>7. SenderShape' /\ Disturbances'
  BY <1>1, <1>3, <1>4 DEF AudioInv, SenderShape, Disturbances
<1> QED BY <1>4, <1>5, <1>6, <1>7 DEF AudioInv

LEMMA ThiefTakesKeeps ==
    ASSUME SttSocketsAssumption, AudioInv, ThiefTakes
    PROVE  AudioInv'
<1>0. MaxUnitsPushed \in Nat
  BY SttBounds
<1>1. /\ SttSocketsTypeOK /\ SenderShape /\ Disturbances /\ FlowInOrder /\ WiresInOrder
      /\ mic \in [queue : Seq(ItemType), pushed : ItemType, marks : 0..MaxMarks, closed : BOOLEAN]
      /\ mic.queue \in Seq(ItemType) /\ mic.queue # <<>> /\ ~Undisturbed /\ thief' = FALSE
  BY DEF AudioInv, SttSocketsTypeOK, ItemType, ThiefTakes, Disturbances
<1> DEFINE q == mic.queue
<1>2. /\ Tail(q) \in Seq(ItemType) /\ Ascends(Tail(q))
      /\ FramesOf(q) = FramesOf(Tail(q)) \cup ({Head(q)} \cap Frames)
  BY <1>0, <1>1, AscendsTail DEF FlowInOrder
<1>4. /\ mic' = [mic EXCEPT !.queue = Tail(@)]
      /\ UNCHANGED <<dialect, run, runs, updates, sender, recvDone, closingWs, reconnect, started, stopped,
                   isSpeaking, seqNo, wires, told, heardEvents>>
  BY DEF ThiefTakes
<1>5. /\ mic' \in [queue : Seq(ItemType), pushed : ItemType, marks : 0..MaxMarks, closed : BOOLEAN]
      /\ mic'.queue = Tail(q) /\ mic'.pushed = mic.pushed /\ mic'.closed = mic.closed
  BY <1>1, <1>2, <1>4
<1>6. FramesSent' = FramesSent /\ InHand' = InHand /\ ~Undisturbed' /\ WiresInOrder'
  BY <1>1, <1>4, WiresRest DEF FramesSent, InHand, Undisturbed
<1>7. Waiting' \subseteq Waiting
  BY <1>2, <1>5 DEF Waiting, FramesOf
<1>8. FlowInOrder'
  <2>1. Below(FramesSent, Waiting') /\ Below(InHand, Waiting')
    BY <1>1, <1>7 DEF FlowInOrder, Below
  <2> QED BY <1>1, <1>2, <1>4, <1>5, <1>6, <1>7, <2>1 DEF FlowInOrder, Below, Ascends
<1>9. SttSocketsTypeOK'
  BY <1>1, <1>4, <1>5 DEF SttSocketsTypeOK, ItemType
<1>a. mic.closed => (Tail(q) # <<>> => Last(Tail(q)) = 0)
  BY <1>1, LastOfTail DEF SenderShape
<1>b. sender.state # "done"
  BY <1>1 DEF SenderShape
<1>c. SenderShape' /\ Disturbances'
  BY <1>1, <1>4, <1>5, <1>6, <1>a, <1>b DEF SenderShape, Disturbances, Last
<1> QED BY <1>6, <1>8, <1>9, <1>c DEF AudioInv

----------------------------------------------------------------------------
(* What the server says *)

LEMMA ShortAppends ==
    ASSUME NEW S, NEW a \in S, NEW b \in S
    PROVE  Append(<<>>, a) = <<a>> /\ Append(<<a>>, b) = <<a, b>>
<1>1. /\ <<>> \in Seq(S) /\ <<a>> \in Seq(S) /\ <<a, b>> \in Seq(S)
      /\ Len(<<>>) = 0 /\ Len(<<a>>) = 1 /\ <<a>>[1] = a
      /\ Len(<<a, b>>) = 2 /\ <<a, b>>[1] = a /\ <<a, b>>[2] = b
  OBVIOUS
<1>2. Append(<<>>, a) = <<a>>
  <2> DEFINE t == Append(<<>>, a)
  <2>1. t \in Seq(S) /\ Len(t) = 1 /\ t[1] = a
    BY <1>1, AppendProperties
  <2> HIDE DEF t
  <2>2. t = <<a>>
    BY <1>1, <2>1, SeqEqual
  <2> QED BY <2>2 DEF t
<1>3. Append(<<a>>, b) = <<a, b>>
  <2> DEFINE t == Append(<<a>>, b)
  <2>1. t \in Seq(S) /\ Len(t) = 2 /\ t[1] = a /\ t[2] = b
    BY <1>1, AppendProperties
  <2> HIDE DEF t
  <2>2. t = <<a, b>>
    BY <1>1, <2>1, SeqEqual
  <2> QED BY <2>2 DEF t
<1> QED BY <1>2, <1>3

\* What is heard of a message are events.
LEMMA SaidType ==
    ASSUME SttSocketsAssumption, SttSocketsTypeOK, NEW what \in SpeechEvents \cup {"begun"}, NEW tooOld \in BOOLEAN,
           ServerSays(what, tooOld)
    PROVE  \E events \in Seq(SpeechEvents), speaking \in BOOLEAN :
              /\ heardEvents' = heardEvents \o events /\ isSpeaking' = speaking
              /\ dialect = "deepgram" => Heard(events, speaking) = DeepgramHears(what)
              /\ dialect = "azure" => Heard(events, speaking) = AzureHears(what)
<1>1. /\ isSpeaking \in BOOLEAN /\ what \in {"start", "interim", "final", "end", "begun"}
      /\ dialect \in {"deepgram", "assemblyai", "speechmatics", "openai", "azure", "google", "aws"}
  BY DEF SttSocketsTypeOK, SttSocketsAssumption, SpeechEvents
<1>2. /\ <<>> \in Seq(SpeechEvents) /\ <<"start">> \in Seq(SpeechEvents) /\ <<"end">> \in Seq(SpeechEvents)
      /\ <<"interim">> \in Seq(SpeechEvents) /\ <<"final">> \in Seq(SpeechEvents)
      /\ <<"final", "end">> \in Seq(SpeechEvents)
      /\ Append(<<>>, what) = <<what>> /\ Append(<<"start">>, what) = <<"start", what>>
      /\ (what \in SpeechEvents => <<what>> \in Seq(SpeechEvents) /\ <<"start", what>> \in Seq(SpeechEvents))
  <2>1. /\ <<>> \in Seq(SpeechEvents) /\ <<"start">> \in Seq(SpeechEvents) /\ <<"end">> \in Seq(SpeechEvents)
        /\ <<"interim">> \in Seq(SpeechEvents) /\ <<"final">> \in Seq(SpeechEvents)
        /\ <<"final", "end">> \in Seq(SpeechEvents)
    BY DEF SpeechEvents
  <2>2. Append(<<>>, what) = <<what>> /\ Append(<<"start">>, what) = <<"start", what>>
    <3>1. \A a, b \in SpeechEvents \cup {"begun"} : Append(<<>>, a) = <<a>> /\ Append(<<a>>, b) = <<a, b>>
      BY ShortAppends
    <3>2. "start" \in SpeechEvents \cup {"begun"}
      BY DEF SpeechEvents
    <3> QED BY <3>1, <3>2
  <2>3. what \in SpeechEvents => <<what>> \in Seq(SpeechEvents) /\ <<"start", what>> \in Seq(SpeechEvents)
    BY DEF SpeechEvents
  <2> QED BY <2>1, <2>2, <2>3
<1> DEFINE HeardType == [events : Seq(SpeechEvents), speaking : BOOLEAN]
<1> USE DEF Heard
<1>3. DeepgramHears(what) \in HeardType
  <2>1. CASE isSpeaking
    BY <1>1, <1>2, <2>1 DEF DeepgramHears, SpeechEvents
  <2>2. CASE ~isSpeaking
    BY <1>1, <1>2, <2>2 DEF DeepgramHears, SpeechEvents
  <2> QED BY <2>1, <2>2
<1>4. AssemblyAIHears(what) \in HeardType
  BY <1>1, <1>2 DEF AssemblyAIHears
<1>5. SpeechmaticsHears(what) \in HeardType /\ OpenAIHears(what) \in HeardType
  BY <1>1, <1>2 DEF SpeechmaticsHears, OpenAIHears
<1>6. AzureHears(what) \in HeardType
  BY <1>1, <1>2 DEF AzureHears
<1>7. GoogleHears(what, tooOld) \in HeardType
  BY <1>1, <1>2 DEF GoogleHears
<1>8. AwsHears(what) \in HeardType
  BY <1>1, <1>2 DEF AwsHears
<1> DEFINE said == CASE dialect = "deepgram" -> DeepgramHears(what)
                     [] dialect = "assemblyai" -> AssemblyAIHears(what)
                     [] dialect = "speechmatics" -> SpeechmaticsHears(what)
                     [] dialect = "azure" -> AzureHears(what)
                     [] dialect = "google" -> GoogleHears(what, tooOld)
                     [] dialect = "openai" -> OpenAIHears(what)
                     [] dialect = "aws" -> AwsHears(what)
<1>9. heardEvents' = heardEvents \o said.events /\ isSpeaking' = said.speaking
  BY DEF ServerSays
<1> HIDE DEF Heard, HeardType
<1>a. said \in HeardType /\ (dialect = "deepgram" => said = DeepgramHears(what))
      /\ (dialect = "azure" => said = AzureHears(what))
  BY <1>1, <1>3, <1>4, <1>5, <1>6, <1>7, <1>8
<1> HIDE DEF said
<1>b. said.events \in Seq(SpeechEvents) /\ said.speaking \in BOOLEAN
      /\ said = Heard(said.events, said.speaking)
  BY <1>a DEF HeardType, Heard
<1> QED BY <1>9, <1>a, <1>b

LEMMA ServerSaysKeeps ==
    ASSUME SttSocketsAssumption, AudioInv, NEW what \in SpeechEvents \cup {"begun"}, NEW tooOld \in BOOLEAN,
           ServerSays(what, tooOld)
    PROVE  AudioInv'
<1>1. /\ recvDone' = tooOld /\ reconnect' = (reconnect \/ tooOld) /\ updates' = (IF tooOld THEN updates + 1 ELSE updates)
      /\ started' \in BOOLEAN /\ told' = [told EXCEPT !.begun = TRUE] /\ (tooOld => MayGoOn)
      /\ UNCHANGED <<dialect, mic, run, runs, sender, closingWs, stopped, thief, seqNo, wires>>
  BY DEF ServerSays
<1>2. /\ updates \in Nat /\ runs \in Nat \ {0} /\ runs + updates <= MaxAnew + 1 /\ MaxAnew \in Nat
      /\ heardEvents \in Seq(SpeechEvents) /\ told \in [begun : BOOLEAN, last : {"no", "closes"}]
  BY SttBounds DEF AudioInv, SttSocketsTypeOK
<1>3. /\ updates' \in Nat /\ runs + updates' <= MaxAnew + 1 /\ (tooOld => updates' # 0) /\ (updates # 0 => updates' # 0)
  BY <1>1, <1>2 DEF MayGoOn
<1>4. heardEvents' \in Seq(SpeechEvents) /\ isSpeaking' \in BOOLEAN
  <2> PICK events \in Seq(SpeechEvents), speaking \in BOOLEAN :
          heardEvents' = heardEvents \o events /\ isSpeaking' = speaking
    BY SaidType DEF AudioInv
  <2>1. heardEvents \o events \in Seq(SpeechEvents)
    BY <1>2, ConcatProperties
  <2> QED BY <2>1
<1>5. told' \in [begun : BOOLEAN, last : {"no", "closes"}]
  BY <1>1, <1>2
<1>6. SttSocketsTypeOK'
  BY <1>1, <1>3, <1>4, <1>5 DEF AudioInv, SttSocketsTypeOK
<1>7. Undisturbed' => Undisturbed
  BY <1>1, <1>3 DEF Undisturbed
<1>8. FlowInOrder' /\ WiresInOrder'
  BY <1>1, <1>7, AudioRests DEF AudioInv
<1>9. SenderShape'
  BY <1>1 DEF AudioInv, SenderShape, Last
<1>a. Disturbances'
  BY <1>1, <1>3, <1>7 DEF AudioInv, Disturbances
<1> QED BY <1>6, <1>8, <1>9, <1>a DEF AudioInv

LEMMA ServerClosesKeeps ==
    ASSUME SttSocketsAssumption, AudioInv, ServerCloses
    PROVE  AudioInv'
<1>1. UNCHANGED <<dialect, mic, updates, reconnect, started, stopped, isSpeaking, seqNo, wires, told, heardEvents>>
  BY DEF ServerCloses
<1>2. CASE RunFails
  BY <1>1, <1>2, RunFailsKeeps
<1>3. CASE recvDone' = TRUE /\ UNCHANGED <<run, runs, sender, closingWs, thief>>
  <2>1. SttSocketsTypeOK'
    BY <1>1, <1>3 DEF AudioInv, SttSocketsTypeOK
  <2>2. Undisturbed' <=> Undisturbed
    BY <1>1, <1>3 DEF Undisturbed
  <2>3. FlowInOrder' /\ WiresInOrder'
    BY <1>1, <1>3, <2>2, AudioRests DEF AudioInv
  <2>4. SenderShape' /\ Disturbances'
    BY <1>1, <1>3, <2>2 DEF AudioInv, SenderShape, Disturbances, Last
  <2> QED BY <2>1, <2>3, <2>4 DEF AudioInv
<1> QED BY <1>2, <1>3 DEF ServerCloses

LEMMA AudioStep ==
    ASSUME SttSocketsAssumption, AudioInv, [SttSocketsNext]_sttSockVars
    PROVE  AudioInv'
<1>1. CASE UNCHANGED sttSockVars
  <2>1. SttSocketsTypeOK'
    BY <1>1 DEF AudioInv, SttSocketsTypeOK, sttSockVars
  <2>2. Undisturbed' <=> Undisturbed
    BY <1>1 DEF Undisturbed, sttSockVars
  <2>3. FlowInOrder' /\ WiresInOrder'
    BY <1>1, <2>2, AudioRests DEF AudioInv, sttSockVars
  <2>4. SenderShape' /\ Disturbances'
    BY <1>1, <2>2 DEF AudioInv, SenderShape, Disturbances, sttSockVars, Last
  <2> QED BY <2>1, <2>3, <2>4 DEF AudioInv
<1>2. CASE ServerFails
  BY <1>2, RunFailsKeeps DEF ServerFails
<1>3. ASSUME NEW what \in SpeechEvents \cup {"begun"}, NEW tooOld \in BOOLEAN, ServerSays(what, tooOld) PROVE AudioInv'
  BY <1>3, ServerSaysKeeps
<1>4. CASE Pushes \/ UpdateOptions \/ Connects \/ ConnectAgain \/ SessionStopped \/ RunReturns
  BY <1>4, PushesKeeps, UpdateOptionsKeeps, ConnectsKeeps, ConnectAgainKeeps, SessionStoppedKeeps, RunReturnsKeeps
<1>5. CASE SenderStarts \/ SenderReads \/ SenderSends \/ SenderEnds \/ ThiefTakes \/ ServerCloses
  BY <1>5, SenderStartsKeeps, SenderReadsKeeps, SenderSendsKeeps, SenderEndsKeeps, ThiefTakesKeeps, ServerClosesKeeps
<1> QED BY <1>1, <1>2, <1>3, <1>4, <1>5 DEF SttSocketsNext

LEMMA AudioInit ==
    ASSUME SttSocketsAssumption, SttSocketsInit
    PROVE  AudioInv
<1>1. /\ MaxUnitsPushed \in Nat /\ MaxMarks \in Nat /\ MaxAnew \in Nat
      /\ NoSender \in SenderType /\ Len(NoSender.buffer) < FramesPerChunk /\ Len(NoSender.out) <= FramesPerChunk
      /\ NoSender.state = "none" /\ NoSender.buffer = <<>> /\ NoSender.out = <<>>
  BY SttBounds
<1>2. /\ mic \in [queue : Seq(0..MaxUnitsPushed), pushed : 0..MaxUnitsPushed, marks : 0..MaxMarks, closed : BOOLEAN]
      /\ mic.queue = <<>> /\ mic.pushed = 0 /\ ~mic.closed
  BY <1>1 DEF SttSocketsInit
<1>3. <<>> \in Seq(Seq(Seq(0..MaxUnitsPushed))) /\ <<>> \in Seq(SpeechEvents) /\ Len(<<>>) = 0 /\ DOMAIN <<>> = {}
  OBVIOUS
<1>4. told \in [begun : BOOLEAN, last : {"no", "closes"}]
  BY DEF SttSocketsInit
<1>5. SttSocketsTypeOK
  <2>1. /\ dialect \in Dialects /\ run \in {"connecting", "open", "stopping", "over", "failed"}
        /\ {recvDone, closingWs, reconnect, started, stopped, thief, isSpeaking} \subseteq BOOLEAN
    BY DEF SttSocketsInit
  <2>2. runs \in Nat \ {0} /\ updates \in Nat /\ runs + updates <= MaxAnew + 1 /\ seqNo \in Nat
    BY <1>1 DEF SttSocketsInit
  <2>3. /\ sender = NoSender /\ wires \in Seq(Seq(Seq(0..MaxUnitsPushed))) /\ heardEvents \in Seq(SpeechEvents)
    BY <1>3 DEF SttSocketsInit
  <2> QED BY <1>1, <1>2, <1>4, <2>1, <2>2, <2>3 DEF SttSocketsTypeOK, SenderType
<1>6. SenderShape /\ Disturbances
  BY <1>1, <1>2 DEF SttSocketsInit, SenderShape, Disturbances
<1>7. WiresInOrder /\ FramesSent = {}
  BY <1>3 DEF SttSocketsInit, WiresInOrder, FramesSent
<1>8. InHand = {} /\ Waiting = {} /\ Ascends(<<>>)
  BY <1>1, <1>2, EmptyHands DEF SttSocketsInit, Waiting, FramesOf
<1>9. 1..mic.pushed = {}
  BY <1>2
<1>a. FlowInOrder
  BY <1>1, <1>2, <1>7, <1>8, <1>9 DEF SttSocketsInit, FlowInOrder, Below
<1> QED BY <1>5, <1>6, <1>7, <1>a DEF AudioInv

\* The invariant implies that the audio is in order, and whole.
LEMMA AudioIsInOrder ==
    ASSUME AudioInv
    PROVE  AudioInOrder
<1>1. DOMAIN wires = 1..Len(wires) /\ \A c \in 1..Len(wires) : DOMAIN wires[c] = 1..Len(wires[c])
  BY WireType DEF AudioInv
<1>2. ASSUME sender.state = "done", updates = 0, runs = 1 PROVE FramesSent = 1..mic.pushed
  <2>1. Undisturbed /\ mic.closed /\ mic.queue = <<>> /\ sender.out = <<>>
    BY <1>2 DEF AudioInv, SenderShape, Undisturbed
  <2>2. sender.buffer = <<>>
    BY <2>1 DEF AudioInv, Disturbances
  <2>3. InHand = {} /\ Waiting = {}
    BY <2>1, <2>2, EmptyHands DEF Waiting, FramesOf
  <2> QED BY <2>1, <2>3 DEF AudioInv, FlowInOrder
<1> QED BY <1>1, <1>2 DEF AudioInv, WiresInOrder, AudioInOrder

----------------------------------------------------------------------------
(* The events *)

LEMMA InSpeechAppend ==
    ASSUME NEW s \in Seq(SpeechEvents), NEW e \in SpeechEvents
    PROVE  /\ Append(s, e) \in Seq(SpeechEvents) /\ Len(Append(s, e)) = Len(s) + 1 /\ Len(s) \in Nat
           /\ \A k \in 0..Len(s) : InSpeech(Append(s, e), k) <=> InSpeech(s, k)
           /\ InSpeech(Append(s, e), Len(s) + 1) <=> (e = "start" \/ (e # "end" /\ InSpeech(s, Len(s))))
<1> PICK n \in Nat : n = Len(s)
  BY LenProperties
<1> DEFINE t == Append(s, e)
<1>1. /\ t \in Seq(SpeechEvents) /\ Len(t) = n + 1
      /\ \A i \in 1..n : t[i] = s[i]
      /\ t[n + 1] = e
  BY AppendProperties
<1> HIDE DEF t
<1>2. ASSUME NEW k \in 0..n PROVE InSpeech(t, k) <=> InSpeech(s, k)
  <2>1. \A i \in 1..k : t[i] = s[i]
    BY <1>1
  <2>2. \A j \in 1..k : \A i \in j..k : i \in 1..k
    OBVIOUS
  <2> QED BY <2>1, <2>2 DEF InSpeech
<1>3. ASSUME e = "start" PROVE InSpeech(t, n + 1)
  <2>1. n + 1 \in 1..n + 1 /\ \A i \in (n + 1)..(n + 1) : i = n + 1
    OBVIOUS
  <2>2. "start" # "end"
    OBVIOUS
  <2> QED BY <1>1, <1>3, <2>1, <2>2 DEF InSpeech
<1>4. ASSUME e = "end" PROVE ~InSpeech(t, n + 1)
  <2>1. \A j \in 1..n + 1 : n + 1 \in j..n + 1
    OBVIOUS
  <2> QED BY <1>1, <1>4, <2>1 DEF InSpeech
<1>5. ASSUME e # "end", InSpeech(s, n) PROVE InSpeech(t, n + 1)
  <2> PICK j \in 1..n : s[j] = "start" /\ \A i \in j..n : s[i] # "end"
    BY <1>5 DEF InSpeech
  <2>1. ASSUME NEW i \in j..n + 1 PROVE t[i] # "end"
    <3>1. i = n + 1 \/ (i \in j..n /\ i \in 1..n)
      OBVIOUS
    <3> QED BY <1>1, <1>5, <3>1
  <2>2. j \in 1..n + 1 /\ t[j] = "start"
    BY <1>1
  <2> QED BY <2>1, <2>2 DEF InSpeech
<1>6. ASSUME e # "start", InSpeech(t, n + 1) PROVE InSpeech(s, n)
  <2> PICK j \in 1..n + 1 : t[j] = "start" /\ \A i \in j..n + 1 : t[i] # "end"
    BY <1>6 DEF InSpeech
  <2>1. j \in 1..n
    <3>1. j # n + 1
      BY <1>1, <1>6
    <3> QED BY <3>1
  <2>2. \A i \in j..n : i \in j..n + 1 /\ i \in 1..n
    BY <2>1
  <2> QED BY <1>1, <2>1, <2>2 DEF InSpeech
<1>7. InSpeech(t, n + 1) <=> (e = "start" \/ (e # "end" /\ InSpeech(s, n)))
  BY <1>3, <1>4, <1>5, <1>6
<1> QED BY <1>1, <1>2, <1>7 DEF t

LEMMA AlternatesAppend ==
    ASSUME NEW s \in Seq(SpeechEvents), NEW e \in SpeechEvents, NEW within, Alternates(s, within),
           e = "start" => ~InSpeech(s, Len(s)),
           e \in {"end"} \cup within => InSpeech(s, Len(s))
    PROVE  Alternates(Append(s, e), within)
<1> PICK n \in Nat : n = Len(s)
  BY LenProperties
<1> DEFINE t == Append(s, e)
<1>1. /\ t \in Seq(SpeechEvents) /\ Len(t) = n + 1 /\ DOMAIN t = 1..n + 1 /\ DOMAIN s = 1..n
      /\ \A i \in 1..n : t[i] = s[i]
      /\ t[n + 1] = e
  BY AppendProperties, LenProperties
<1>2. \A k \in 0..n : InSpeech(t, k) <=> InSpeech(s, k)
  BY InSpeechAppend
<1> HIDE DEF t
<1>3. ASSUME NEW k \in 1..n + 1
      PROVE  /\ t[k] = "start" => ~InSpeech(t, k - 1)
             /\ t[k] \in {"end"} \cup within => InSpeech(t, k - 1)
  <2>1. k - 1 \in 0..n /\ (InSpeech(t, k - 1) <=> InSpeech(s, k - 1))
    BY <1>2
  <2>2. CASE k = n + 1
    <3>1. k - 1 = n /\ t[k] = e
      BY <1>1, <2>2
    <3> QED BY <2>1, <3>1
  <2>3. CASE k # n + 1
    <3>1. k \in 1..n
      BY <2>3
    <3> QED BY <1>1, <2>1, <3>1 DEF Alternates
  <2> QED BY <2>2, <2>3
<1>4. Alternates(t, within)
  BY <1>1, <1>3 DEF Alternates
<1> QED BY <1>4 DEF t

\* The inductive invariant of the events.
HearingInv == HearsInTurn /\ SpeechesAlternate

\* One event is heard: what is then said to be spoken is.
LEMMA HearsOne ==
    ASSUME NEW s \in Seq(SpeechEvents), NEW e \in SpeechEvents, NEW speaking \in BOOLEAN, NEW within,
           "start" \notin within,
           Alternates(s, within), speaking <=> InSpeech(s, Len(s)),
           e = "start" => ~speaking,
           e \in {"end"} \cup within => speaking
    PROVE  /\ Append(s, e) \in Seq(SpeechEvents) /\ Alternates(Append(s, e), within)
           /\ InSpeech(Append(s, e), Len(Append(s, e))) <=> (e = "start" \/ (e # "end" /\ speaking))
<1>1. /\ Append(s, e) \in Seq(SpeechEvents) /\ Len(Append(s, e)) = Len(s) + 1
      /\ InSpeech(Append(s, e), Len(s) + 1) <=> (e = "start" \/ (e # "end" /\ InSpeech(s, Len(s))))
  BY InSpeechAppend
<1>2. Alternates(Append(s, e), within)
  BY AlternatesAppend
<1> QED BY <1>1, <1>2

\* What a message of deepgram or of azure causes, in a stream that is speaking or not: nothing, a start, an
\* end, a transcript, or a start and a transcript.
Turn(events, within) ==
    \/ events = <<>> /\ (isSpeaking' <=> isSpeaking)
    \/ events = <<"start">> /\ ~isSpeaking /\ isSpeaking'
    \/ events = <<"end">> /\ isSpeaking /\ ~isSpeaking'
    \/ \E e \in {"interim", "final"} : events = <<e>> /\ (isSpeaking' <=> isSpeaking) /\ (within # {} => isSpeaking)
    \/ \E e \in {"interim", "final"} : events = Append(<<"start">>, e) /\ ~isSpeaking /\ isSpeaking'

LEMMA TurnIsHeard ==
    ASSUME heardEvents \in Seq(SpeechEvents), isSpeaking \in BOOLEAN, isSpeaking' \in BOOLEAN,
           NEW events, NEW within \in {{}, {"interim", "final"}}, heardEvents' = heardEvents \o events,
           Alternates(heardEvents, within), isSpeaking <=> InSpeech(heardEvents, Len(heardEvents)),
           Turn(events, within)
    PROVE  /\ Alternates(heardEvents', within)
           /\ isSpeaking' <=> InSpeech(heardEvents', Len(heardEvents'))
<1>0. PICK s \in Seq(SpeechEvents), speaking \in BOOLEAN, after \in BOOLEAN :
         s = heardEvents /\ speaking = isSpeaking /\ after = isSpeaking'
  OBVIOUS
<1>b. Alternates(s, within) /\ (speaking <=> InSpeech(s, Len(s)))
  BY <1>0
<1> SUFFICES /\ Alternates(s \o events, within)
             /\ after <=> InSpeech(s \o events, Len(s \o events))
  BY <1>0
<1>1. "start" \notin within /\ "end" \notin within /\ (within = {} \/ within = {"interim", "final"})
  OBVIOUS
<1>2. "start" \in SpeechEvents /\ "end" \in SpeechEvents /\ "interim" \in SpeechEvents /\ "final" \in SpeechEvents
  BY DEF SpeechEvents
<1>3. CASE events = <<>> /\ (after <=> speaking)
  <2>1. s \o <<>> = s
    BY ConcatEmptySeq
  <2> QED BY <1>3, <1>b, <2>1
<1>4. \A e \in SpeechEvents : s \o <<e>> = Append(s, e)
  BY AppendIsConcat
<1>5. \A e \in SpeechEvents :
         (e = "start" => ~speaking) /\ (e \in {"end"} \cup within => speaking) =>
            /\ Append(s, e) \in Seq(SpeechEvents) /\ Alternates(Append(s, e), within)
            /\ (InSpeech(Append(s, e), Len(Append(s, e))) <=> (e = "start" \/ (e # "end" /\ speaking)))
  BY <1>1, <1>b, HearsOne
<1>6. CASE events = <<"start">> /\ ~speaking /\ after
  BY <1>1, <1>2, <1>4, <1>5, <1>6
<1>7. CASE events = <<"end">> /\ speaking /\ ~after
  BY <1>2, <1>4, <1>5, <1>7
<1>8. ASSUME NEW e \in {"interim", "final"}, events = <<e>>, after <=> speaking, within # {} => speaking
      PROVE  /\ Alternates(s \o events, within)
             /\ after <=> InSpeech(s \o events, Len(s \o events))
  <2>1. e # "start" /\ e # "end" /\ e \in SpeechEvents /\ (e \in {"end"} \cup within => speaking)
    BY <1>1, <1>2, <1>8
  <2>2. s \o events = Append(s, e)
    BY <1>4, <1>8, <2>1
  <2> QED BY <1>5, <1>8, <2>1, <2>2
<1>9. ASSUME NEW e \in {"interim", "final"}, events = Append(<<"start">>, e), ~speaking, after
      PROVE  /\ Alternates(s \o events, within)
             /\ after <=> InSpeech(s \o events, Len(s \o events))
  <2> DEFINE t == Append(s, "start")
  <2>1. t \in Seq(SpeechEvents) /\ Alternates(t, within) /\ InSpeech(t, Len(t))
    BY <1>1, <1>2, <1>5, <1>9
  <2>2. s \o events = Append(t, e)
    <3>1. <<"start">> \in Seq(SpeechEvents) /\ e \in SpeechEvents
      BY <1>2
    <3>2. s \o Append(<<"start">>, e) = Append(s \o <<"start">>, e)
      BY <3>1, AppendConcat
    <3> QED BY <1>2, <1>4, <1>9, <3>2
  <2> HIDE DEF t
  <2>3. e # "start" /\ e # "end" /\ e \in SpeechEvents
    BY <1>2
  <2>4. Alternates(Append(t, e), within)
        /\ (InSpeech(Append(t, e), Len(Append(t, e))) <=> (e = "start" \/ (e # "end" /\ TRUE)))
    <3>1. PICK in \in BOOLEAN : in = TRUE
      OBVIOUS
    <3>2. (in <=> InSpeech(t, Len(t))) /\ (e = "start" => ~in) /\ (e \in {"end"} \cup within => in)
      BY <2>1, <2>3, <3>1
    <3>3. /\ Alternates(Append(t, e), within)
          /\ InSpeech(Append(t, e), Len(Append(t, e))) <=> (e = "start" \/ (e # "end" /\ in))
      BY <1>1, <2>1, <2>3, <3>2, HearsOne
    <3> QED BY <3>1, <3>3
  <2> QED BY <1>9, <2>2, <2>3, <2>4
<1> QED BY <1>0, <1>3, <1>6, <1>7, <1>8, <1>9 DEF Turn

\* What deepgram and azure make of a message is a turn.
LEMMA DeepgramTurns ==
    ASSUME NEW what \in SpeechEvents \cup {"begun"}, NEW events, isSpeaking' \in BOOLEAN, isSpeaking \in BOOLEAN,
           Heard(events, isSpeaking') = DeepgramHears(what)
    PROVE  Turn(events, {"interim", "final"})
<1>1. what \in {"start", "end", "interim", "final", "begun"}
  BY DEF SpeechEvents
<1>2. CASE what = "start" /\ ~isSpeaking
  <2>1. Heard(events, isSpeaking') = Heard(<<"start">>, TRUE)
    BY <1>2 DEF DeepgramHears
  <2>2. events = <<"start">> /\ isSpeaking' = TRUE
    BY <2>1 DEF Heard
  <2> QED BY <1>2, <2>2 DEF Turn
<1>3. CASE what = "end" /\ isSpeaking
  <2>1. Heard(events, isSpeaking') = Heard(<<"end">>, FALSE)
    BY <1>3 DEF DeepgramHears
  <2>2. events = <<"end">> /\ isSpeaking' = FALSE
    BY <2>1 DEF Heard
  <2> QED BY <1>3, <2>2 DEF Turn
<1>4. CASE what = "start" /\ isSpeaking
  <2>1. Heard(events, isSpeaking') = Heard(<<>>, TRUE)
    BY <1>4 DEF DeepgramHears
  <2>2. events = <<>> /\ isSpeaking' = TRUE
    BY <2>1 DEF Heard
  <2> QED BY <1>4, <2>2 DEF Turn
<1>5. CASE what = "end" /\ ~isSpeaking
  <2>1. Heard(events, isSpeaking') = Heard(<<>>, FALSE)
    BY <1>5 DEF DeepgramHears
  <2>2. events = <<>> /\ isSpeaking' = FALSE
    BY <2>1 DEF Heard
  <2> QED BY <1>5, <2>2 DEF Turn
<1>6. CASE what = "begun"
  <2>1. Heard(events, isSpeaking') = Heard(<<>>, isSpeaking)
    BY <1>6 DEF DeepgramHears
  <2>2. events = <<>> /\ isSpeaking' = isSpeaking
    BY <2>1 DEF Heard
  <2> QED BY <2>2 DEF Turn
<1>7. CASE what \in {"interim", "final"} /\ ~isSpeaking
  <2>1. what \notin {"start", "end", "begun"}
    BY <1>7
  <2>2. Heard(events, isSpeaking') = Heard(Append(<<"start">>, what), TRUE)
    BY <1>7, <2>1 DEF DeepgramHears
  <2>3. events = Append(<<"start">>, what) /\ isSpeaking' = TRUE
    BY <2>2 DEF Heard
  <2> QED BY <1>7, <2>3 DEF Turn
<1>8. CASE what \in {"interim", "final"} /\ isSpeaking
  <2>1. what \notin {"start", "end", "begun"}
    BY <1>8
  <2>2. Heard(events, isSpeaking') = Heard(Append(<<>>, what), TRUE)
    BY <1>8, <2>1 DEF DeepgramHears
  <2>3. events = Append(<<>>, what) /\ isSpeaking' = TRUE
    BY <2>2 DEF Heard
  <2>4. Append(<<>>, what) = <<what>>
    BY ShortAppends
  <2> QED BY <1>8, <2>3, <2>4 DEF Turn
<1> QED BY <1>1, <1>2, <1>3, <1>4, <1>5, <1>6, <1>7, <1>8

LEMMA AzureTurns ==
    ASSUME NEW what \in SpeechEvents \cup {"begun"}, NEW events, isSpeaking' \in BOOLEAN, isSpeaking \in BOOLEAN,
           Heard(events, isSpeaking') = AzureHears(what)
    PROVE  Turn(events, {})
<1>1. what \in {"start", "end", "interim", "final", "begun"}
  BY DEF SpeechEvents
<1>2. CASE what = "start" /\ ~isSpeaking
  <2>1. Heard(events, isSpeaking') = Heard(<<"start">>, TRUE)
    BY <1>2 DEF AzureHears
  <2>2. events = <<"start">> /\ isSpeaking' = TRUE
    BY <2>1 DEF Heard
  <2> QED BY <1>2, <2>2 DEF Turn
<1>3. CASE what = "end" /\ isSpeaking
  <2>1. Heard(events, isSpeaking') = Heard(<<"end">>, FALSE)
    BY <1>3 DEF AzureHears
  <2>2. events = <<"end">> /\ isSpeaking' = FALSE
    BY <2>1 DEF Heard
  <2> QED BY <1>3, <2>2 DEF Turn
<1>4. CASE what = "start" /\ isSpeaking
  <2>1. Heard(events, isSpeaking') = Heard(<<>>, TRUE)
    BY <1>4 DEF AzureHears
  <2>2. events = <<>> /\ isSpeaking' = TRUE
    BY <2>1 DEF Heard
  <2> QED BY <1>4, <2>2 DEF Turn
<1>5. CASE what = "end" /\ ~isSpeaking
  <2>1. Heard(events, isSpeaking') = Heard(<<>>, FALSE)
    BY <1>5 DEF AzureHears
  <2>2. events = <<>> /\ isSpeaking' = FALSE
    BY <2>1 DEF Heard
  <2> QED BY <1>5, <2>2 DEF Turn
<1>6. CASE what = "begun"
  <2>1. Heard(events, isSpeaking') = Heard(<<>>, isSpeaking)
    BY <1>6 DEF AzureHears
  <2>2. events = <<>> /\ isSpeaking' = isSpeaking
    BY <2>1 DEF Heard
  <2> QED BY <2>2 DEF Turn
<1>7. CASE what \in {"interim", "final"}
  <2>1. what \notin {"start", "end", "begun"}
    BY <1>7
  <2>2. Heard(events, isSpeaking') = Heard(<<what>>, isSpeaking)
    BY <1>7, <2>1 DEF AzureHears
  <2>3. events = <<what>> /\ isSpeaking' = isSpeaking
    BY <2>2 DEF Heard
  <2> QED BY <1>7, <2>3 DEF Turn
<1> QED BY <1>1, <1>2, <1>3, <1>4, <1>5, <1>6, <1>7

\* The events of a message of deepgram, or of azure, keep the turns.
LEMMA HearsMessage ==
    ASSUME SttSocketsAssumption, SttSocketsTypeOK, HearingInv,
           NEW what \in SpeechEvents \cup {"begun"}, NEW tooOld \in BOOLEAN, ServerSays(what, tooOld)
    PROVE  HearingInv'
<1>1. dialect' = dialect /\ heardEvents \in Seq(SpeechEvents) /\ isSpeaking \in BOOLEAN
  BY DEF ServerSays, SttSocketsTypeOK
<1>2. PICK events \in Seq(SpeechEvents) :
              /\ heardEvents' = heardEvents \o events /\ isSpeaking' \in BOOLEAN
              /\ dialect = "deepgram" => Heard(events, isSpeaking') = DeepgramHears(what)
              /\ dialect = "azure" => Heard(events, isSpeaking') = AzureHears(what)
  BY SaidType
<1>3. CASE dialect = "deepgram"
  <2>1. /\ Alternates(heardEvents, {"interim", "final"})
        /\ isSpeaking <=> InSpeech(heardEvents, Len(heardEvents))
    BY <1>3 DEF HearingInv, HearsInTurn, SpeechesAlternate
  <2>2. Turn(events, {"interim", "final"})
    BY <1>1, <1>2, <1>3, DeepgramTurns
  <2>3. /\ Alternates(heardEvents', {"interim", "final"})
        /\ isSpeaking' <=> InSpeech(heardEvents', Len(heardEvents'))
    BY <1>1, <1>2, <2>1, <2>2, TurnIsHeard
  <2> QED BY <1>1, <1>3, <2>3 DEF HearingInv, HearsInTurn, SpeechesAlternate
<1>4. CASE dialect = "azure"
  <2>1. /\ Alternates(heardEvents, {}) /\ (isSpeaking <=> InSpeech(heardEvents, Len(heardEvents)))
    BY <1>4 DEF HearingInv, HearsInTurn, SpeechesAlternate
  <2>2. Turn(events, {})
    BY <1>1, <1>2, <1>4, AzureTurns
  <2>3. /\ Alternates(heardEvents', {}) /\ (isSpeaking' <=> InSpeech(heardEvents', Len(heardEvents')))
    BY <1>1, <1>2, <2>1, <2>2, TurnIsHeard
  <2> QED BY <1>1, <1>4, <2>3 DEF HearingInv, HearsInTurn, SpeechesAlternate
<1>5. CASE dialect \notin {"deepgram", "azure"}
  BY <1>1, <1>5 DEF HearingInv, HearsInTurn, SpeechesAlternate
<1> QED BY <1>3, <1>4, <1>5

LEMMA HearingStep ==
    ASSUME SttSocketsAssumption, SttSocketsTypeOK, HearingInv, [SttSocketsNext]_sttSockVars
    PROVE  HearingInv'
<1>1. ASSUME NEW what \in SpeechEvents \cup {"begun"}, NEW tooOld \in BOOLEAN, ServerSays(what, tooOld)
      PROVE  HearingInv'
  BY <1>1, HearsMessage
<1>2. CASE dialect' = dialect /\ heardEvents' = heardEvents /\ (dialect # "google" => isSpeaking' = isSpeaking)
  BY <1>2 DEF HearingInv, HearsInTurn, SpeechesAlternate
<1>3. CASE Connects
  <2>1. isSpeaking \in BOOLEAN
    BY DEF SttSocketsTypeOK
  <2> QED BY <1>2, <1>3, <2>1 DEF Connects
<1>4. CASE \/ UNCHANGED sttSockVars \/ Pushes \/ UpdateOptions \/ ConnectAgain \/ SessionStopped \/ RunReturns
           \/ SenderStarts \/ SenderReads \/ SenderSends \/ SenderEnds \/ ThiefTakes
           \/ ServerCloses \/ ServerFails
  <2>1. UNCHANGED <<dialect, heardEvents, isSpeaking>>
    BY <1>4 DEF sttSockVars, Pushes, UpdateOptions, ConnectAgain, SessionStopped, RunReturns, SenderStarts,
                SenderReads, SenderSends, SenderEnds, ThiefTakes, ServerCloses, ServerFails
  <2> QED BY <1>2, <2>1
<1> QED BY <1>1, <1>3, <1>4 DEF SttSocketsNext

LEMMA HearingInit ==
    ASSUME SttSocketsInit
    PROVE  HearingInv
<1>1. /\ heardEvents = <<>> /\ isSpeaking = FALSE /\ Len(<<>>) = 0 /\ DOMAIN <<>> = {} /\ 1..0 = {}
  BY DEF SttSocketsInit
<1> QED BY <1>1 DEF HearingInv, HearsInTurn, SpeechesAlternate, InSpeech, Alternates

\* The sockets of a recognition.
LEMMA SttSafe == SttSocketsSpec => [](SttSocketsTypeOK /\ AudioInOrder /\ SpeechesAlternate)
<1>1. SttSocketsInit => AudioInv /\ HearingInv
  BY SttSocketsAssumption, AudioInit, HearingInit
<1>2. AudioInv /\ HearingInv /\ [SttSocketsNext]_sttSockVars => AudioInv' /\ HearingInv'
  <2>1. AudioInv => SttSocketsTypeOK
    BY DEF AudioInv
  <2> QED BY <2>1, SttSocketsAssumption, AudioStep, HearingStep
<1>3. AudioInv /\ HearingInv => SttSocketsTypeOK /\ AudioInOrder /\ SpeechesAlternate
  BY AudioIsInOrder DEF AudioInv, HearingInv
<1> QED BY <1>1, <1>2, <1>3, PTL DEF SttSocketsSpec

\* Of every behaviour of the three: each attempt of a recognition is used and only what the service said of the
\* audio is returned (stt.py of the plugins), the frames of a stream go out in order, none twice, all of them if
\* nothing disturbed it, and its speeches alternate (deepgram, azure), and what the VAD of silero gives of a
\* speech are the windows it heard of it, in order.
THEOREM RecognitionIsSound == SttSocketsSpec /\ RecognizeSpec /\ VadSpec => []RecognitionSafe
BY SttSafe, RecognizeSafe, VadSafe, PTL DEF RecognitionSafe

----------------------------------------------------------------------------
(* The pool of connections *)

USE PoolAssumption DEF Drainers, Closer

\* Once a drain has ended, get() takes a connection that was available, or none.
LEMMA TakeKeepsInv ==
    ASSUME NEW u \in Users, Inv, pc[u] \in {"idle", "draining"},
           closed' = closed \/ closed' = closed \cup {closing[u]},
           closing[u] = None => closed' = closed,
           DrainEnds(u), Take(u), UNCHANGED <<old, prewarmed, made>>
    PROVE  Inv'
<1> USE DEF Inv, TypeOK, OnlyMade, KnownIsLive, Stages, HeldOnce, DrainEnds, Goto
<1>1. CASE \E c \in available \ old, R \in SUBSET (available \cap old) :
              /\ held' = [held EXCEPT ![u] = c]
              /\ Goto(u, "using")
              /\ available' = available \ (R \cup {c})
              /\ connections' = connections \ R
              /\ to_close' = R
  <2> PICK c \in available \ old, R \in SUBSET (available \cap old) :
              /\ held' = [held EXCEPT ![u] = c]
              /\ Goto(u, "using")
              /\ available' = available \ (R \cup {c})
              /\ connections' = connections \ R
              /\ to_close' = R
    BY <1>1
  <2>1. TypeOK' OBVIOUS
  <2>2. (available \subseteq connections)' OBVIOUS
  <2>3. OnlyMade' OBVIOUS
  <2>4. KnownIsLive' OBVIOUS
  <2>5. Stages' OBVIOUS
  <2>6. HeldOnce' OBVIOUS
  <2> QED BY <2>1, <2>2, <2>3, <2>4, <2>5, <2>6
<1>2. CASE /\ available \subseteq old
           /\ Goto(u, "connecting")
           /\ available' = {}
           /\ connections' = connections \ available
           /\ to_close' = available
           /\ UNCHANGED held
  <2>1. TypeOK' BY <1>2
  <2>2. (available \subseteq connections)' BY <1>2
  <2>3. OnlyMade' BY <1>2
  <2>4. KnownIsLive' BY <1>2
  <2>5. Stages' BY <1>2
  <2>6. HeldOnce' BY <1>2
  <2> QED BY <2>1, <2>2, <2>3, <2>4, <2>5, <2>6
<1> QED BY <1>1, <1>2 DEF Take

\* A drain that awaits close_cb for one more connection of its list changes no other state.
LEMMA CloseNextKeepsInv ==
    ASSUME NEW t \in Drainers, NEW left, Inv, pc[t] \in {"idle", "draining"},
           closed' = closed \/ closed' = closed \cup {closing[t]},
           closing[t] = None => closed' = closed,
           left \subseteq made,
           left \cap connections' = {},
           connections' \subseteq connections, available' \subseteq available,
           available' \subseteq connections',
           to_close' \subseteq made, to_close' \cap connections' = {},
           CloseNext(t, left), UNCHANGED <<old, held, prewarmed, made>>
    PROVE  Inv'
<1> USE DEF Inv, TypeOK, OnlyMade, KnownIsLive, Stages, HeldOnce, CloseNext, Goto
<1> PICK c \in left : /\ closing' = [closing EXCEPT ![t] = c]
                      /\ todo' = [todo EXCEPT ![t] = left \ {c}]
  OBVIOUS
<1>1. TypeOK' OBVIOUS
<1>2. OnlyMade' OBVIOUS
<1>3. KnownIsLive' OBVIOUS
<1>4. Stages' OBVIOUS
<1>5. HeldOnce' OBVIOUS
<1> QED BY <1>1, <1>2, <1>3, <1>4, <1>5

\* aclose() ends: everything it drained is closed.
LEMMA CloseEndsKeepsInv ==
    ASSUME Inv, pc[Closer] \in {"idle", "draining"},
           closed' = closed \/ closed' = closed \cup {closing[Closer]},
           closing[Closer] = None => closed' = closed,
           connections' \subseteq connections, available' \subseteq available,
           available' \subseteq connections',
           to_close' \subseteq made, to_close' \cap connections' = {},
           DrainEnds(Closer), Goto(Closer, "closed"), UNCHANGED <<old, held, prewarmed, made>>
    PROVE  Inv'
<1> USE DEF Inv, TypeOK, OnlyMade, KnownIsLive, Stages, HeldOnce, DrainEnds, Goto
<1>1. TypeOK' OBVIOUS
<1>2. OnlyMade' OBVIOUS
<1>3. KnownIsLive' OBVIOUS
<1>4. Stages' OBVIOUS
<1>5. HeldOnce' OBVIOUS
<1> QED BY <1>1, <1>2, <1>3, <1>4, <1>5

LEMMA InitInv == Init => Inv
BY DEF Init, Inv, TypeOK, OnlyMade, KnownIsLive, Stages, HeldOnce

LEMMA NextInv == Inv /\ [Next]_vars => Inv'
<1> SUFFICES ASSUME Inv, [Next]_vars PROVE Inv' OBVIOUS
<1>d. Inv => /\ TypeOK /\ available \subseteq connections /\ OnlyMade /\ KnownIsLive
             /\ Stages /\ HeldOnce
  BY DEF Inv
<1>1. ASSUME NEW u \in Users, GetStarts(u) PROVE Inv'
  <2>1. pc[u] = "idle" /\ closing[u] = None /\ u \in Drainers
    BY <1>1, <1>d DEF GetStarts, Stages
  <2>2. to_close \subseteq made /\ to_close \cap connections = {}
    BY <1>d DEF OnlyMade, KnownIsLive
  <2>3. CASE CloseNext(u, to_close) /\ UNCHANGED <<connections, available, to_close, held>>
    BY <1>1, <2>1, <2>2, <2>3, <1>d, CloseNextKeepsInv DEF GetStarts
  <2>4. CASE DrainEnds(u) /\ Take(u)
    BY <1>1, <2>1, <2>4, TakeKeepsInv DEF GetStarts
  <2> QED BY <1>1, <2>3, <2>4 DEF GetStarts, GetStep
<1>2. ASSUME NEW u \in Users, GetDrains(u) PROVE Inv'
  <2>1. pc[u] = "draining" /\ closing[u] # None /\ u \in Drainers
    BY <1>2, <1>d DEF GetDrains, Stages
  <2>2. todo[u] \subseteq made /\ todo[u] \cap connections = {}
        /\ to_close \subseteq made /\ to_close \cap connections = {}
    BY <1>d DEF OnlyMade, KnownIsLive
  <2>3. CASE CloseNext(u, todo[u]) /\ UNCHANGED <<connections, available, to_close, held>>
    BY <1>2, <2>1, <2>2, <2>3, <1>d, CloseNextKeepsInv DEF GetDrains
  <2>4. CASE DrainEnds(u) /\ Take(u)
    BY <1>2, <2>1, <2>4, TakeKeepsInv DEF GetDrains
  <2> QED BY <1>2, <2>3, <2>4 DEF GetDrains, GetStep
<1>3. ASSUME AClose PROVE Inv'
  <2>1. pc[Closer] = "idle" /\ closing[Closer] = None
    BY <1>3, <1>d DEF AClose, MayClose, Stages
  <2>2. /\ connections' = {} /\ available' = {} /\ to_close' = to_close \cup connections
        /\ to_close \cup connections \subseteq made
        /\ UNCHANGED <<old, held, prewarmed, made, closed>>
    BY <1>3, <1>d DEF AClose, InvalidateAll, OnlyMade
  <2>3. CASE CloseNext(Closer, to_close \cup connections)
    BY <2>1, <2>2, <2>3, CloseNextKeepsInv
  <2>4. CASE DrainEnds(Closer) /\ Goto(Closer, "closed")
    BY <2>1, <2>2, <2>4, CloseEndsKeepsInv
  <2> QED BY <1>3, <2>3, <2>4 DEF AClose, CloseStep
<1>4. ASSUME CloseDrains PROVE Inv'
  <2>1. pc[Closer] = "draining" /\ closing[Closer] # None
    BY <1>4, <1>d DEF CloseDrains, Stages
  <2>2. /\ UNCHANGED <<connections, available, old, held, prewarmed, made>>
        /\ to_close' \subseteq to_close /\ closed' = closed \cup {closing[Closer]}
    BY <1>4 DEF CloseDrains
  <2>3. /\ todo[Closer] \subseteq made /\ todo[Closer] \cap connections = {}
        /\ to_close \subseteq made /\ to_close \cap connections = {}
    BY <1>d DEF OnlyMade, KnownIsLive
  <2>4. CASE CloseNext(Closer, todo[Closer])
    BY <2>1, <2>2, <2>3, <2>4, <1>d, CloseNextKeepsInv
  <2>5. CASE DrainEnds(Closer) /\ Goto(Closer, "closed")
    BY <2>1, <2>2, <2>3, <2>5, <1>d, CloseEndsKeepsInv
  <2> QED BY <1>4, <2>4, <2>5 DEF CloseDrains, CloseStep
<1> USE DEF Inv, TypeOK, OnlyMade, KnownIsLive, Stages, HeldOnce, Goto
<1>5. ASSUME NEW u \in Users, GetConnects(u) PROVE Inv'
  <2> PICK c \in Conns : Connect(c) /\ held' = [held EXCEPT ![u] = c]
    BY <1>5 DEF GetConnects
  <2> USE <1>5 DEF GetConnects, Connect
  <2>1. TypeOK' OBVIOUS
  <2>2. OnlyMade' OBVIOUS
  <2>3. KnownIsLive' OBVIOUS
  <2>4. Stages' OBVIOUS
  <2>5. HeldOnce' OBVIOUS
  <2> QED BY <2>1, <2>2, <2>3, <2>4, <2>5
<1>6. ASSUME NEW u \in Users, ConnectFails(u) PROVE Inv'
  BY <1>6 DEF ConnectFails
<1>7. ASSUME NEW t \in Drainers, CloseFails(t) PROVE Inv'
  BY <1>7 DEF CloseFails, DrainEnds
<1>8. ASSUME NEW u \in Users, Done(u) PROVE Inv'
  <2> USE <1>8 DEF Done, Release, Put
  <2>1. TypeOK' OBVIOUS
  <2>2. OnlyMade' OBVIOUS
  <2>3. KnownIsLive' OBVIOUS
  <2>4. Stages' OBVIOUS
  <2>5. HeldOnce' OBVIOUS
  <2> QED BY <2>1, <2>2, <2>3, <2>4, <2>5
<1>9. ASSUME NEW u \in Users, Fails(u) PROVE Inv'
  BY <1>9 DEF Fails, Release, RemoveConnections
<1>10. ASSUME NEW u \in Users, Cancelled(u) PROVE Inv'
  BY <1>10 DEF Cancelled, Release
<1>11. ASSUME NEW u \in Users, UserRemoves(u) PROVE Inv'
  BY <1>11 DEF UserRemoves, RemoveConnections
<1>12. ASSUME Invalidate PROVE Inv'
  BY <1>12 DEF Invalidate, InvalidateAll
<1>13. ASSUME NEW c \in Conns, Expire(c) PROVE Inv'
  BY <1>13 DEF Expire
<1>14. ASSUME Prewarm \/ PrewarmRuns PROVE Inv'
  BY <1>14 DEF Prewarm, PrewarmRuns
<1>15. ASSUME PrewarmConnects PROVE Inv'
  BY <1>15 DEF PrewarmConnects, Connect
<1>16. CASE UNCHANGED vars
  BY <1>16 DEF vars
<1> QED
  BY <1>1, <1>2, <1>3, <1>4, <1>5, <1>6, <1>7, <1>8, <1>9, <1>10, <1>11, <1>12, <1>13, <1>14,
     <1>15, <1>16 DEF Next, UserStep

\* The pool keeps its inductive invariant: what leaves _connections never comes back.
THEOREM PoolInvariance == Spec => []Inv
BY InitInv, NextInv, PTL DEF Spec

\* No connection of get() is shared: neither by two streams nor by a stream and the pool.
THEOREM OneUserPerConnection == Spec => []NoSharing
<1>1. Inv => NoSharing
  BY DEF Inv, HeldOnce, NoSharing, Held
<1> QED BY <1>1, PoolInvariance, PTL

\* get() never returns a connection that close_cb was called on, or will be.
THEOREM ClosedIsNotHandedOut == Spec => []NoClosedHandout
<1>1. Inv => NoClosedHandout
  BY DEF Inv, TypeOK, KnownIsLive, NoClosedHandout, BeingClosed
<1> QED BY <1>1, PoolInvariance, PTL

===============================================================================
