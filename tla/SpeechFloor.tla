---------------------------- MODULE SpeechFloor ----------------------------
(***************************************************************************)
(* What the speech scheduler promises to whoever asks it for a speech,     *)
(* whatever happens inside: the floor is given to one speech at a time and *)
(* only once the speech that had it is over; only the holder speaks; a     *)
(* speech that is over never speaks again.                                 *)
(***************************************************************************)
CONSTANTS Speeches, Nobody

VARIABLES
    asked,      \* the speeches somebody asked for
    floor,      \* who has the floor
    speaking,   \* who uses the outputs of the session
    over        \* the speeches whose handle is done

vars == <<asked, floor, speaking, over>>

Init == asked = {} /\ floor = Nobody /\ speaking = {} /\ over = {}

Ask(s) ==
    /\ s \notin asked
    /\ asked' = asked \cup {s}
    /\ UNCHANGED <<floor, speaking, over>>

\* The floor goes to a speech that is not over, straight from one that is or from nobody.
GiveFloor(s) ==
    /\ floor \in over \cup {Nobody}
    /\ s \in asked \ over
    /\ floor' = s
    /\ UNCHANGED <<asked, speaking, over>>

TakeBack ==
    /\ floor \in over
    /\ floor' = Nobody
    /\ UNCHANGED <<asked, speaking, over>>

Speak(s) ==
    /\ floor = s /\ s \notin over
    /\ speaking' = speaking \cup {s}
    /\ UNCHANGED <<asked, floor, over>>

Stop(s) ==
    /\ s \in speaking
    /\ speaking' = speaking \ {s}
    /\ UNCHANGED <<asked, floor, over>>

\* A speech ends: it has spoken, it was interrupted while it waited, or it failed.
End(s) ==
    /\ s \in asked \ over
    /\ speaking' = speaking \ {s}
    /\ over' = over \cup {s}
    /\ UNCHANGED <<asked, floor>>

Next ==
    \/ TakeBack
    \/ \E s \in Speeches : Ask(s) \/ GiveFloor(s) \/ Speak(s) \/ Stop(s) \/ End(s)

Spec == Init /\ [][Next]_vars

=============================================================================
