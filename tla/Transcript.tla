------------------------------ MODULE Transcript -------------------------------
(***************************************************************************)
(* What a conversation promises of the messages it was sent, however they  *)
(* reach a turn: each is heard at most once, by one turn; turns are heard  *)
(* one after the other; and what is given back to the user is not heard,   *)
(* neither before nor later.                                               *)
(***************************************************************************)
EXTENDS Naturals

CONSTANTS Message, Round

VARIABLES
    said,       \* the rounds under which a message stands in the transcript
    back        \* the messages that were given back

\* Nothing of a later round has been heard.
Latest(t) == \A m \in Message : \A u \in said[m] : u <= t

Init == said = [m \in Message |-> {}] /\ back = {}

\* A round hears the messages the transcript has afterwards under it.
Hear(t) ==
    /\ Latest(t)
    /\ said' = [m \in Message |-> said'[m]]
    /\ \A m \in Message : \/ said'[m] = said[m]
                          \/ said[m] = {} /\ m \notin back /\ said'[m] = {t}
    /\ UNCHANGED back

\* Messages that have not been heard are given back.
GiveBack ==
    /\ back \subseteq back' /\ back' \subseteq Message
    /\ \A m \in back' \ back : said[m] = {}
    /\ UNCHANGED said

Next == GiveBack \/ \E t \in Round : Hear(t)

Spec == Init /\ [][Next]_<<said, back>>
=============================================================================
