---------------------------- MODULE MessageLedger ----------------------------
(***************************************************************************)
(* What the message path promises a customer, with webhooks, streams,      *)
(* workers and failures left out: a message is recorded at most once, is   *)
(* answered only after it was recorded, and is answered at most once.      *)
(* InboundDelivery implements this for texts and images.                   *)
(***************************************************************************)
EXTENDS Naturals

CONSTANTS
    Messages       \* messages a customer may send

VARIABLES
    recorded,      \* messages whose turn is in the database
    answers        \* [Messages -> answers the customer got]

Record(m) ==
    /\ m \notin recorded
    /\ recorded' = recorded \cup {m}
    /\ UNCHANGED answers

Answer(m) ==
    /\ m \in recorded
    /\ answers[m] = 0
    /\ answers' = [answers EXCEPT ![m] = 1]
    /\ UNCHANGED recorded

Init ==
    /\ recorded = {}
    /\ answers = [m \in Messages |-> 0]

Next == \E m \in Messages : Record(m) \/ Answer(m)

Spec == Init /\ [][Next]_<<recorded, answers>>
=============================================================================
