------------------------------- MODULE CallChain -------------------------------
(***************************************************************************)
(* What COD Shield promises a customer: a failed delivery is followed by at *)
(* most one call of each attempt, each attempt only after the one before,   *)
(* and by WhatsApp only after the last. Tasks, records, workers and         *)
(* callbacks are left out. CodShield implements this as long as Twilio      *)
(* reports the end of a call once.                                          *)
(***************************************************************************)
EXTENDS Naturals

CONSTANT LastAttempt

VARIABLES
    webhooks,      \* failed deliveries reported
    calls,         \* [1 .. LastAttempt -> calls made as that attempt]
    messages       \* WhatsApp fallbacks

chain == <<webhooks, calls, messages>>

Webhook ==
    /\ webhooks' = webhooks + 1
    /\ UNCHANGED <<calls, messages>>

\* What a call of attempt k follows up: a webhook or a call of the attempt before,
\* and each of them once.
Causes(k) == IF k = 1 THEN webhooks ELSE calls[k - 1]

Call(k) ==
    /\ calls[k] < Causes(k)
    /\ calls' = [calls EXCEPT ![k] = @ + 1]
    /\ UNCHANGED <<webhooks, messages>>

Message ==
    /\ messages < calls[LastAttempt]
    /\ messages' = messages + 1
    /\ UNCHANGED <<webhooks, calls>>

Init ==
    /\ webhooks = 0
    /\ calls = [k \in 1 .. LastAttempt |-> 0]
    /\ messages = 0

Next == Webhook \/ Message \/ \E k \in 1 .. LastAttempt : Call(k)

Spec == Init /\ [][Next]_chain
===============================================================================
