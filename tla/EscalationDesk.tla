---------------------------- MODULE EscalationDesk ----------------------------
(***************************************************************************)
(* What the desk promises agents and customers: the life of a conversation  *)
(* (active, waiting for an agent, resolved) and the life of an escalation   *)
(* (pending, accepted by somebody, resolved) are one protocol. An           *)
(* escalation starts when its conversation starts to wait, has one owner,   *)
(* and ends with the conversation. Turns, requests, transactions and        *)
(* counters are left out. Conversations implements this as long as turns    *)
(* and requests come one at a time.                                         *)
(***************************************************************************)
CONSTANTS
    Escalations, Threads,   \* escalations and conversations there may be
    Owners,                 \* agents
    Nobody,                 \* the owner of an escalation nobody accepted
    Nowhere                 \* the conversation of an escalation not raised yet

VARIABLES
    life,          \* [Threads -> where a conversation is in its life]
    stage,         \* [Escalations -> where an escalation is in its life]
    about,         \* [Escalations -> its conversation]
    owner          \* [Escalations -> the agent who accepted it]

desk == <<life, stage, about, owner>>

\* A customer writes and no conversation is under way.
Begin(c) ==
    /\ life[c] = "none"
    /\ life' = [life EXCEPT ![c] = "active"]
    /\ UNCHANGED <<stage, about, owner>>

\* A conversation, possibly a new one, comes before the agents.
Escalate(e, c) ==
    /\ stage[e] = "none"
    /\ life[c] \in {"none", "active"}
    /\ stage' = [stage EXCEPT ![e] = "pending"]
    /\ about' = [about EXCEPT ![e] = c]
    /\ owner' = [owner EXCEPT ![e] = Nobody]
    /\ life' = [life EXCEPT ![c] = "waiting_agent"]

Accept(e, a) ==
    /\ stage[e] = "pending"
    /\ stage' = [stage EXCEPT ![e] = "accepted"]
    /\ owner' = [owner EXCEPT ![e] = a]
    /\ UNCHANGED <<life, about>>

\* ... by anybody, accepted or not.
Resolve(e) ==
    /\ stage[e] \in {"pending", "accepted"}
    /\ life[about[e]] = "waiting_agent"
    /\ stage' = [stage EXCEPT ![e] = "resolved"]
    /\ life' = [life EXCEPT ![about[e]] = "resolved"]
    /\ UNCHANGED <<about, owner>>

Init ==
    /\ life = [c \in Threads |-> "none"]
    /\ stage = [e \in Escalations |-> "none"]
    /\ about = [e \in Escalations |-> Nowhere]
    /\ owner = [e \in Escalations |-> Nobody]

Next ==
    \/ \E c \in Threads : Begin(c) \/ \E e \in Escalations : Escalate(e, c)
    \/ \E e \in Escalations : Resolve(e) \/ \E a \in Owners : Accept(e, a)

Spec == Init /\ [][Next]_desk
===============================================================================
