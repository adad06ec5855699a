-------------------------- MODULE MCConversations --------------------------
(* Two workers and two agents serving one customer: either they race, manual  *)
(* patches and replies included, or turns and requests come one at a time and *)
(* agents only accept and resolve.                                            *)
EXTENDS Conversations, TLC

CONSTANTS
    w1, w2, a1, a2,
    RaceTurns,      \* bound: turns when they race
    RaceRequests    \* bound: requests when they race

VARIABLE alone      \* one turn and one request at a time

mcVars == <<vars, alone>>

MCSymmetry == Permutations(Workers) \cup Permutations(Agents)

Race == Next /\ started'.turns <= RaceTurns /\ started'.requests <= RaceRequests

OneAtATime ==
    \/ \E w \in Workers : /\ \A v \in Workers \ {w} : turn[v].pc = "idle"
                          /\ WorkerStep(w)
    \/ \E a \in Agents : /\ \A b \in Agents \ {a} : agent[b].op = "none"
                         /\ \/ Accept(a) \/ Resolve(a)
                            \/ \E id \in Ids : ReadForAccept(a, id) \/ ReadForResolve(a, id)
    \/ \E c \in Ids : LeaveWindow(c)

MCInit == Init /\ alone \in BOOLEAN
MCNext == (IF alone THEN OneAtATime ELSE Race) /\ UNCHANGED alone
MCSpec == MCInit /\ [][MCNext]_mcVars

\* With one turn at a time and agents that only accept and resolve, the queue and
\* the conversations agree: a customer has one open conversation, an escalation
\* in the queue belongs to a waiting one, nobody accepts it a second time, and who
\* accepted it has the conversation.
QueueAgreesAlone ==
    alone => OneOpen /\ QueuedIsWaiting /\ AcceptedOnce /\ OwnerIsAssigned

\* The statuses and the owner in the tables, as the desk sees them.
Desk == INSTANCE EscalationDesk
        WITH Escalations <- Ids, Threads <- Ids, Owners <- Agents,
             Nobody <- NoOne, Nowhere <- 0,
             life  <- [c \in Ids |-> conv[c].status],
             stage <- [e \in Ids |-> event[e].status],
             about <- [e \in Ids |-> event[e].conv],
             owner <- [e \in Ids |-> event[e].by]

\* ... and conversations and escalations together go through the documented states
\* (Execution Pack 3.3) as one protocol: all of this implements EscalationDesk.
DeskAlone ==
    /\ alone => Desk!Init
    /\ [][alone => [Desk!Next]_(Desk!desk)]_mcVars
=============================================================================
