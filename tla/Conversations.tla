---------------------------- MODULE Conversations ----------------------------
(***************************************************************************)
(* The conversations of one customer: turns of message workers and requests *)
(* of human agents on the same rows.                                        *)
(*                                                                          *)
(* Each turn and each request is one READ COMMITTED transaction             *)
(* (radd/db/session.py) that SELECTs rows, works on the loaded values and   *)
(* writes absolute values when it flushes.  The customer row is updated     *)
(* first and stays locked until the commit, which serialises the writes of  *)
(* two turns but not their reads.  Flush and commit of a transaction are    *)
(* one step: nobody reads what is not committed.                            *)
(*                                                                          *)
(* At this commit a text turn does not get past its first flush (TextsKept):*)
(* the module describes what its transaction does behind that point.        *)
(***************************************************************************)
EXTENDS Naturals, FiniteSets

CONSTANTS
    Workers,       \* concurrent turns (message_worker processes)
    Agents,        \* concurrent requests of human agents
    AgentOps,      \* which of "accept", "resolve", "reply" they send
    PatchTo,       \* statuses they set by PATCH
    NoOne,         \* no lock holder, no assignee
    TextsKept,     \* whether the row of a text can be flushed, see CommitAnswer
    MaxTurns,      \* bound: turns started
    MaxRequests    \* bound: agent requests started

ASSUME ConversationsAssumption ==
    /\ AgentOps \subseteq {"accept", "resolve", "reply"}
    /\ PatchTo \subseteq {"active", "waiting_agent", "resolved"}
    /\ NoOne \notin Workers \cup Agents
    /\ TextsKept \in BOOLEAN
    /\ MaxTurns \in Nat /\ MaxRequests \in Nat

VARIABLES
    customer,      \* [present, total]: the row, and its total_conversations
    conv,          \* [Convs -> status, message_count, last_message_at, ...]
    assignee,      \* [Convs -> assigned_user_id]
    event,         \* [Convs -> escalation event, one per turn at most]
    lock,          \* who holds the customer row (or its unwritten unique key)
    turn,          \* [Workers -> locals of process_message]
    agent,         \* [Agents -> locals of a request handler]
    rows,          \* [Convs -> message rows committed]
    textTurns,     \* text turns committed
    accepted,      \* [Convs -> accept requests answered with 200]
    started,       \* [turns, requests] started so far
    clock          \* last value of datetime.now used for ordering

dbVars == <<customer, conv, assignee, event, rows>>
vars   == <<dbVars, lock, turn, agent, textTurns, accepted, started, clock>>

\* Conversations and events are named by the turn that creates them.
Ids == 1 .. MaxTurns

NoConv  == [status |-> "none", count |-> 0, at |-> 0, recent |-> FALSE]
NoEvent == [status |-> "none", conv |-> 0, by |-> NoOne]
NoTurn  == [pc |-> "idle", id |-> 0, total |-> 0, conv |-> 0, count |-> 0]
NoRequest == [op |-> "none", target |-> 0, status |-> "none", count |-> 0]

-----------------------------------------------------------------------------
(* A worker's turn                                                         *)

\* get_or_create_customer: SELECT, by hash of the phone number.
SelectCustomer(w) ==
    /\ turn[w].pc = "idle"
    /\ started.turns < MaxTurns
    /\ started' = [started EXCEPT !.turns = @ + 1]
    /\ turn' = [turn EXCEPT ![w] =
                   [NoTurn EXCEPT !.pc = IF customer.present THEN "known" ELSE "new",
                                  !.id = started.turns + 1,
                                  !.total = customer.total]]
    /\ UNCHANGED <<dbVars, lock, agent, textTurns, accepted, clock>>

\* ... INSERT and flush; a second inserter waits for the first transaction.
InsertCustomer(w) ==
    /\ turn[w].pc = "new"
    /\ lock = NoOne /\ ~customer.present
    /\ lock' = w
    /\ turn' = [turn EXCEPT ![w].pc = "known"]
    /\ UNCHANGED <<dbVars, agent, textTurns, accepted, started, clock>>

\* ... and violates the unique constraint when that one has committed.
CustomerExists(w) ==
    /\ turn[w].pc = "new"
    /\ lock = NoOne /\ customer.present
    /\ turn' = [turn EXCEPT ![w] = NoTurn]
    /\ UNCHANGED <<dbVars, lock, agent, textTurns, accepted, started, clock>>

\* Conversations the turn may continue: active, inside the session window.
Open == {c \in Ids : conv[c].status = "active" /\ conv[c].recent}

Latest(c) == c \in Open /\ \A d \in Open : conv[d].at <= conv[c].at

\* Variant: every turn opens a conversation.
SelectNothing(w) ==
    /\ turn[w].pc = "known"
    /\ turn' = [turn EXCEPT ![w] = [@ EXCEPT !.pc = "loaded", !.conv = turn[w].id]]
    /\ UNCHANGED <<dbVars, lock, agent, textTurns, accepted, started, clock>>

\* get_or_create_conversation: the open one with the latest last_message_at,
\* or a new one. Its values are those of this moment.
SelectConversation(w) ==
    /\ turn[w].pc = "known"
    /\ \E c \in Ids :
          /\ IF Open = {} THEN c = turn[w].id ELSE Latest(c)
          /\ turn' = [turn EXCEPT ![w] =
                         [@ EXCEPT !.pc = "loaded", !.conv = c, !.count = conv[c].count]]
    /\ UNCHANGED <<dbVars, lock, agent, textTurns, accepted, started, clock>>

\* First flush: UPDATE customers SET last_seen_at takes the row lock, which the
\* transaction keeps while the pipeline computes the answer. The inbound row of a
\* text is flushed next and raises unless TextsKept: then only FailTurn, or the
\* commit of an image or of a fallback, is left.
LockCustomer(w) ==
    /\ turn[w].pc = "loaded"
    /\ lock \in {NoOne, w}
    /\ lock' = w
    /\ turn' = [turn EXCEPT ![w].pc = "answering"]
    /\ UNCHANGED <<dbVars, agent, textTurns, accepted, started, clock>>

\* What the flush of a turn writes to its conversation: an UPDATE of the columns
\* it changed, or the INSERT of a new row.
Written(w, status, added) ==
    [status |-> IF turn[w].conv = turn[w].id \/ status = "waiting_agent"
                THEN status ELSE conv[turn[w].conv].status,
     count  |-> turn[w].count + added,
     at     |-> clock + 1,
     recent |-> TRUE]

\* End of the transaction: the rows become visible, the lock is released.
Commit(w, written, added) ==
    /\ turn[w].pc = "answering"
    /\ conv' = [conv EXCEPT ![turn[w].conv] = written]
    /\ rows' = [rows EXCEPT ![turn[w].conv] = @ + added]
    /\ turn' = [turn EXCEPT ![w] = NoTurn]
    /\ lock' = NoOne
    /\ clock' = clock + 1
    /\ UNCHANGED <<agent, assignee, accepted, started>>

\* _store_outbound_and_update with an automatic answer: message_count + 2 on the
\* loaded value, and update_profile adds one to the loaded total_conversations.
\* TextsKept is FALSE at this commit: the inbound row's metadata hold a dataclass
\* that the JSON column cannot take. TRUE is the code once the flush takes it; every
\* behaviour of the first is one of the second.
CommitAnswer(w) ==
    /\ TextsKept
    /\ Commit(w, Written(w, "active", 2), 2)
    /\ customer' = [present |-> TRUE, total |-> turn[w].total + 1]
    /\ textTurns' = textTurns + 1
    /\ UNCHANGED event

\* Variant: the escalation event is left to a later transaction.
EscalateWithoutEvent(w) ==
    /\ TextsKept
    /\ Commit(w, Written(w, "waiting_agent", 2), 2)
    /\ customer' = [present |-> TRUE, total |-> turn[w].total + 1]
    /\ textTurns' = textTurns + 1
    /\ UNCHANGED event

\* ... with an escalation: status and event are written in the same transaction.
CommitEscalation(w) ==
    /\ TextsKept
    /\ Commit(w, Written(w, "waiting_agent", 2), 2)
    /\ customer' = [present |-> TRUE, total |-> turn[w].total + 1]
    /\ textTurns' = textTurns + 1
    /\ event' = [event EXCEPT ![turn[w].id] =
                    [status |-> "pending", conv |-> turn[w].conv, by |-> NoOne]]

\* process_image_message: same counters, no profile update, no escalation.
CommitImage(w) ==
    /\ Commit(w, Written(w, "active", 2), 2)
    /\ customer' = [customer EXCEPT !.present = TRUE]
    /\ UNCHANGED <<event, textTurns>>

\* process_voice_message, fallback: two rows, but message_count and
\* last_message_at of an existing conversation are left alone.
CommitFallback(w) ==
    /\ Commit(w, IF turn[w].conv = turn[w].id THEN Written(w, "active", 0)
                 ELSE conv[turn[w].conv], 2)
    /\ customer' = [customer EXCEPT !.present = TRUE]
    /\ UNCHANGED <<event, textTurns>>

\* An exception rolls everything back.
FailTurn(w) ==
    /\ turn[w].pc # "idle"
    /\ turn' = [turn EXCEPT ![w] = NoTurn]
    /\ lock' = IF lock = w THEN NoOne ELSE lock
    /\ UNCHANGED <<dbVars, agent, textTurns, accepted, started, clock>>

\* SESSION_WINDOW_SECONDS pass without a write to c.
LeaveWindow(c) ==
    /\ conv[c].recent
    /\ conv' = [conv EXCEPT ![c].recent = FALSE]
    /\ UNCHANGED <<customer, assignee, event, rows, lock, turn, agent, textTurns,
                   accepted, started, clock>>

-----------------------------------------------------------------------------
(* Requests of agents                                                      *)

Begin(a, request) ==
    /\ agent[a] = NoRequest
    /\ request.op \in AgentOps
    /\ started.requests < MaxRequests
    /\ started' = [started EXCEPT !.requests = @ + 1]
    /\ agent' = [agent EXCEPT ![a] = request]
    /\ UNCHANGED <<dbVars, lock, turn, textTurns, accepted, clock>>

Finish(a) ==
    /\ agent' = [agent EXCEPT ![a] = NoRequest]
    /\ UNCHANGED <<customer, lock, turn, textTurns, started>>

\* Variant: the status is not checked.
ReadForAcceptAnyway(a, e) ==
    /\ event[e].status # "none"
    /\ Begin(a, [NoRequest EXCEPT !.op = "accept", !.target = e])

\* POST /escalations/{e}/accept: SELECT (no FOR UPDATE); 400 unless pending.
ReadForAccept(a, e) ==
    /\ event[e].status = "pending"
    /\ Begin(a, [NoRequest EXCEPT !.op = "accept", !.target = e])

\* service.accept_escalation: absolute values, whatever happened since, and the
\* conversation is given to the same agent.
Accept(a) ==
    /\ agent[a].op = "accept"
    /\ event' = [event EXCEPT ![agent[a].target] =
                    [@ EXCEPT !.status = "accepted", !.by = a]]
    /\ assignee' = [assignee EXCEPT ![event[agent[a].target].conv] = a]
    /\ accepted' = [accepted EXCEPT ![agent[a].target] = @ + 1]
    /\ Finish(a)
    /\ UNCHANGED <<conv, rows, clock>>

\* POST /escalations/{e}/resolve: 400 unless pending or accepted, by anybody.
ReadForResolve(a, e) ==
    /\ event[e].status \in {"pending", "accepted"}
    /\ Begin(a, [NoRequest EXCEPT !.op = "resolve", !.target = e])

\* service.resolve_escalation: the event and its conversation.
Resolve(a) ==
    /\ agent[a].op = "resolve"
    /\ event' = [event EXCEPT ![agent[a].target].status = "resolved"]
    /\ conv' = [conv EXCEPT ![event[agent[a].target].conv].status = "resolved"]
    /\ Finish(a)
    /\ UNCHANGED <<assignee, rows, accepted, clock>>

\* POST /conversations/{c}/messages: the row is loaded.
ReadForReply(a, c) ==
    /\ conv[c].status # "none"
    /\ Begin(a, [op |-> "reply", target |-> c,
                 status |-> conv[c].status, count |-> conv[c].count])

\* Variant: message_count + 2, as in a turn.
ReplyCountsTwo(a) ==
    /\ agent[a].op = "reply"
    /\ conv' = [conv EXCEPT ![agent[a].target] =
                   [@ EXCEPT !.count = agent[a].count + 2, !.at = clock + 1]]
    /\ rows' = [rows EXCEPT ![agent[a].target] = @ + 1]
    /\ clock' = clock + 1
    /\ Finish(a)
    /\ UNCHANGED <<assignee, event, accepted>>

\* agent_reply: message_count + 1 on the loaded value; resolves, or takes a
\* waiting conversation back to active. The escalation event is not touched.
Reply(a) ==
    /\ agent[a].op = "reply"
    /\ \E status \in {IF agent[a].status = "resolved"
                      THEN conv[agent[a].target].status ELSE "resolved",
                      IF agent[a].status = "waiting_agent"
                      THEN "active" ELSE conv[agent[a].target].status} :
          conv' = [conv EXCEPT ![agent[a].target] =
                      [status |-> status, count |-> agent[a].count + 1,
                       at |-> clock + 1, recent |-> TRUE]]
    /\ rows' = [rows EXCEPT ![agent[a].target] = @ + 1]
    /\ clock' = clock + 1
    /\ Finish(a)
    /\ UNCHANGED <<assignee, event, accepted>>

\* PATCH /conversations/{c}: any status and any assignee, no check.
Patch(a, c) ==
    /\ agent[a] = NoRequest
    /\ started.requests < MaxRequests
    /\ started' = [started EXCEPT !.requests = @ + 1]
    /\ conv[c].status # "none"
    /\ \/ /\ \E status \in PatchTo : conv' = [conv EXCEPT ![c].status = status]
          /\ UNCHANGED assignee
       \/ /\ \E b \in Agents : assignee' = [assignee EXCEPT ![c] = b]
          /\ UNCHANGED conv
    /\ UNCHANGED <<customer, event, rows, lock, turn, agent, textTurns, accepted, clock>>

-----------------------------------------------------------------------------
Init ==
    /\ customer = [present |-> FALSE, total |-> 0]
    /\ conv = [c \in Ids |-> NoConv]
    /\ assignee = [c \in Ids |-> NoOne]
    /\ event = [e \in Ids |-> NoEvent]
    /\ lock = NoOne
    /\ turn = [w \in Workers |-> NoTurn]
    /\ agent = [a \in Agents |-> NoRequest]
    /\ rows = [c \in Ids |-> 0]
    /\ textTurns = 0
    /\ accepted = [e \in Ids |-> 0]
    /\ started = [turns |-> 0, requests |-> 0]
    /\ clock = 0

WorkerStep(w) ==
    \/ SelectCustomer(w) \/ InsertCustomer(w) \/ CustomerExists(w)
    \/ SelectConversation(w) \/ LockCustomer(w)
    \/ CommitAnswer(w) \/ CommitEscalation(w) \/ CommitImage(w) \/ CommitFallback(w)
    \/ FailTurn(w)

AgentStep(a) ==
    \/ Accept(a) \/ Resolve(a) \/ Reply(a)
    \/ \E id \in Ids : \/ ReadForAccept(a, id) \/ ReadForResolve(a, id)
                       \/ ReadForReply(a, id) \/ Patch(a, id)

Next ==
    \/ \E w \in Workers : WorkerStep(w)
    \/ \E a \in Agents : AgentStep(a)
    \/ \E c \in Ids : LeaveWindow(c)

Spec == Init /\ [][Next]_vars

-----------------------------------------------------------------------------
(* Properties                                                              *)

TypeOK ==
    /\ customer \in [present : BOOLEAN, total : Nat]
    /\ conv \in [Ids -> [status : {"none", "active", "waiting_agent", "resolved"},
                         count : Nat, at : Nat, recent : BOOLEAN]]
    /\ assignee \in [Ids -> Agents \cup {NoOne}]
    /\ event \in [Ids -> [status : {"none", "pending", "accepted", "resolved"},
                          conv : Ids \cup {0}, by : Agents \cup {NoOne}]]
    /\ lock \in Workers \cup {NoOne}
    /\ turn \in [Workers -> [pc : {"idle", "new", "known", "loaded", "answering"},
                             id : Ids \cup {0}, total : Nat,
                             conv : Ids \cup {0}, count : Nat]]
    /\ \A w \in Workers : /\ turn[w].pc # "idle" => turn[w].id \in Ids
                          /\ turn[w].pc \in {"loaded", "answering"} => turn[w].conv \in Ids
    /\ agent \in [Agents -> [op : {"none", "accept", "resolve", "reply"},
                             target : Ids \cup {0},
                             status : {"none", "active", "waiting_agent", "resolved"},
                             count : Nat]]
    /\ \A a \in Agents : agent[a].op # "none" => agent[a].target \in Ids
    /\ rows \in [Ids -> Nat] /\ accepted \in [Ids -> Nat]
    /\ textTurns \in Nat /\ clock \in Nat
    /\ started \in [turns : 0 .. MaxTurns, requests : 0 .. MaxRequests]

\* message_count is written from loaded values, so updates get lost; it never
\* runs ahead of the messages stored in the conversation.
CountWithinRows == \A c \in Ids : conv[c].count <= rows[c]

\* Likewise total_conversations of the customer, from which the tier follows,
\* never exceeds the turns that were committed.
TotalWithinTurns == customer.total <= textTurns

\* No count is ever ahead of what it counts, whatever is lost to overlapping turns
\* and replies.
CountsNeverAhead == CountWithinRows /\ TotalWithinTurns

\* A conversation that waits for an agent has an escalation somebody can still
\* pick up or resolve, however turns and agents race: no customer waits outside
\* the queue, unless somebody sets that status by PATCH.
WaitingIsQueued ==
    "waiting_agent" \notin PatchTo =>
       \A c \in Ids : conv[c].status = "waiting_agent" =>
          \E e \in Ids : event[e].conv = c /\ event[e].status \in {"pending", "accepted"}

\* With one turn at a time and agents that only accept and resolve, a customer
\* has one open conversation.
OneOpen == \A c, d \in Open : c = d

\* ... and an escalation in the queue belongs to a waiting conversation.
QueuedIsWaiting ==
    \A e \in Ids : event[e].status \in {"pending", "accepted"} =>
                      conv[event[e].conv].status = "waiting_agent"

\* ... and the agent who owns an accepted escalation has its conversation.
OwnerIsAssigned ==
    \A e \in Ids : event[e].status = "accepted" => assignee[event[e].conv] = event[e].by

\* Documented: 400 when the escalation is already accepted. At most one accept
\* request per escalation succeeds.
AcceptedOnce == \A e \in Ids : accepted[e] <= 1

\* Documented: pending -> accepted -> resolved. A resolved escalation stays so.
ResolvedStays ==
    [][\A e \in Ids : event[e].status = "resolved" => event'[e].status = "resolved"]_vars

\* Documented: active -> waiting_agent -> active / resolved / expired. Nothing
\* leads from resolved back to waiting_agent.
ResolvedNeverWaits ==
    [][\A c \in Ids : conv[c].status = "resolved" => conv'[c].status # "waiting_agent"]_vars
=============================================================================
