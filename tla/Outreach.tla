------------------------------- MODULE Outreach -------------------------------
(***************************************************************************)
(* Messages the shop sends first, and the revenue it attributes to them:   *)
(*                                                                         *)
(*   GET  /churn-radar?auto_winback  scan customers, queue win-backs       *)
(*   POST /followups/process         mark what is due, list it             *)
(*   POST /webhooks/cart/abandoned   push three steps, then the active key *)
(*   POST /webhooks/cart/purchased   record a revenue event                *)
(*   POST /webhooks/zid              an order, in a background task        *)
(*   a turn of message_worker        an abandoned-sale follow-up           *)
(*                                                                         *)
(* Requests overlap: a win-back request looks at the queue once per        *)
(* customer and inserts when it commits; a process request reads what is   *)
(* due, marks it when it commits and lists it afterwards.                  *)
(***************************************************************************)
EXTENDS Naturals, FiniteSets, Sequences

CONSTANTS
    Calls,        \* handler tasks of the API processes
    Customers,
    Profile,      \* [Customers -> [tier, revenue, escalations]]
    Days,         \* days since a customer was last seen
    Thresholds,   \* values of inactive_days a reviewer asks for
    MaxPerRun,    \* max_per_run of schedule_winback_for_at_risk (10)
    Batch,        \* limit of process_due_followups (50)
    Orders,       \* orders of the shop
    MaxRequests,  \* bound: requests begun
    MaxRows,      \* bound: rows of follow_up_queue
    MaxSeconds,   \* bound: seconds the clock advances
    MaxDays       \* bound: changes of a customer's inactivity

ASSUME OutreachAssumption ==
    /\ Days \subseteq Nat /\ 0 \in Days /\ Thresholds \subseteq 7 .. 180
    /\ \A c \in Customers : Profile[c].revenue \in Nat /\ Profile[c].escalations \in Nat
    /\ MaxPerRun \in Nat \ {0} /\ Batch \in Nat \ {0} /\ MaxSeconds \in Nat
    /\ IsFiniteSet(Calls) /\ IsFiniteSet(Customers)

VARIABLES
    idle,      \* [Customers -> days since last_seen_at]
    queue,     \* committed rows of follow_up_queue, in order of insertion
    call,      \* [Calls -> locals of a handler]
    reports,   \* how many answers listed each row (history)
    pushed,    \* Redis list: [funnel -> [step -> entries]]
    active,    \* Redis keys funnel:<id>:active
    events,    \* rows of revenue_events, per order
    unlisted,  \* rows that became sent under a request that answered nobody (history)
    clock,     \* second of now(), part of a funnel's id
    count      \* requests begun, changes of inactivity

vars == <<idle, queue, call, reports, pushed, active, events, unlisted, clock, count>>

Funnels == 0 .. MaxSeconds
Steps == 1 .. 3

Idle == [pc |-> "idle", todo |-> <<>>, rows |-> {}, aborted |-> FALSE, funnel |-> 0]

Go(r, fields) ==
    /\ call' = [call EXCEPT ![r] = fields]
    /\ UNCHANGED <<idle, reports, clock>>

Finish(r) == call' = [call EXCEPT ![r] = Idle] /\ UNCHANGED <<idle, clock, count>>

Begin(r) ==
    /\ call[r].pc = "idle"
    /\ count.requests < MaxRequests
    /\ count' = [count EXCEPT !.requests = @ + 1]

-----------------------------------------------------------------------------
(* Win-backs *)

\* The first signal that applies decides; the levels of the others are never seen.
Risk(c, inactive) ==
    LET p == Profile[c] IN
    IF p.tier = "vip" /\ idle[c] >= inactive THEN "critical"
    ELSE IF p.revenue >= 500 /\ idle[c] >= 60 THEN "high"
    ELSE IF p.tier \in {"returning", "standard"} /\ idle[c] >= 90 THEN "medium"
    ELSE IF p.tier = "at_risk" /\ p.escalations >= 3 THEN "high"
    ELSE "none"

Ahead(c, d, inactive) ==
    LET a == Risk(c, inactive)  b == Risk(d, inactive) IN
    \/ a = "critical" /\ b = "high"
    \/ a = b /\ Profile[c].revenue > Profile[d].revenue

\* The first MaxPerRun alerts (equals in any order) are chosen before anyone asks who is queued already.
Chosen(inactive) ==
    LET atRisk == {c \in Customers : Risk(c, inactive) \in {"critical", "high"}}
        n == IF Cardinality(atRisk) < MaxPerRun THEN Cardinality(atRisk) ELSE MaxPerRun
    IN {s \in [1 .. n -> atRisk] :
           /\ \A i, j \in 1 .. n : i < j => s[i] # s[j] /\ ~Ahead(s[j], s[i], inactive)
           /\ \A c \in atRisk \ {s[i] : i \in 1 .. n} : \A i \in 1 .. n :
                 ~Ahead(c, s[i], inactive)}

\* GET /churn-radar?auto_winback=true: scan_for_churn_risk.
Scan(r) ==
    /\ Begin(r)
    /\ \E inactive \in Thresholds : \E chosen \in Chosen(inactive) :
          Go(r, [Idle EXCEPT !.pc = "winback", !.todo = chosen])
    /\ UNCHANGED <<queue, pushed, active, events, unlisted>>

PendingOf(c) == {i \in DOMAIN queue : queue[i].customer = c /\ queue[i].status = "pending"}

\* "Don't double-schedule": a look at what others have committed. A customer who is
\* not found any more, or has no conversation, is passed over too.
Consider(r) ==
    /\ call[r].pc = "winback" /\ call[r].todo # <<>>
    /\ LET c == Head(call[r].todo)
           queueable == IF PendingOf(c) = {} /\ ~call[r].aborted THEN {c} ELSE {}
       IN \E new \in {{}, queueable} :
             Go(r, [call[r] EXCEPT !.todo = Tail(@), !.rows = @ \cup new])
    /\ UNCHANGED <<queue, pushed, active, events, unlisted, count>>

\* A query fails: the exception is caught per customer, the transaction is lost.
QueryFails(r) ==
    /\ call[r].pc = "winback" /\ call[r].todo # <<>>
    /\ Go(r, [call[r] EXCEPT !.todo = Tail(@), !.aborted = TRUE])
    /\ UNCHANGED <<queue, pushed, active, events, unlisted, count>>

Row(c) == [customer |-> c, status |-> "pending", due |-> FALSE]

\* Every order in which the rows of a set may be inserted (the order of ids tells nothing).
Inserted(rows) ==
    {s \in [1 .. Cardinality(rows) -> rows] : {s[i] : i \in DOMAIN s} = rows}

\* Flush and commit; in an aborted transaction the flush is refused.
Winback(r) ==
    /\ call[r].pc = "winback" /\ call[r].todo = <<>>
    /\ \/ \E s \in Inserted(call[r].rows) :
             /\ ~call[r].aborted
             /\ Len(queue) + Len(s) <= MaxRows
             /\ queue' = queue \o [i \in DOMAIN s |-> Row(s[i])]
             /\ reports' = reports \o [i \in DOMAIN s |-> 0]
       \/ call[r].aborted /\ UNCHANGED <<queue, reports>>
    /\ Finish(r)
    /\ UNCHANGED <<pushed, active, events, unlisted>>

-----------------------------------------------------------------------------
(* Follow-ups of turns, and processing what is due *)

\* Variant: the insert is committed with the turn.
TurnEndsCommitted(c) ==
    /\ count.days < MaxDays
    /\ count' = [count EXCEPT !.days = @ + 1]
    /\ idle' = [idle EXCEPT ![c] = 0]
    /\ Len(queue) < MaxRows
    /\ queue' = Append(queue, Row(c))
    /\ reports' = Append(reports, 0)
    /\ UNCHANGED <<call, pushed, active, events, unlisted, clock>>

\* A turn ends, its transaction is committed, and only then is the follow-up
\* inserted: in a transaction of the same session that nobody commits. The log
\* says it is scheduled.
TurnEnds(c) ==
    /\ count.days < MaxDays
    /\ count' = [count EXCEPT !.days = @ + 1]
    /\ idle' = [idle EXCEPT ![c] = 0]
    /\ UNCHANGED <<queue, call, reports, pushed, active, events, unlisted, clock>>

\* Days pass without a message of c.
StaysAway(c) ==
    /\ count.days < MaxDays
    /\ count' = [count EXCEPT !.days = @ + 1]
    /\ \E d \in Days : d > idle[c] /\ idle' = [idle EXCEPT ![c] = d]
    /\ UNCHANGED <<queue, call, reports, pushed, active, events, unlisted, clock>>

\* The hour of scheduled_at comes.
FallsDue(i) ==
    /\ queue[i].status = "pending" /\ ~queue[i].due
    /\ queue' = [queue EXCEPT ![i].due = TRUE]
    /\ UNCHANGED <<idle, call, reports, pushed, active, events, unlisted, clock, count>>

DueRows == {i \in DOMAIN queue : queue[i].status = "pending" /\ queue[i].due}

\* POST /followups/process: process_due_followups selects at most Batch rows.
Select(r) ==
    /\ Begin(r)
    /\ \E rows \in SUBSET DueRows :
          /\ Cardinality(rows) <= Batch
          /\ Cardinality(rows) < Batch => rows = DueRows
          /\ Go(r, [Idle EXCEPT !.pc = "process", !.rows = rows])
    /\ UNCHANGED <<queue, pushed, active, events, unlisted>>

\* The commit, on leaving the session: every row read is sent. Nothing sends it.
Process(r) ==
    /\ call[r].pc = "process"
    /\ queue' = [i \in DOMAIN queue |->
                    IF i \in call[r].rows THEN [queue[i] EXCEPT !.status = "sent"] ELSE queue[i]]
    /\ Go(r, [call[r] EXCEPT !.pc = "answering"])
    /\ UNCHANGED <<pushed, active, events, unlisted, count>>

\* The rows an answer lists.
Listed(r) == call[r].rows

\* Then the answer, which lists what was read.
Answer(r) ==
    /\ call[r].pc = "answering"
    /\ reports' = [i \in DOMAIN reports |->
                      IF i \in Listed(r) THEN reports[i] + 1 ELSE reports[i]]
    /\ Finish(r)
    /\ UNCHANGED <<queue, pushed, active, events, unlisted>>

\* What nobody will list if r ends here.
Left(r) == unlisted \cup (IF call[r].pc = "answering" THEN call[r].rows ELSE {})

\* The statement or the commit is refused, or the commit is made and its
\* acknowledgment lost: the request answers 500.
ProcessFails(r) ==
    /\ call[r].pc \in {"process", "answering"}
    /\ unlisted' = Left(r)
    /\ Finish(r)
    /\ UNCHANGED <<queue, reports, pushed, active, events>>

-----------------------------------------------------------------------------
(* Carts and revenue *)

\* Variant: the key that says the funnel is active is set first.
AbandonedActiveFirst(r) ==
    /\ Begin(r)
    /\ Go(r, [Idle EXCEPT !.pc = "funnel", !.todo = <<1, 2, 3>>, !.funnel = clock])
    /\ active' = active \cup {clock}
    /\ UNCHANGED <<queue, pushed, events, unlisted>>

\* POST /webhooks/cart/abandoned: two carts of a customer in a second share an id.
Abandoned(r) ==
    /\ Begin(r)
    /\ Go(r, [Idle EXCEPT !.pc = "funnel", !.todo = <<1, 2, 3>>, !.funnel = clock])
    /\ UNCHANGED <<queue, pushed, active, events, unlisted>>

\* One LPUSH.
Push(r) ==
    /\ call[r].pc = "funnel" /\ call[r].todo # <<>>
    /\ pushed' = [pushed EXCEPT ![call[r].funnel][Head(call[r].todo)] = @ + 1]
    /\ Go(r, [call[r] EXCEPT !.todo = Tail(@)])
    /\ UNCHANGED <<queue, active, events, unlisted, count>>

\* SET funnel:<id>:active, and the answer says three steps are scheduled.
Activate(r) ==
    /\ call[r].pc = "funnel" /\ call[r].todo = <<>>
    /\ active' = active \cup {call[r].funnel}
    /\ Finish(r)
    /\ UNCHANGED <<queue, reports, pushed, events, unlisted>>

\* Redis fails: steps pushed before stay, and the answer says success False.
FunnelFails(r) ==
    /\ call[r].pc = "funnel"
    /\ Finish(r)
    /\ UNCHANGED <<queue, reports, pushed, active, events, unlisted>>

\* After 72 hours the key expires. No code reads it or the list.
Expires(f) ==
    /\ f \in active
    /\ active' = active \ {f}
    /\ UNCHANGED <<idle, queue, call, reports, pushed, events, unlisted, clock, count>>

\* A cart is abandoned and then bought in the same second or in a later one.
Tick ==
    /\ clock < MaxSeconds
    /\ clock' = clock + 1
    /\ UNCHANGED <<idle, queue, call, reports, pushed, active, events, unlisted, count>>

\* POST /webhooks/cart/purchased, as often as the shop delivers it: the insert may
\* fail, which is only logged; the answer is the same. Funnels of the customer stay
\* as they are.
Purchased(r, o) ==
    /\ Begin(r)
    /\ \/ events' = [events EXCEPT ![o] = @ + 1]
       \/ UNCHANGED events
    /\ Go(r, Idle)
    /\ UNCHANGED <<queue, pushed, active, unlisted>>

\* POST /webhooks/zid: the task runs after the answer, if the process lives.
ZidOrder(r, o) ==
    /\ Begin(r)
    /\ \E event \in {"order.created", "order.paid", "order.delivered"} :
          Go(r, [Idle EXCEPT !.pc = event, !.todo = <<o>>])
    /\ UNCHANGED <<queue, pushed, active, events, unlisted>>

ZidEvents == {"order.paid", "order.delivered"}

\* The query that looks for the conversation names a bind parameter (phon, cut off
\* by the colons of the cast that follows) nobody gives: refused before it is
\* sent, whatever the order, and only logged.
Attributed(o) == events

ZidTask(r) ==
    /\ call[r].pc \in ZidEvents \cup {"order.created"}
    /\ events' = IF call[r].pc \in ZidEvents THEN Attributed(Head(call[r].todo)) ELSE events
    /\ Finish(r)
    /\ UNCHANGED <<queue, reports, pushed, active, unlisted>>

\* The process dies between two awaits of a handler.
Dies(r) ==
    /\ call[r].pc # "idle"
    /\ unlisted' = Left(r)
    /\ Finish(r)
    /\ UNCHANGED <<queue, reports, pushed, active, events>>

Init ==
    /\ idle = [c \in Customers |-> 0]
    /\ queue = <<>> /\ reports = <<>>
    /\ call = [r \in Calls |-> Idle]
    /\ pushed = [f \in Funnels |-> [s \in Steps |-> 0]]
    /\ active = {}
    /\ events = [o \in Orders |-> 0] /\ unlisted = {}
    /\ clock = 0
    /\ count = [requests |-> 0, days |-> 0]

Next ==
    \/ \E c \in Customers : TurnEnds(c) \/ StaysAway(c)
    \/ \E i \in DOMAIN queue : FallsDue(i)
    \/ \E f \in Funnels : Expires(f)
    \/ Tick
    \/ \E r \in Calls :
          \/ Scan(r) \/ Consider(r) \/ QueryFails(r) \/ Winback(r)
          \/ Select(r) \/ Process(r) \/ Answer(r) \/ ProcessFails(r)
          \/ Abandoned(r) \/ Push(r) \/ Activate(r) \/ FunnelFails(r)
          \/ ZidTask(r) \/ Dies(r)
          \/ \E o \in Orders : Purchased(r, o) \/ ZidOrder(r, o)

Spec == Init /\ [][Next]_vars

-----------------------------------------------------------------------------

Places == {"idle", "winback", "process", "answering", "funnel", "order.created"} \cup ZidEvents

\* Every variable has its type, and every handler the locals of its place.
TypeOK ==
    /\ idle \in [Customers -> Days]
    /\ queue \in Seq([customer : Customers, status : {"pending", "sent"}, due : BOOLEAN])
    /\ reports \in Seq(Nat) /\ Len(reports) = Len(queue)
    /\ call \in [Calls -> [pc : Places, todo : Seq(Customers \cup Orders \cup Steps),
                           rows : SUBSET (Customers \cup Nat), aborted : BOOLEAN,
                           funnel : Funnels]]
    /\ \A r \in Calls :
          /\ call[r].pc = "winback" => /\ call[r].todo \in Seq(Customers)
                                      /\ call[r].rows \subseteq Customers
          /\ call[r].pc \in {"process", "answering"} => call[r].rows \subseteq DOMAIN queue
          /\ call[r].pc = "funnel" =>
                call[r].todo \in {<<1, 2, 3>>, <<2, 3>>, <<3>>, <<>>}
    /\ pushed \in [Funnels -> [Steps -> Nat]]
    /\ active \subseteq Funnels
    /\ events \in [Orders -> Nat] /\ unlisted \subseteq Nat
    /\ clock \in Funnels
    /\ count \in [requests : Nat, days : Nat]

\* A funnel whose active key is set has each of its three messages in the list
\* (CartRecoveryFunnel.trigger: the key is the last write).
FunnelIsQueued == \A f \in active : \A s \in Steps : pushed[f][s] > 0
=============================================================================
