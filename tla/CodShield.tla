------------------------------ MODULE CodShield ------------------------------
(***************************************************************************)
(* COD Shield: verification calls after a failed delivery.                  *)
(*                                                                          *)
(* A shipping webhook pushes a task to the Redis list cod_shield_calls; an  *)
(* outbound call worker pops it, stores an OutboundCall, dials over Twilio  *)
(* and stores the call's sid; Twilio reports the end of the call or a digit *)
(* the customer pressed to the API, which retries the call, falls back to   *)
(* WhatsApp or records the answer.                                          *)
(*                                                                          *)
(* Modelled for one order: records and calls of different orders share      *)
(* nothing but the list.  Calls are numbered in the order the workers take  *)
(* their tasks.  Twilio is external: it reports an end of a call as often   *)
(* as Deliveries allows, possibly to two handlers at once, and waits for    *)
(* the answer to a digit before the customer can press another.             *)
(***************************************************************************)
EXTENDS Naturals, Sequences

CONSTANTS
    Workers,       \* outbound_call_worker processes
    Handlers,      \* concurrent requests of Twilio to the API
    MaxAttempts,   \* OutboundCall.max_attempts (3)
    Sources,       \* workspace_id in the task: TRUE generic webhook, FALSE Salla, Shopify
    Deliveries,    \* how often Twilio may deliver a status callback
    Faults,        \* processes die, transactions and calls fail
    PushFaults,    \* LPUSH and SET fail; the code logs and goes on
    MaxTriggers,   \* bound: webhooks received
    MaxCalls       \* bound: calls

ASSUME CodShieldAssumption ==
    /\ MaxAttempts \in Nat \ {0}
    /\ Sources \subseteq BOOLEAN /\ Deliveries \subseteq Nat
    /\ Faults \in BOOLEAN /\ PushFaults \in BOOLEAN
    /\ MaxTriggers \in Nat /\ MaxCalls \in Nat

VARIABLES
    queue,         \* cod_shield_calls: LPUSH at the head, BRPOP at the tail
    worker,        \* [Workers -> locals of _process_task]
    record,        \* [Calls -> OutboundCall]
    mapping,       \* calls with a key cod_shield_call_sid:<sid>
    phone,         \* [Calls -> state of the call at Twilio]
    pending,       \* [Calls -> status callbacks Twilio has still to deliver]
    handler,       \* [Handlers -> locals of twilio_call_status, twilio_gather]
    sent,          \* [Calls -> retries, fallbacks and save-the-sales pushed for it]
    made,          \* [Attempts -> calls dialled as that attempt]
    triggers,      \* tasks pushed by webhooks
    taken          \* calls numbered so far

vars == <<queue, worker, record, mapping, phone, pending, handler, sent, made,
          triggers, taken>>

Calls    == 1 .. MaxCalls
Attempts == 1 .. MaxAttempts
Digits   == {"1", "2", "other"}

NoRecord == [status |-> "none", attempts |-> 0, sid |-> FALSE]
Resting  == [pc |-> "idle", call |-> 0, attempt |-> 0, stored |-> FALSE]
NoHandling == [pc |-> "idle", call |-> 0, attempts |-> 0, digit |-> "other"]

-----------------------------------------------------------------------------
(* Shipping webhooks                                                       *)

Task(known, attempt) == [workspace |-> known, attempt |-> attempt]

Push(task) == queue' = <<task>> \o queue

\* A status among VERIFICATION_TRIGGERS. The same event may arrive twice.
Trigger(known) ==
    /\ triggers < MaxTriggers
    /\ triggers' = triggers + 1
    /\ Push(Task(known, 1))
    /\ UNCHANGED <<worker, record, mapping, phone, pending, handler, sent, made, taken>>

-----------------------------------------------------------------------------
(* The worker                                                              *)

Step(w, pc) == worker' = [worker EXCEPT ![w].pc = pc]
Rest(w)     == worker' = [worker EXCEPT ![w] = Resting]

\* BRPOP: the task is in this process only.
TakeTask(w) ==
    /\ worker[w].pc = "idle" /\ queue # <<>>
    /\ LET task == queue[Len(queue)] IN
          /\ task.workspace /\ taken < MaxCalls
          /\ worker' = [worker EXCEPT ![w] = [pc |-> "taken", call |-> taken + 1,
                                              attempt |-> task.attempt, stored |-> FALSE]]
    /\ queue' = SubSeq(queue, 1, Len(queue) - 1)
    /\ taken' = taken + 1
    /\ UNCHANGED <<record, mapping, phone, pending, handler, sent, made, triggers>>

\* No workspace_id: logged and skipped.
SkipTask(w) ==
    /\ worker[w].pc = "idle" /\ queue # <<>>
    /\ ~queue[Len(queue)].workspace
    /\ queue' = SubSeq(queue, 1, Len(queue) - 1)
    /\ UNCHANGED <<worker, record, mapping, phone, pending, handler, sent, made, triggers, taken>>

\* First transaction.
CreateRecord(w) ==
    /\ worker[w].pc = "taken"
    /\ record' = [record EXCEPT ![worker[w].call] =
                     [status |-> "calling", attempts |-> worker[w].attempt, sid |-> FALSE]]
    /\ worker' = [worker EXCEPT ![w] = [@ EXCEPT !.pc = "stored", !.stored = TRUE]]
    /\ UNCHANGED <<queue, mapping, phone, pending, handler, sent, made, triggers, taken>>

\* Its failure is logged and the call is made all the same.
RecordFails(w) ==
    /\ Faults /\ worker[w].pc = "taken"
    /\ Step(w, "stored")
    /\ UNCHANGED <<queue, record, mapping, phone, pending, handler, sent, made, triggers, taken>>

\* make_outbound_call; without a record that was all.
Dial(w) ==
    /\ worker[w].pc = "stored"
    /\ phone' = [phone EXCEPT ![worker[w].call] = "ringing"]
    /\ made' = [made EXCEPT ![worker[w].attempt] = @ + 1]
    /\ IF worker[w].stored THEN Step(w, "dialled") ELSE Rest(w)
    /\ UNCHANGED <<queue, record, mapping, pending, handler, sent, triggers, taken>>

DialFails(w) ==
    /\ Faults /\ worker[w].pc = "stored"
    /\ IF worker[w].stored THEN Step(w, "rejected") ELSE Rest(w)
    /\ UNCHANGED <<queue, record, mapping, phone, pending, handler, sent, made, triggers, taken>>

\* SET cod_shield_call_sid:<sid>, inside the second transaction and before its
\* commit; a failure is logged.
StoreMapping(w) ==
    /\ worker[w].pc = "dialled"
    /\ \/ mapping' = mapping \cup {worker[w].call}
       \/ PushFaults /\ UNCHANGED mapping
    /\ Step(w, "mapped")
    /\ UNCHANGED <<queue, record, phone, pending, handler, sent, made, triggers, taken>>

\* Commit of the second transaction.
CommitCall(w) ==
    /\ worker[w].pc = "mapped"
    /\ record' = [record EXCEPT ![worker[w].call] = [@ EXCEPT !.status = "calling", !.sid = TRUE]]
    /\ Rest(w)
    /\ UNCHANGED <<queue, mapping, phone, pending, handler, sent, made, triggers, taken>>

\* ... when the call was not made. Nothing is queued again.
CommitRejected(w) ==
    /\ worker[w].pc = "rejected"
    /\ record' = [record EXCEPT ![worker[w].call].status = "failed"]
    /\ Rest(w)
    /\ UNCHANGED <<queue, mapping, phone, pending, handler, sent, made, triggers, taken>>

\* The process dies, or the second transaction fails and is only logged.
WorkerFails(w) ==
    /\ Faults /\ worker[w].pc # "idle"
    /\ Rest(w)
    /\ UNCHANGED <<queue, record, mapping, phone, pending, handler, sent, made, triggers, taken>>

-----------------------------------------------------------------------------
(* The call, at Twilio                                                     *)

Answer(c) ==
    /\ phone[c] = "ringing"
    /\ phone' = [phone EXCEPT ![c] = "answered"]
    /\ UNCHANGED <<queue, worker, record, mapping, pending, handler, sent, made, triggers, taken>>

\* busy, no-answer, failed or canceled, and completed without another digit.
EndCall(c) ==
    /\ phone[c] \in {"ringing", "answered"}
    /\ phone' = [phone EXCEPT ![c] = IF @ = "ringing" THEN "unanswered" ELSE "done"]
    /\ \E n \in Deliveries : pending' = [pending EXCEPT ![c] = n]
    /\ UNCHANGED <<queue, worker, record, mapping, handler, sent, made, triggers, taken>>

\* What the TwiML of the gather response makes of the call.
AfterDigit(c, digit) ==
    IF digit = "other"
    THEN phone' = [phone EXCEPT ![c] = "answered"] /\ UNCHANGED pending
    ELSE /\ phone' = [phone EXCEPT ![c] = "done"]
         /\ \E n \in Deliveries : pending' = [pending EXCEPT ![c] = n]

-----------------------------------------------------------------------------
(* Callbacks                                                               *)

\* The workspace comes from Redis, the record from the database by its sid.
Known(c) == c \in mapping /\ record[c].sid

Arrives(h, c) ==
    /\ handler[h].pc = "idle" /\ pending[c] > 0
    /\ pending' = [pending EXCEPT ![c] = @ - 1]

Load(h, c, pc, digit) ==
    handler' = [handler EXCEPT ![h] = [pc |-> pc, call |-> c,
                                       attempts |-> record[c].attempts, digit |-> digit]]

HandlerDone(h) == handler' = [handler EXCEPT ![h] = NoHandling]

\* Variant: a completed call counts as unanswered.
LoadCompleted(h, c) ==
    /\ Arrives(h, c)
    /\ phone[c] \in {"unanswered", "done"} /\ Known(c)
    /\ Load(h, c, "failed", "other")
    /\ UNCHANGED <<queue, worker, record, mapping, phone, sent, made, triggers, taken>>

\* POST /call-status for a call that was not answered: load the record.
LoadFailed(h, c) ==
    /\ Arrives(h, c)
    /\ phone[c] = "unanswered" /\ Known(c)
    /\ Load(h, c, "failed", "other")
    /\ UNCHANGED <<queue, worker, record, mapping, phone, sent, made, triggers, taken>>

\* "completed" is left to the gather handler; a call without mapping or record
\* is logged. 200 either way.
IgnoreStatus(h, c) ==
    /\ Arrives(h, c)
    /\ phone[c] = "done" \/ ~Known(c)
    /\ UNCHANGED <<queue, worker, record, mapping, phone, handler, sent, made, triggers, taken>>

\* The UPDATE of the first flush locks the row until the commit.
RowFree(c) == \A h \in Handlers : ~(handler[h].pc = "pushed" /\ handler[h].call = c)

\* Variant: the attempt is not counted.
RetrySameAttempt(h) ==
    LET c == handler[h].call IN
    /\ handler[h].pc = "failed" /\ RowFree(c)
    /\ handler[h].attempts <= MaxAttempts
    /\ Push(Task(TRUE, handler[h].attempts))
    /\ sent' = [sent EXCEPT ![c].retry = @ + 1]
    /\ handler' = [handler EXCEPT ![h].pc = "pushed"]
    /\ UNCHANGED <<worker, record, mapping, phone, pending, made, triggers, taken>>

\* attempt_count < max_attempts: flush, then _requeue_call.
Retry(h) ==
    LET c == handler[h].call IN
    /\ handler[h].pc = "failed" /\ RowFree(c)
    /\ handler[h].attempts < MaxAttempts
    /\ Push(Task(TRUE, handler[h].attempts + 1))
    /\ sent' = [sent EXCEPT ![c].retry = @ + 1]
    /\ handler' = [handler EXCEPT ![h].pc = "pushed"]
    /\ UNCHANGED <<worker, record, mapping, phone, pending, made, triggers, taken>>

\* Variant: the fallback does not wait for the last attempt.
FallBackAtOnce(h) ==
    LET c == handler[h].call IN
    /\ handler[h].pc = "failed" /\ RowFree(c)
    /\ sent' = [sent EXCEPT ![c].fallback = @ + 1]
    /\ handler' = [handler EXCEPT ![h].pc = "pushed"]
    /\ UNCHANGED <<queue, worker, record, mapping, phone, pending, made, triggers, taken>>

\* ... else next_channel = "whatsapp", flush, then _schedule_whatsapp_fallback.
FallBack(h) ==
    LET c == handler[h].call IN
    /\ handler[h].pc = "failed" /\ RowFree(c)
    /\ handler[h].attempts >= MaxAttempts
    /\ sent' = [sent EXCEPT ![c].fallback = @ + 1]
    /\ handler' = [handler EXCEPT ![h].pc = "pushed"]
    /\ UNCHANGED <<queue, worker, record, mapping, phone, pending, made, triggers, taken>>

\* Either LPUSH fails and is only logged.
PushFails(h) ==
    /\ PushFaults /\ handler[h].pc = "failed" /\ RowFree(handler[h].call)
    /\ handler' = [handler EXCEPT ![h].pc = "pushed"]
    /\ UNCHANGED <<queue, worker, record, mapping, phone, pending, sent, made, triggers, taken>>

\* attempt_count += 1 on the loaded value, below the maximum.
NotAnswered(h) ==
    [record[handler[h].call] EXCEPT
        !.status = "no_answer",
        !.attempts = IF handler[h].attempts < MaxAttempts THEN handler[h].attempts + 1 ELSE @]

\* Variant: committed before anything is queued.
CommitFirst(h) ==
    /\ handler[h].pc \in {"failed", "pushed"}
    /\ record' = [record EXCEPT ![handler[h].call] = NotAnswered(h)]
    /\ HandlerDone(h)
    /\ UNCHANGED <<queue, worker, mapping, phone, pending, sent, made, triggers, taken>>

\* Commit: absolute values computed from the loaded record. (The two statuses
\* written here, no_answer and failed, are one in the model.)
CommitFailed(h) ==
    /\ handler[h].pc = "pushed"
    /\ record' = [record EXCEPT ![handler[h].call] = NotAnswered(h)]
    /\ HandlerDone(h)
    /\ UNCHANGED <<queue, worker, mapping, phone, pending, sent, made, triggers, taken>>

\* POST /gather: load the record.
LoadDigit(h, c, digit) ==
    /\ handler[h].pc = "idle" /\ phone[c] = "answered" /\ Known(c)
    /\ phone' = [phone EXCEPT ![c] = "waiting"]
    /\ Load(h, c, "digit", digit)
    /\ UNCHANGED <<queue, worker, record, mapping, pending, sent, made, triggers, taken>>

\* ... unknown call: only the TwiML is answered.
IgnoreDigit(h, c, digit) ==
    /\ handler[h].pc = "idle" /\ phone[c] = "answered" /\ ~Known(c)
    /\ AfterDigit(c, digit)
    /\ UNCHANGED <<queue, worker, record, mapping, handler, sent, made, triggers, taken>>

\* Digit 2: _schedule_save_the_sale, before the flush.
SaveTheSale(h) ==
    /\ handler[h].pc = "digit" /\ handler[h].digit = "2"
    /\ \/ sent' = [sent EXCEPT ![handler[h].call].save = @ + 1]
       \/ PushFaults /\ UNCHANGED sent
    /\ handler' = [handler EXCEPT ![h].pc = "decided"]
    /\ UNCHANGED <<queue, worker, record, mapping, phone, pending, made, triggers, taken>>

Decision(digit) ==
    CASE digit = "1" -> "confirmed" [] digit = "2" -> "cancelled" [] OTHER -> "calling"

\* Commit and answer.
CommitDigit(h) ==
    /\ handler[h].pc = "decided" \/ (handler[h].pc = "digit" /\ handler[h].digit # "2")
    /\ record' = [record EXCEPT ![handler[h].call].status = Decision(handler[h].digit)]
    /\ AfterDigit(handler[h].call, handler[h].digit)
    /\ HandlerDone(h)
    /\ UNCHANGED <<queue, worker, mapping, sent, made, triggers, taken>>

\* The transaction fails: logged, 200 or the TwiML all the same.
HandlerFails(h) ==
    /\ Faults /\ handler[h].pc # "idle"
    /\ HandlerDone(h)
    /\ IF handler[h].pc \in {"digit", "decided"}
       THEN AfterDigit(handler[h].call, handler[h].digit)
       ELSE UNCHANGED <<phone, pending>>
    /\ UNCHANGED <<queue, worker, record, mapping, sent, made, triggers, taken>>

-----------------------------------------------------------------------------
Init ==
    /\ queue = <<>>
    /\ worker = [w \in Workers |-> Resting]
    /\ record = [c \in Calls |-> NoRecord]
    /\ mapping = {}
    /\ phone = [c \in Calls |-> "none"]
    /\ pending = [c \in Calls |-> 0]
    /\ handler = [h \in Handlers |-> NoHandling]
    /\ sent = [c \in Calls |-> [retry |-> 0, fallback |-> 0, save |-> 0]]
    /\ made = [k \in Attempts |-> 0]
    /\ triggers = 0
    /\ taken = 0

WorkerStep(w) ==
    \/ TakeTask(w) \/ SkipTask(w) \/ CreateRecord(w) \/ RecordFails(w)
    \/ Dial(w) \/ DialFails(w) \/ StoreMapping(w)
    \/ CommitCall(w) \/ CommitRejected(w) \/ WorkerFails(w)

HandlerStep(h) ==
    \/ Retry(h) \/ FallBack(h) \/ PushFails(h) \/ CommitFailed(h)
    \/ SaveTheSale(h) \/ CommitDigit(h) \/ HandlerFails(h)

Callback(h, c) ==
    \/ LoadFailed(h, c) \/ IgnoreStatus(h, c)
    \/ \E digit \in Digits : LoadDigit(h, c, digit) \/ IgnoreDigit(h, c, digit)

Next ==
    \/ \E known \in Sources : Trigger(known)
    \/ \E w \in Workers : WorkerStep(w)
    \/ \E h \in Handlers : HandlerStep(h)
    \/ \E h \in Handlers, c \in Calls : Callback(h, c)
    \/ \E c \in Calls : Answer(c) \/ EndCall(c)

Spec == Init /\ [][Next]_vars

\* Workers loop, handlers run to their end, and Twilio ends calls and delivers.
FairSpec ==
    /\ Spec
    /\ \A w \in Workers : WF_vars(WorkerStep(w))
    /\ \A h \in Handlers : WF_vars(HandlerStep(h))
    /\ \A c \in Calls : /\ WF_vars(EndCall(c) /\ phone[c] = "ringing")
                        /\ WF_vars(\E h \in Handlers : LoadFailed(h, c) \/ IgnoreStatus(h, c))

-----------------------------------------------------------------------------
(* Properties                                                              *)

TypeOK ==
    /\ queue \in Seq([workspace : BOOLEAN, attempt : Attempts])
    /\ worker \in [Workers -> [pc : {"idle", "taken", "stored", "dialled", "mapped", "rejected"},
                               call : 0 .. MaxCalls, attempt : 0 .. MaxAttempts,
                               stored : BOOLEAN]]
    /\ \A w \in Workers : worker[w].pc # "idle" =>
                             worker[w].call \in Calls /\ worker[w].attempt \in Attempts
    /\ record \in [Calls -> [status : {"none", "calling", "failed", "no_answer",
                                       "confirmed", "cancelled"},
                             attempts : 0 .. MaxAttempts, sid : BOOLEAN]]
    /\ mapping \subseteq Calls
    /\ phone \in [Calls -> {"none", "ringing", "unanswered", "answered", "waiting", "done"}]
    /\ pending \in [Calls -> Nat]
    /\ handler \in [Handlers -> [pc : {"idle", "failed", "pushed", "digit", "decided"},
                                 call : 0 .. MaxCalls, attempts : 0 .. MaxAttempts,
                                 digit : Digits]]
    /\ \A h \in Handlers : handler[h].pc # "idle" => handler[h].call \in Calls
    /\ sent \in [Calls -> [retry : Nat, fallback : Nat, save : Nat]]
    /\ made \in [Attempts -> Nat]
    /\ triggers \in Nat /\ taken \in 0 .. MaxCalls

\* The WhatsApp fallback is queued for an order only after each of the
\* max_attempts calls was made.
FallbackAfterAllCalls ==
    (\E c \in Calls : sent[c].fallback > 0) => \A k \in Attempts : made[k] > 0

\* A customer is called at most once per attempt and webhook, however workers
\* and handlers fail, as long as Twilio reports the end of a call once.
CallsWithinTriggers == \A k \in Attempts : made[k] <= triggers

\* A call stored as not answered has its retry or its fallback queued: the push
\* comes before the commit (and LPUSH itself works).
FailedIsFollowed ==
    \A c \in Calls : record[c].status = "no_answer" => sent[c].retry + sent[c].fallback > 0

\* Likewise a cancelled order has its save-the-sale message queued.
CancelledIsSaved ==
    \A c \in Calls : record[c].status = "cancelled" => sent[c].save > 0

\* The customer's answer is final: no late or repeated status callback and no
\* worker that finishes late overwrites it.
AnswerStays ==
    [][\A c \in Calls : record[c].status \in {"confirmed", "cancelled"} =>
                           record'[c].status = record[c].status]_vars

\* Every webhook answered with "queued" leads to a first call.
EveryTriggerIsCalled == []<>(made[1] = triggers)

\* Comment in twilio_call_status: call failed, update the database and schedule
\* the next channel. Every call that was not answered is followed up.
EveryFailureIsFollowed ==
    \A c \in Calls : phone[c] = "unanswered" ~> sent[c].retry + sent[c].fallback > 0
=============================================================================
