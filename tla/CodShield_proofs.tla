--------------------------- MODULE CodShield_proofs ---------------------------
(***************************************************************************)
(* Retries, fallbacks and answers of verification calls, for any number of  *)
(* workers, handlers, webhooks and attempts.                                *)
(***************************************************************************)
EXTENDS MCCodShield, FiniteSetTheorems, SequenceTheorems, TLAPS

TaskType   == [workspace : BOOLEAN, attempt : Attempts]
WorkerPc   == {"idle", "taken", "stored", "dialled", "mapped", "rejected"}
WorkerType == [pc : WorkerPc, call : 0 .. MaxCalls, attempt : 0 .. MaxAttempts,
               stored : BOOLEAN]
Statuses   == {"none", "calling", "failed", "no_answer", "confirmed", "cancelled"}
RecordType == [status : Statuses, attempts : 0 .. MaxAttempts, sid : BOOLEAN]
HandlerPc  == {"idle", "failed", "pushed", "digit", "decided"}
HandlerType == [pc : HandlerPc, call : 0 .. MaxCalls, attempts : 0 .. MaxAttempts,
                digit : Digits]
SentType   == [retry : Nat, fallback : Nat, save : Nat]
PhoneType  == {"none", "ringing", "unanswered", "answered", "waiting", "done"}

\* The parts of TypeOK, by variable.
QueueOK   == queue \in Seq(TaskType)
WorkerOK  == /\ worker \in [Workers -> WorkerType]
             /\ \A w \in Workers : worker[w].pc # "idle" =>
                                       worker[w].call \in Calls /\ worker[w].attempt \in Attempts
RecordOK  == record \in [Calls -> RecordType]
CallOK    == mapping \subseteq Calls /\ phone \in [Calls -> PhoneType] /\ pending \in [Calls -> Nat]
HandlerOK == /\ handler \in [Handlers -> HandlerType]
             /\ \A h \in Handlers : handler[h].pc # "idle" => handler[h].call \in Calls
SentOK    == sent \in [Calls -> SentType]
MadeOK    == made \in [Attempts -> Nat] /\ triggers \in Nat /\ taken \in 0 .. MaxCalls

LEMMA Parts ==
    TypeOK <=> QueueOK /\ WorkerOK /\ RecordOK /\ CallOK /\ HandlerOK /\ SentOK /\ MadeOK
  BY DEF TypeOK, QueueOK, WorkerOK, RecordOK, CallOK, HandlerOK, SentOK, MadeOK, TaskType,
         WorkerType, WorkerPc, RecordType, Statuses, HandlerType, HandlerPc, SentType, PhoneType

LEMMA PartsPrimed ==
    TypeOK' <=> QueueOK' /\ WorkerOK' /\ RecordOK' /\ CallOK' /\ HandlerOK' /\ SentOK' /\ MadeOK'
  BY DEF TypeOK, QueueOK, WorkerOK, RecordOK, CallOK, HandlerOK, SentOK, MadeOK, TaskType,
         WorkerType, WorkerPc, RecordType, Statuses, HandlerType, HandlerPc, SentType, PhoneType

-----------------------------------------------------------------------------
(* Type correctness                                                        *)

LEMMA TypeInit == Init => TypeOK
  BY CodShieldAssumption
     DEF Init, TypeOK, Resting, NoRecord, NoHandling, Calls, Attempts, Digits

\* Updates of one worker, record, handler or counter.
LEMMA StepType ==
    ASSUME WorkerOK, NEW w \in Workers, NEW p \in WorkerPc, worker[w].pc # "idle", Step(w, p)
    PROVE  /\ WorkerOK'
           /\ \A v \in Workers \ {w} : worker'[v] = worker[v]
           /\ worker'[w].pc = p /\ worker'[w].call = worker[w].call
           /\ worker'[w].attempt = worker[w].attempt /\ worker'[w].stored = worker[w].stored
  <1> DEFINE r == [worker[w] EXCEPT !.pc = p]
  <1>1. worker[w] \in WorkerType  BY DEF WorkerOK
  <1>2. /\ r \in WorkerType /\ r.pc = p /\ r.call = worker[w].call
        /\ r.attempt = worker[w].attempt /\ r.stored = worker[w].stored
    BY <1>1 DEF WorkerType
  <1>3. worker' = [worker EXCEPT ![w] = r]  BY DEF Step
  <1> HIDE DEF r
  <1>4. QED  BY <1>2, <1>3 DEF WorkerOK

LEMMA RestType ==
    ASSUME WorkerOK, NEW w \in Workers, Rest(w)
    PROVE  /\ WorkerOK' /\ worker'[w].pc = "idle"
           /\ \A v \in Workers \ {w} : worker'[v] = worker[v]
  <1>1. Resting \in WorkerType /\ Resting.pc = "idle"
    BY CodShieldAssumption DEF Resting, WorkerType, WorkerPc
  <1>2. QED  BY <1>1 DEF WorkerOK, Rest

LEMMA HandlerPcType ==
    ASSUME HandlerOK, NEW h \in Handlers, NEW p \in HandlerPc, handler[h].pc # "idle",
           handler' = [handler EXCEPT ![h].pc = p]
    PROVE  /\ HandlerOK'
           /\ \A g \in Handlers \ {h} : handler'[g] = handler[g]
           /\ handler'[h].pc = p /\ handler'[h].call = handler[h].call
           /\ handler'[h].attempts = handler[h].attempts /\ handler'[h].digit = handler[h].digit
  <1> DEFINE r == [handler[h] EXCEPT !.pc = p]
  <1>1. handler[h] \in HandlerType  BY DEF HandlerOK
  <1>2. /\ r \in HandlerType /\ r.pc = p /\ r.call = handler[h].call
        /\ r.attempts = handler[h].attempts /\ r.digit = handler[h].digit
    BY <1>1 DEF HandlerType
  <1>3. handler' = [handler EXCEPT ![h] = r]  OBVIOUS
  <1> HIDE DEF r
  <1>4. QED  BY <1>2, <1>3 DEF HandlerOK

LEMMA HandlerDoneType ==
    ASSUME HandlerOK, NEW h \in Handlers, HandlerDone(h)
    PROVE  /\ HandlerOK' /\ handler'[h].pc = "idle"
           /\ \A g \in Handlers \ {h} : handler'[g] = handler[g]
  <1>1. NoHandling \in HandlerType /\ NoHandling.pc = "idle"
    BY CodShieldAssumption DEF NoHandling, HandlerType, HandlerPc, Digits
  <1>2. QED  BY <1>1 DEF HandlerOK, HandlerDone

LEMMA LoadType ==
    ASSUME HandlerOK, RecordOK, NEW h \in Handlers, NEW c \in Calls,
           NEW p \in {"failed", "digit"}, NEW d \in Digits, Load(h, c, p, d)
    PROVE  /\ HandlerOK'
           /\ handler'[h].pc = p /\ handler'[h].call = c /\ handler'[h].digit = d
           /\ handler'[h].attempts = record[c].attempts
           /\ \A g \in Handlers \ {h} : handler'[g] = handler[g]
  <1> DEFINE r == [pc |-> p, call |-> c, attempts |-> record[c].attempts, digit |-> d]
  <1>1. record[c].attempts \in 0 .. MaxAttempts  BY DEF RecordOK, RecordType
  <1>2. /\ r \in HandlerType /\ r.pc = p /\ r.call = c /\ r.digit = d
        /\ r.attempts = record[c].attempts
    BY <1>1, CodShieldAssumption DEF HandlerType, HandlerPc, Calls
  <1>3. handler' = [handler EXCEPT ![h] = r]  BY DEF Load
  <1> HIDE DEF r
  <1>4. HandlerOK' /\ handler'[h] = r /\ \A g \in Handlers \ {h} : handler'[g] = handler[g]
    BY <1>2, <1>3 DEF HandlerOK
  <1>5. QED  BY <1>2, <1>4

LEMMA StatusType ==
    ASSUME RecordOK, NEW c \in Calls, NEW s \in Statuses,
           record' = [record EXCEPT ![c].status = s]
    PROVE  /\ RecordOK' /\ record'[c].status = s
           /\ record'[c].attempts = record[c].attempts /\ record'[c].sid = record[c].sid
           /\ \A d \in Calls \ {c} : record'[d] = record[d]
  <1> DEFINE r == [record[c] EXCEPT !.status = s]
  <1>1. record[c] \in RecordType  BY DEF RecordOK
  <1>2. /\ r \in RecordType /\ r.status = s
        /\ r.attempts = record[c].attempts /\ r.sid = record[c].sid
    BY <1>1 DEF RecordType
  <1>3. record' = [record EXCEPT ![c] = r]  OBVIOUS
  <1> HIDE DEF r
  <1>4. QED  BY <1>2, <1>3 DEF RecordOK

\* CommitCall: the sid of the call is stored.
LEMMA CommitCallRecord ==
    ASSUME RecordOK, WorkerOK, NEW w \in Workers, CommitCall(w)
    PROVE  /\ RecordOK' /\ worker[w].call \in Calls
           /\ record'[worker[w].call].status = "calling" /\ record'[worker[w].call].sid
           /\ record'[worker[w].call].attempts = record[worker[w].call].attempts
           /\ \A d \in Calls \ {worker[w].call} : record'[d] = record[d]
  <1> DEFINE c == worker[w].call
             r == [record[c] EXCEPT !.status = "calling", !.sid = TRUE]
  <1>1. c \in Calls  BY DEF CommitCall, WorkerOK
  <1>2. record[c] \in RecordType  BY <1>1 DEF RecordOK
  <1>3. r \in RecordType /\ r.status = "calling" /\ r.sid /\ r.attempts = record[c].attempts
    BY <1>2 DEF RecordType, Statuses
  <1>4. record' = [record EXCEPT ![c] = r]  BY DEF CommitCall
  <1> HIDE DEF r
  <1>5. QED  BY <1>1, <1>3, <1>4 DEF RecordOK

\* CommitFailed: the attempt is counted.
LEMMA CommitFailedRecord ==
    ASSUME RecordOK, HandlerOK, NEW h \in Handlers, CommitFailed(h)
    PROVE  /\ RecordOK' /\ handler[h].call \in Calls
           /\ record'[handler[h].call].status = "no_answer"
           /\ record'[handler[h].call].sid = record[handler[h].call].sid
           /\ record'[handler[h].call].attempts = IF handler[h].attempts < MaxAttempts
                                                  THEN handler[h].attempts + 1
                                                  ELSE record[handler[h].call].attempts
           /\ \A d \in Calls \ {handler[h].call} : record'[d] = record[d]
  <1> DEFINE c == handler[h].call
             n == IF handler[h].attempts < MaxAttempts
                  THEN handler[h].attempts + 1 ELSE record[c].attempts
             r == [record[c] EXCEPT !.status = "no_answer", !.attempts = n]
  <1>1. c \in Calls /\ handler[h].attempts \in 0 .. MaxAttempts
    BY DEF CommitFailed, HandlerOK, HandlerType
  <1>2. record[c] \in RecordType  BY <1>1 DEF RecordOK
  <1>3. n \in 0 .. MaxAttempts  BY <1>1, <1>2, CodShieldAssumption DEF RecordType
  <1>4. record' = [record EXCEPT ![c] = r]  BY DEF CommitFailed, NotAnswered
  <1> HIDE DEF n
  <1>5. r \in RecordType /\ r.status = "no_answer" /\ r.sid = record[c].sid /\ r.attempts = n
    BY <1>2, <1>3 DEF RecordType, Statuses
  <1> HIDE DEF r
  <1>6. /\ RecordOK' /\ record'[c].status = "no_answer" /\ record'[c].sid = record[c].sid
        /\ record'[c].attempts = n /\ \A d \in Calls \ {c} : record'[d] = record[d]
    BY <1>1, <1>4, <1>5 DEF RecordOK
  <1>7. QED  BY <1>1, <1>6 DEF n

\* A push of kind k on behalf of call c.
LEMMA SentGrows ==
    ASSUME SentOK, NEW c \in Calls,
           \/ sent' = [sent EXCEPT ![c].retry = @ + 1]
           \/ sent' = [sent EXCEPT ![c].fallback = @ + 1]
           \/ sent' = [sent EXCEPT ![c].save = @ + 1]
    PROVE  /\ SentOK'
           /\ \A d \in Calls : /\ sent[d].retry <= sent'[d].retry
                                /\ sent[d].fallback <= sent'[d].fallback
                                /\ sent[d].save <= sent'[d].save
           /\ sent' = [sent EXCEPT ![c].retry = @ + 1] => sent'[c].retry > 0
           /\ sent' = [sent EXCEPT ![c].fallback = @ + 1] => sent'[c].fallback > 0
           /\ sent' = [sent EXCEPT ![c].save = @ + 1] => sent'[c].save > 0
           /\ sent' # [sent EXCEPT ![c].fallback = @ + 1] =>
                 \A d \in Calls : sent'[d].fallback = sent[d].fallback
  <1>1. sent[c] \in SentType  BY DEF SentOK
  <1> DEFINE p == [sent[c] EXCEPT !.retry = @ + 1]
             q == [sent[c] EXCEPT !.fallback = @ + 1]
             r == [sent[c] EXCEPT !.save = @ + 1]
  <1>2. /\ p \in SentType /\ p.retry = sent[c].retry + 1
        /\ p.fallback = sent[c].fallback /\ p.save = sent[c].save
    BY <1>1 DEF SentType
  <1>3. /\ q \in SentType /\ q.retry = sent[c].retry
        /\ q.fallback = sent[c].fallback + 1 /\ q.save = sent[c].save
    BY <1>1 DEF SentType
  <1>4. /\ r \in SentType /\ r.retry = sent[c].retry
        /\ r.fallback = sent[c].fallback /\ r.save = sent[c].save + 1
    BY <1>1 DEF SentType
  <1>5. /\ sent[c].retry \in Nat /\ sent[c].fallback \in Nat /\ sent[c].save \in Nat
        /\ \A d \in Calls : /\ sent[d].retry \in Nat /\ sent[d].fallback \in Nat
                             /\ sent[d].save \in Nat
    BY <1>1 DEF SentOK, SentType
  <1>6. /\ [sent EXCEPT ![c].retry = @ + 1] = [sent EXCEPT ![c] = p]
        /\ [sent EXCEPT ![c].fallback = @ + 1] = [sent EXCEPT ![c] = q]
        /\ [sent EXCEPT ![c].save = @ + 1] = [sent EXCEPT ![c] = r]
    OBVIOUS
  <1> HIDE DEF p, q, r
  <1>7. CASE sent' = [sent EXCEPT ![c] = p]  BY <1>2, <1>3, <1>4, <1>5, <1>6, <1>7 DEF SentOK
  <1>8. CASE sent' = [sent EXCEPT ![c] = q]  BY <1>2, <1>3, <1>4, <1>5, <1>6, <1>8 DEF SentOK
  <1>9. CASE sent' = [sent EXCEPT ![c] = r]  BY <1>2, <1>3, <1>4, <1>5, <1>6, <1>9 DEF SentOK
  <1>10. QED  BY <1>6, <1>7, <1>8, <1>9

LEMMA PushType ==
    ASSUME QueueOK, NEW known \in BOOLEAN, NEW k \in Attempts, Push(Task(known, k))
    PROVE  QueueOK'
  <1>1. Task(known, k) \in TaskType  BY DEF Task, TaskType
  <1>2. QED  BY <1>1 DEF QueueOK, Push

LEMMA PopType ==
    ASSUME QueueOK, queue # <<>>, queue' = SubSeq(queue, 1, Len(queue) - 1)
    PROVE  QueueOK' /\ queue[Len(queue)] \in TaskType
  <1>1. queue \in Seq(TaskType) /\ Len(queue) \in Nat /\ Len(queue) > 0  BY DEF QueueOK
  <1>2. QED  BY <1>1 DEF QueueOK

LEMMA AfterDigitType ==
    ASSUME CallOK, NEW c \in Calls, NEW d, AfterDigit(c, d)
    PROVE  /\ phone' \in [Calls -> PhoneType] /\ pending' \in [Calls -> Nat]
           /\ phone'[c] \in {"answered", "done"} /\ (phone'[c] = "answered" <=> d = "other")
           /\ \A b \in Calls \ {c} : phone'[b] = phone[b] /\ pending'[b] = pending[b]
  BY CodShieldAssumption DEF CallOK, AfterDigit, PhoneType

LEMMA TypeStep == TypeOK /\ [Next]_vars => TypeOK'
  <1> SUFFICES ASSUME TypeOK, [Next]_vars PROVE TypeOK'  OBVIOUS
  <1>0. QueueOK /\ WorkerOK /\ RecordOK /\ CallOK /\ HandlerOK /\ SentOK /\ MadeOK  BY Parts
  <1> SUFFICES QueueOK' /\ WorkerOK' /\ RecordOK' /\ CallOK' /\ HandlerOK' /\ SentOK' /\ MadeOK'
    BY PartsPrimed
  <1>k. /\ queue' = queue => QueueOK'
        /\ worker' = worker => WorkerOK'
        /\ record' = record => RecordOK'
        /\ mapping' = mapping /\ phone' = phone /\ pending' = pending => CallOK'
        /\ handler' = handler => HandlerOK'
        /\ sent' = sent => SentOK'
        /\ made' = made /\ triggers' = triggers /\ taken' = taken => MadeOK'
    BY <1>0 DEF QueueOK, WorkerOK, RecordOK, CallOK, HandlerOK, SentOK, MadeOK
  <1> DEFINE Goal == QueueOK' /\ WorkerOK' /\ RecordOK' /\ CallOK' /\ HandlerOK' /\ SentOK' /\ MadeOK'
  <1>1. ASSUME NEW known \in Sources, Trigger(known) PROVE Goal
    <2>1. known \in BOOLEAN /\ 1 \in Attempts  BY CodShieldAssumption DEF Attempts
    <2>2. QueueOK' /\ MadeOK'  BY <1>0, <1>1, <2>1, PushType DEF Trigger, MadeOK
    <2>3. QED  BY <1>k, <1>1, <2>2 DEF Trigger
  <1>2. ASSUME NEW w \in Workers, TakeTask(w) PROVE Goal
    <2> DEFINE r == [pc |-> "taken", call |-> taken + 1,
                     attempt |-> queue[Len(queue)].attempt, stored |-> FALSE]
    <2>1. QueueOK' /\ queue[Len(queue)].attempt \in Attempts
      BY <1>0, <1>2, PopType DEF TakeTask, TaskType
    <2>2. taken + 1 \in Calls /\ MadeOK'
      BY <1>0, <1>2, CodShieldAssumption DEF TakeTask, MadeOK, Calls
    <2>3. r \in WorkerType /\ r.call \in Calls /\ r.attempt \in Attempts
      BY <2>1, <2>2, CodShieldAssumption DEF WorkerType, WorkerPc, Calls, Attempts
    <2>4. worker' = [worker EXCEPT ![w] = r]  BY <1>2 DEF TakeTask
    <2> HIDE DEF r
    <2>5. WorkerOK'  BY <1>0, <2>3, <2>4 DEF WorkerOK
    <2>6. QED  BY <1>k, <1>2, <2>1, <2>2, <2>5 DEF TakeTask
  <1>3. ASSUME NEW w \in Workers, SkipTask(w) PROVE Goal
    BY <1>0, <1>k, <1>3, PopType DEF SkipTask
  <1>4. ASSUME NEW w \in Workers, CreateRecord(w) PROVE Goal
    <2>1. worker[w].call \in Calls /\ worker[w].attempt \in Attempts /\ worker[w] \in WorkerType
      BY <1>0, <1>4 DEF CreateRecord, WorkerOK
    <2> DEFINE q == [status |-> "calling", attempts |-> worker[w].attempt, sid |-> FALSE]
               r == [worker[w] EXCEPT !.pc = "stored", !.stored = TRUE]
    <2>2. q \in RecordType  BY <2>1 DEF RecordType, Statuses, Attempts
    <2>3. record' = [record EXCEPT ![worker[w].call] = q]  BY <1>4 DEF CreateRecord
    <2>4. r \in WorkerType /\ r.call = worker[w].call /\ r.attempt = worker[w].attempt
      BY <2>1 DEF WorkerType, WorkerPc
    <2>5. worker' = [worker EXCEPT ![w] = r]  BY <1>4 DEF CreateRecord
    <2> HIDE DEF q, r
    <2>6. RecordOK' /\ WorkerOK'  BY <1>0, <2>1, <2>2, <2>3, <2>4, <2>5 DEF RecordOK, WorkerOK
    <2>7. QED  BY <1>k, <1>4, <2>6 DEF CreateRecord
  <1>5. ASSUME NEW w \in Workers, RecordFails(w) PROVE Goal
    BY <1>0, <1>k, <1>5, StepType DEF RecordFails, WorkerPc
  <1>6. ASSUME NEW w \in Workers, Dial(w) PROVE Goal
    <2>1. worker[w].call \in Calls /\ worker[w].attempt \in Attempts
      BY <1>0, <1>6 DEF Dial, WorkerOK
    <2>2. CallOK' /\ MadeOK'  BY <1>0, <1>6, <2>1 DEF Dial, CallOK, MadeOK, PhoneType
    <2>3. WorkerOK'  BY <1>0, <1>6, StepType, RestType DEF Dial, WorkerPc
    <2>4. QED  BY <1>k, <1>6, <2>2, <2>3 DEF Dial
  <1>7. ASSUME NEW w \in Workers, DialFails(w) PROVE Goal
    BY <1>0, <1>k, <1>7, StepType, RestType DEF DialFails, WorkerPc
  <1>8. ASSUME NEW w \in Workers, StoreMapping(w) PROVE Goal
    <2>1. worker[w].call \in Calls  BY <1>0, <1>8 DEF StoreMapping, WorkerOK
    <2>2. CallOK'  BY <1>0, <1>8, <2>1 DEF StoreMapping, CallOK
    <2>3. WorkerOK'  BY <1>0, <1>8, StepType DEF StoreMapping, WorkerPc
    <2>4. QED  BY <1>k, <1>8, <2>2, <2>3 DEF StoreMapping
  <1>9. ASSUME NEW w \in Workers, CommitCall(w) PROVE Goal
    BY <1>0, <1>k, <1>9, CommitCallRecord, RestType DEF CommitCall
  <1>10. ASSUME NEW w \in Workers, CommitRejected(w) PROVE Goal
    <2>1. worker[w].call \in Calls  BY <1>0, <1>10 DEF CommitRejected, WorkerOK
    <2>2. RecordOK'  BY <1>0, <1>10, <2>1, StatusType DEF CommitRejected, Statuses
    <2>3. QED  BY <1>0, <1>k, <1>10, <2>2, RestType DEF CommitRejected
  <1>11. ASSUME NEW w \in Workers, WorkerFails(w) PROVE Goal
    BY <1>0, <1>k, <1>11, RestType DEF WorkerFails
  <1>12. ASSUME NEW c \in Calls, Answer(c) \/ EndCall(c) PROVE Goal
    <2>1. CallOK'  BY <1>0, <1>12, CodShieldAssumption DEF Answer, EndCall, CallOK, PhoneType
    <2>2. QED  BY <1>k, <1>12, <2>1 DEF Answer, EndCall
  <1>14. ASSUME NEW h \in Handlers, NEW c \in Calls, LoadFailed(h, c) PROVE Goal
    <2>1. CallOK'  BY <1>0, <1>14 DEF LoadFailed, Arrives, CallOK
    <2>2. HandlerOK'  BY <1>0, <1>14, LoadType DEF LoadFailed, Digits
    <2>3. QED  BY <1>k, <1>14, <2>1, <2>2 DEF LoadFailed
  <1>15. ASSUME NEW h \in Handlers, NEW c \in Calls, IgnoreStatus(h, c) PROVE Goal
    <2>1. CallOK'  BY <1>0, <1>15 DEF IgnoreStatus, Arrives, CallOK
    <2>2. QED  BY <1>k, <1>15, <2>1 DEF IgnoreStatus
  <1>16. ASSUME NEW h \in Handlers, Retry(h) PROVE Goal
    <2>1. handler[h].call \in Calls /\ handler[h].attempts \in 0 .. MaxAttempts
      BY <1>0, <1>16 DEF Retry, HandlerOK, HandlerType
    <2>2. handler[h].attempts + 1 \in Attempts
      BY <1>16, <2>1, CodShieldAssumption DEF Retry, Attempts
    <2>3. QueueOK'  BY <1>0, <1>16, <2>2, PushType DEF Retry
    <2>4. SentOK'  BY <1>0, <1>16, <2>1, SentGrows DEF Retry
    <2>5. HandlerOK'  BY <1>0, <1>16, HandlerPcType DEF Retry, HandlerPc
    <2>6. QED  BY <1>k, <1>16, <2>3, <2>4, <2>5 DEF Retry
  <1>17. ASSUME NEW h \in Handlers, FallBack(h) PROVE Goal
    <2>1. handler[h].call \in Calls  BY <1>0, <1>17 DEF FallBack, HandlerOK
    <2>2. SentOK'  BY <1>0, <1>17, <2>1, SentGrows DEF FallBack
    <2>3. HandlerOK'  BY <1>0, <1>17, HandlerPcType DEF FallBack, HandlerPc
    <2>4. QED  BY <1>k, <1>17, <2>2, <2>3 DEF FallBack
  <1>18. ASSUME NEW h \in Handlers, PushFails(h) PROVE Goal
    BY <1>0, <1>k, <1>18, HandlerPcType DEF PushFails, HandlerPc
  <1>19. ASSUME NEW h \in Handlers, CommitFailed(h) PROVE Goal
    BY <1>0, <1>k, <1>19, CommitFailedRecord, HandlerDoneType DEF CommitFailed
  <1>20. ASSUME NEW h \in Handlers, NEW c \in Calls, NEW d \in Digits, LoadDigit(h, c, d)
         PROVE  Goal
    <2>1. CallOK'  BY <1>0, <1>20 DEF LoadDigit, CallOK, PhoneType
    <2>2. HandlerOK'  BY <1>0, <1>20, LoadType DEF LoadDigit
    <2>3. QED  BY <1>k, <1>20, <2>1, <2>2 DEF LoadDigit
  <1>21. ASSUME NEW h \in Handlers, NEW c \in Calls, NEW d \in Digits, IgnoreDigit(h, c, d)
         PROVE  Goal
    <2>1. CallOK'  BY <1>0, <1>21, AfterDigitType DEF IgnoreDigit, CallOK
    <2>2. QED  BY <1>k, <1>21, <2>1 DEF IgnoreDigit
  <1>22. ASSUME NEW h \in Handlers, SaveTheSale(h) PROVE Goal
    <2>1. handler[h].call \in Calls  BY <1>0, <1>22 DEF SaveTheSale, HandlerOK
    <2>2. SentOK'  BY <1>0, <1>k, <1>22, <2>1, SentGrows DEF SaveTheSale
    <2>3. HandlerOK'  BY <1>0, <1>22, HandlerPcType DEF SaveTheSale, HandlerPc
    <2>4. QED  BY <1>k, <1>22, <2>2, <2>3 DEF SaveTheSale
  <1>23. ASSUME NEW h \in Handlers, CommitDigit(h) PROVE Goal
    <2>1. handler[h].call \in Calls /\ Decision(handler[h].digit) \in Statuses
      BY <1>0, <1>23 DEF CommitDigit, HandlerOK, Decision, Statuses
    <2>2. RecordOK'  BY <1>0, <1>23, <2>1, StatusType DEF CommitDigit
    <2>3. CallOK'  BY <1>0, <1>23, <2>1, AfterDigitType DEF CommitDigit, CallOK
    <2>4. HandlerOK'  BY <1>0, <1>23, HandlerDoneType DEF CommitDigit
    <2>5. QED  BY <1>k, <1>23, <2>2, <2>3, <2>4 DEF CommitDigit
  <1>24. ASSUME NEW h \in Handlers, HandlerFails(h) PROVE Goal
    <2>1. handler[h].call \in Calls  BY <1>0, <1>24 DEF HandlerFails, HandlerOK
    <2>2. CallOK'  BY <1>0, <1>k, <1>24, <2>1, AfterDigitType DEF HandlerFails, CallOK
    <2>3. HandlerOK'  BY <1>0, <1>24, HandlerDoneType DEF HandlerFails
    <2>4. QED  BY <1>k, <1>24, <2>2, <2>3 DEF HandlerFails
  <1>25. CASE UNCHANGED vars  BY <1>25, <1>k DEF vars
  <1>26. QED
    BY <1>1, <1>2, <1>3, <1>4, <1>5, <1>6, <1>7, <1>8, <1>9, <1>10, <1>11, <1>12,
       <1>14, <1>15, <1>16, <1>17, <1>18, <1>19, <1>20, <1>21, <1>22, <1>23, <1>24, <1>25
       DEF Next, WorkerStep, HandlerStep, Callback

\* Every reachable state is well typed; in particular no record and no task
\* counts more than MaxAttempts attempts.
THEOREM TypeCorrect == Spec => []TypeOK
  BY TypeInit, TypeStep, PTL DEF Spec

-----------------------------------------------------------------------------
(* Whose call it is                                                        *)

\* A call in the hands of a worker is in no other's, and has no sid yet.
OwnCalls ==
    /\ \A w \in Workers : worker[w].pc # "idle" =>
          /\ worker[w].call <= taken /\ ~record[worker[w].call].sid
          /\ \A v \in Workers \ {w} : worker[v].pc # "idle" => worker[v].call # worker[w].call
    /\ \A c \in Calls : c > taken => ~record[c].sid

\* A handler of a status callback handles a call that was not answered.
Unanswered ==
    \A h \in Handlers : handler[h].pc \in {"failed", "pushed"} =>
        phone[handler[h].call] = "unanswered" /\ record[handler[h].call].sid

\* A handler of a digit has the customer waiting, alone.
Waiting ==
    \A h \in Handlers : handler[h].pc \in {"digit", "decided"} =>
        /\ phone[handler[h].call] = "waiting" /\ record[handler[h].call].sid
        /\ \A g \in Handlers \ {h} : handler[g].pc \in {"digit", "decided"} =>
                                        handler[g].call # handler[h].call

Decided(c) == record[c].status \in {"confirmed", "cancelled"}

\* The customer answers once: the call is over.
Settled == \A c \in Calls : Decided(c) => phone[c] = "done" /\ record[c].sid

CallInv == OwnCalls /\ Unanswered /\ Waiting /\ Settled

LEMMA CallInit == Init => CallInv
  BY CodShieldAssumption
     DEF Init, CallInv, OwnCalls, Unanswered, Waiting, Settled, Decided, Resting, NoRecord,
         NoHandling, Calls

LEMMA CallStep ==
    ASSUME TypeOK, TypeOK', CallInv, [Next]_vars
    PROVE  CallInv' /\ \A c \in Calls : Decided(c) => record'[c].status = record[c].status
  <1>0. /\ QueueOK /\ WorkerOK /\ RecordOK /\ CallOK /\ HandlerOK /\ SentOK /\ MadeOK
        /\ OwnCalls /\ Unanswered /\ Waiting /\ Settled
    BY Parts DEF CallInv
  <1> DEFINE Stays == \A c \in Calls : Decided(c) => record'[c].status = record[c].status
             Goal == OwnCalls' /\ Unanswered' /\ Waiting' /\ Settled' /\ Stays
  <1> SUFFICES Goal  BY DEF CallInv
  <1>k. /\ worker' = worker /\ record' = record /\ taken' = taken => OwnCalls'
        /\ handler' = handler /\ phone' = phone /\ record' = record => Unanswered' /\ Waiting'
        /\ phone' = phone /\ record' = record => Settled'
        /\ record' = record => Stays
    BY <1>0 DEF OwnCalls, Unanswered, Waiting, Settled, Decided
  <1> HIDE DEF Stays
  \* A worker that goes on with its call, or rests.
  <1>w. ASSUME NEW w \in Workers, record' = record, taken' = taken,
               \/ worker'[w].pc = "idle"
               \/ worker[w].pc # "idle" /\ worker'[w].call = worker[w].call,
               \A v \in Workers \ {w} : worker'[v] = worker[v]
        PROVE  OwnCalls'
    BY <1>0, <1>w DEF OwnCalls
  \* A worker that writes the record of its call and goes on, or rests.
  <1>o. ASSUME NEW w \in Workers, worker[w].pc # "idle", taken' = taken,
               \/ worker'[w].pc = "idle"
               \/ worker'[w].call = worker[w].call /\ ~record'[worker[w].call].sid,
               \A v \in Workers \ {w} : worker'[v] = worker[v],
               \A d \in Calls \ {worker[w].call} : record'[d] = record[d]
        PROVE  OwnCalls'
    <2>1. /\ worker[w].call \in Calls /\ worker[w].call <= taken
          /\ taken \in Nat /\ worker[w].call \in Nat
      BY <1>0, <1>o DEF OwnCalls, WorkerOK, MadeOK, Calls
    <2>2. \A v \in Workers \ {w} : worker[v].pc # "idle" =>
             /\ worker[v].call # worker[w].call /\ worker[v].call \in Calls
             /\ worker[v].call <= taken /\ ~record[worker[v].call].sid
      BY <1>0, <1>o DEF OwnCalls, WorkerOK
    <2>3. \A v \in Workers \ {w} : worker[v].pc # "idle" =>
             record'[worker[v].call] = record[worker[v].call]
      BY <1>o, <2>2
    <2>4. \A c \in Calls : c > taken => ~record'[c].sid
      <3> SUFFICES ASSUME NEW c \in Calls, c > taken PROVE ~record'[c].sid  OBVIOUS
      <3>1. c # worker[w].call  BY <2>1 DEF Calls
      <3>2. QED  BY <1>0, <1>o, <3>1 DEF OwnCalls
    <2>5. \A v \in Workers : worker'[v].pc # "idle" =>
             /\ worker'[v].call <= taken' /\ ~record'[worker'[v].call].sid
      BY <1>o, <2>1, <2>2, <2>3
    <2>6. \A u \in Workers : worker'[u].pc # "idle" =>
             \A v \in Workers \ {u} : worker'[v].pc # "idle" => worker'[v].call # worker'[u].call
      BY <1>0, <1>o, <2>2 DEF OwnCalls
    <2>7. QED  BY <1>o, <2>4, <2>5, <2>6 DEF OwnCalls
  <1>1. ASSUME NEW known \in Sources, Trigger(known) PROVE Goal
    BY <1>k, <1>1 DEF Trigger
  <1>2. ASSUME NEW w \in Workers, TakeTask(w) PROVE Goal
    <2> DEFINE r == [pc |-> "taken", call |-> taken + 1,
                     attempt |-> queue[Len(queue)].attempt, stored |-> FALSE]
    <2>0. /\ taken' = taken + 1 /\ taken + 1 \in Calls /\ record' = record /\ taken \in Nat
          /\ worker' = [worker EXCEPT ![w] = r] /\ r.call = taken + 1
      BY <1>0, <1>2, CodShieldAssumption DEF TakeTask, MadeOK, Calls
    <2> HIDE DEF r
    <2>1. /\ worker'[w].call = taken + 1 /\ taken' = taken + 1 /\ taken + 1 \in Calls
          /\ \A v \in Workers \ {w} : worker'[v] = worker[v]
          /\ record' = record /\ taken \in Nat
      BY <1>0, <2>0 DEF WorkerOK
    <2>2. \A v \in Workers : worker[v].pc # "idle" => worker[v].call \in Nat
      BY <1>0 DEF WorkerOK, Calls
    <2>3. \A c \in Calls : c \in Nat  BY DEF Calls
    <2>4. OwnCalls'  BY <1>0, <2>1, <2>2, <2>3 DEF OwnCalls
    <2>5. QED  BY <1>k, <1>2, <2>4 DEF TakeTask
  <1>3. ASSUME NEW w \in Workers, SkipTask(w) PROVE Goal
    BY <1>k, <1>3 DEF SkipTask
  \* A worker that writes the record of its own call.
  <1>r. ASSUME NEW w \in Workers, worker[w].pc # "idle", taken' = taken, phone' = phone,
               handler' = handler, \A d \in Calls \ {worker[w].call} : record'[d] = record[d],
               record'[worker[w].call].status \notin {"confirmed", "cancelled"}
        PROVE  Unanswered' /\ Waiting' /\ Settled' /\ Stays
    <2>1. worker[w].call \in Calls /\ ~record[worker[w].call].sid
      BY <1>0, <1>r DEF WorkerOK, OwnCalls
    <2>2. \A h \in Handlers : handler[h].pc # "idle" =>
             handler[h].call \in Calls /\ record[handler[h].call].sid
      BY <1>0 DEF HandlerOK, HandlerType, HandlerPc, Unanswered, Waiting
    <2>3. \A h \in Handlers : handler[h].pc # "idle" =>
             record'[handler[h].call] = record[handler[h].call]
      BY <1>r, <2>1, <2>2
    <2>4. Unanswered' /\ Waiting'  BY <1>0, <1>r, <2>3 DEF Unanswered, Waiting
    <2>5. Settled' /\ Stays
      BY <1>0, <1>r, <2>1 DEF Settled, Decided, Stays
    <2>6. QED  BY <2>4, <2>5
  <1>4. ASSUME NEW w \in Workers, CreateRecord(w) PROVE Goal
    <2> DEFINE c == worker[w].call
    <2>1. c \in Calls /\ worker[w] \in WorkerType  BY <1>0, <1>4 DEF CreateRecord, WorkerOK
    <2>2. /\ \A d \in Calls \ {c} : record'[d] = record[d]
          /\ record'[c].status = "calling" /\ ~record'[c].sid
      BY <1>0, <1>4, <2>1 DEF CreateRecord, RecordOK
    <2>3. /\ worker'[w].call = c
          /\ \A v \in Workers \ {w} : worker'[v] = worker[v]
      BY <1>0, <1>4, <2>1 DEF CreateRecord, WorkerOK, WorkerType
    <2>4. OwnCalls'
      BY <1>4, <1>o, <2>2, <2>3 DEF CreateRecord
    <2>6. QED  BY <1>4, <1>r, <2>2, <2>4 DEF CreateRecord
  <1>5. ASSUME NEW w \in Workers, RecordFails(w) PROVE Goal
    BY <1>0, <1>k, <1>w, <1>5, StepType DEF RecordFails, WorkerPc
  \* A call is dialled or ended: nobody handles it.
  <1>p. ASSUME NEW c \in Calls, phone[c] \notin {"unanswered", "waiting", "done"},
               handler' = handler, record' = record,
               \A d \in Calls \ {c} : phone'[d] = phone[d]
        PROVE  Unanswered' /\ Waiting' /\ Settled' /\ Stays
    <2>1. \A h \in Handlers : handler[h].pc # "idle" =>
             handler[h].call \in Calls /\ handler[h].call # c
      BY <1>0, <1>p DEF HandlerOK, HandlerType, HandlerPc, Unanswered, Waiting
    <2>2. Unanswered' /\ Waiting'  BY <1>0, <1>p, <2>1 DEF Unanswered, Waiting
    <2>3. Settled' /\ Stays  BY <1>0, <1>p DEF Settled, Decided, Stays
    <2>4. QED  BY <2>2, <2>3
  <1>6. ASSUME NEW w \in Workers, Dial(w) PROVE Goal
    <2> DEFINE c == worker[w].call
    <2>1. c \in Calls /\ ~record[c].sid /\ record' = record /\ handler' = handler /\ taken' = taken
      BY <1>0, <1>6 DEF Dial, WorkerOK, OwnCalls
    <2>2. \A d \in Calls \ {c} : phone'[d] = phone[d]  BY <1>0, <1>6 DEF Dial, CallOK
    <2>3. \A h \in Handlers : handler[h].pc # "idle" =>
             handler[h].call \in Calls /\ handler[h].call # c
      BY <1>0, <2>1 DEF HandlerOK, HandlerType, HandlerPc, Unanswered, Waiting
    <2>4. Unanswered' /\ Waiting'  BY <1>0, <2>1, <2>2, <2>3 DEF Unanswered, Waiting
    <2>5. Settled'  BY <1>0, <2>1, <2>2 DEF Settled, Decided
    <2>6. /\ worker'[w].pc = "idle" \/ (worker[w].pc # "idle" /\ worker'[w].call = worker[w].call)
          /\ \A v \in Workers \ {w} : worker'[v] = worker[v]
      BY <1>0, <1>6, StepType, RestType DEF Dial, WorkerPc
    <2>7. OwnCalls'  BY <1>w, <2>1, <2>6
    <2>8. QED  BY <1>k, <2>1, <2>4, <2>5, <2>7
  <1>7. ASSUME NEW w \in Workers, DialFails(w) PROVE Goal
    BY <1>0, <1>k, <1>w, <1>7, StepType, RestType DEF DialFails, WorkerPc
  <1>8. ASSUME NEW w \in Workers, StoreMapping(w) PROVE Goal
    BY <1>0, <1>k, <1>w, <1>8, StepType DEF StoreMapping, WorkerPc
  <1>9. ASSUME NEW w \in Workers, CommitCall(w) PROVE Goal
    <2> DEFINE c == worker[w].call
    <2>1. /\ c \in Calls /\ \A d \in Calls \ {c} : record'[d] = record[d]
          /\ record'[c].status = "calling"
      BY <1>0, <1>9, CommitCallRecord
    <2>2. /\ worker'[w].pc = "idle" /\ \A v \in Workers \ {w} : worker'[v] = worker[v]
      BY <1>0, <1>9, RestType DEF CommitCall
    <2>3. worker[w].pc # "idle" /\ taken' = taken  BY <1>9 DEF CommitCall
    <2>5. OwnCalls'  BY <1>o, <2>1, <2>2, <2>3
    <2>7. QED  BY <1>9, <1>r, <2>1, <2>3, <2>5 DEF CommitCall
  <1>10. ASSUME NEW w \in Workers, CommitRejected(w) PROVE Goal
    <2> DEFINE c == worker[w].call
    <2>1. c \in Calls /\ worker[w].pc # "idle"  BY <1>0, <1>10 DEF CommitRejected, WorkerOK
    <2>2. /\ \A d \in Calls \ {c} : record'[d] = record[d]
          /\ record'[c].status = "failed" /\ record'[c].sid = record[c].sid
      BY <1>0, <1>10, <2>1, StatusType DEF CommitRejected, Statuses
    <2>3. /\ worker'[w].pc = "idle" /\ \A v \in Workers \ {w} : worker'[v] = worker[v]
      BY <1>0, <1>10, RestType DEF CommitRejected
    <2>4. OwnCalls'
      BY <1>10, <1>o, <2>1, <2>2, <2>3 DEF CommitRejected
    <2>6. QED  BY <1>10, <1>r, <2>1, <2>2, <2>4 DEF CommitRejected
  <1>11. ASSUME NEW w \in Workers, WorkerFails(w) PROVE Goal
    BY <1>0, <1>k, <1>w, <1>11, RestType DEF WorkerFails
  <1>12. ASSUME NEW c \in Calls, Answer(c) \/ EndCall(c) PROVE Goal
    <2>1. phone[c] \in {"ringing", "answered"} /\ \A d \in Calls \ {c} : phone'[d] = phone[d]
      BY <1>0, <1>12 DEF Answer, EndCall, CallOK
    <2>2. handler' = handler /\ record' = record /\ worker' = worker /\ taken' = taken
      BY <1>12 DEF Answer, EndCall
    <2>3. QED  BY <1>k, <1>p, <2>1, <2>2
  <1>14. ASSUME NEW h \in Handlers, NEW c \in Calls, LoadFailed(h, c) PROVE Goal
    <2>0. Load(h, c, "failed", "other") /\ "failed" \in {"failed", "digit"} /\ "other" \in Digits
      BY <1>14 DEF LoadFailed, Digits
    <2>1. /\ handler'[h].pc = "failed" /\ handler'[h].call = c
          /\ \A g \in Handlers \ {h} : handler'[g] = handler[g]
      BY <1>0, <2>0, LoadType
    <2>2. Unanswered' /\ Waiting'
      BY <1>0, <1>14, <2>1 DEF LoadFailed, Known, Unanswered, Waiting
    <2>3. QED  BY <1>k, <1>14, <2>2 DEF LoadFailed
  <1>15. ASSUME NEW h \in Handlers, NEW c \in Calls, IgnoreStatus(h, c) PROVE Goal
    BY <1>k, <1>15 DEF IgnoreStatus
  \* A handler that goes on with its call.
  <1>h. ASSUME NEW h \in Handlers, NEW p \in {"pushed", "decided"},
               p = "pushed" => handler[h].pc = "failed",
               p = "decided" => handler[h].pc = "digit",
               handler' = [handler EXCEPT ![h].pc = p], record' = record, phone' = phone
        PROVE  Unanswered' /\ Waiting' /\ Settled' /\ Stays
    <2>1. /\ \A g \in Handlers \ {h} : handler'[g] = handler[g]
          /\ handler'[h].pc = p /\ handler'[h].call = handler[h].call
      BY <1>0, <1>h, HandlerPcType DEF HandlerPc
    <2>2. Unanswered' /\ Waiting'  BY <1>0, <1>h, <2>1 DEF Unanswered, Waiting
    <2>3. QED  BY <1>k, <1>h, <2>2
  <1>16. ASSUME NEW h \in Handlers, Retry(h) PROVE Goal
    BY <1>k, <1>h, <1>16 DEF Retry
  <1>17. ASSUME NEW h \in Handlers, FallBack(h) PROVE Goal
    BY <1>k, <1>h, <1>17 DEF FallBack
  <1>18. ASSUME NEW h \in Handlers, PushFails(h) PROVE Goal
    BY <1>k, <1>h, <1>18 DEF PushFails
  <1>22. ASSUME NEW h \in Handlers, SaveTheSale(h) PROVE Goal
    BY <1>k, <1>h, <1>22 DEF SaveTheSale
  \* A record changes without its sid.
  <1>s. ASSUME worker' = worker, taken' = taken,
               \A c \in Calls : record'[c].sid = record[c].sid
        PROVE  OwnCalls'
    BY <1>0, <1>s DEF OwnCalls, WorkerOK
  <1>19. ASSUME NEW h \in Handlers, CommitFailed(h) PROVE Goal
    <2> DEFINE c == handler[h].call
    <2>1. /\ c \in Calls /\ record'[c].status = "no_answer" /\ record'[c].sid = record[c].sid
          /\ \A d \in Calls \ {c} : record'[d] = record[d]
      BY <1>0, <1>19, CommitFailedRecord
    <2>2. handler'[h].pc = "idle" /\ \A g \in Handlers \ {h} : handler'[g] = handler[g]
      BY <1>0, <1>19, HandlerDoneType DEF CommitFailed
    <2>3. phone[c] = "unanswered" /\ phone' = phone  BY <1>0, <1>19 DEF CommitFailed, Unanswered
    <2>4. \A d \in Calls : record'[d].sid = record[d].sid  BY <2>1
    <2>5. OwnCalls'  BY <1>19, <1>s, <2>4 DEF CommitFailed
    <2>6. Unanswered' /\ Waiting'
      BY <1>0, <2>2, <2>3, <2>4 DEF Unanswered, Waiting, HandlerOK
    <2>7. Settled' /\ Stays  BY <1>0, <2>1, <2>3 DEF Settled, Decided, Stays
    <2>8. QED  BY <2>5, <2>6, <2>7
  <1>20. ASSUME NEW h \in Handlers, NEW c \in Calls, NEW d \in Digits, LoadDigit(h, c, d)
         PROVE  Goal
    <2>0. Load(h, c, "digit", d) /\ "digit" \in {"failed", "digit"}  BY <1>20 DEF LoadDigit
    <2>1. /\ handler'[h].pc = "digit" /\ handler'[h].call = c
          /\ \A g \in Handlers \ {h} : handler'[g] = handler[g]
      BY <1>0, <2>0, LoadType
    <2>2. /\ phone[c] = "answered" /\ phone'[c] = "waiting" /\ record[c].sid
          /\ \A b \in Calls \ {c} : phone'[b] = phone[b]
          /\ record' = record
      BY <1>0, <1>20 DEF LoadDigit, CallOK, Known
    <2>3. \A g \in Handlers \ {h} : handler[g].pc # "idle" =>
             handler[g].call \in Calls /\ handler[g].call # c
      BY <1>0, <2>2 DEF HandlerOK, HandlerType, HandlerPc, Unanswered, Waiting
    <2>4. Unanswered' /\ Waiting'  BY <1>0, <2>1, <2>2, <2>3 DEF Unanswered, Waiting
    <2>5. Settled'  BY <1>0, <2>2 DEF Settled, Decided
    <2>6. QED  BY <1>k, <1>20, <2>4, <2>5 DEF LoadDigit
  <1>21. ASSUME NEW h \in Handlers, NEW c \in Calls, NEW d \in Digits, IgnoreDigit(h, c, d)
         PROVE  Goal
    <2>1. phone[c] = "answered" /\ \A b \in Calls \ {c} : phone'[b] = phone[b]
      BY <1>0, <1>21, AfterDigitType DEF IgnoreDigit
    <2>2. handler' = handler /\ record' = record /\ worker' = worker /\ taken' = taken
      BY <1>21 DEF IgnoreDigit
    <2>3. QED  BY <1>k, <1>p, <2>1, <2>2
  \* A handler of a digit ends.
  <1>d. ASSUME NEW h \in Handlers, handler[h].pc \in {"digit", "decided"},
               HandlerDone(h), \A b \in Calls \ {handler[h].call} : phone'[b] = phone[b],
               \A b \in Calls : record'[b].sid = record[b].sid
        PROVE  Unanswered' /\ Waiting'
    <2>1. handler'[h].pc = "idle" /\ \A g \in Handlers \ {h} : handler'[g] = handler[g]
      BY <1>0, <1>d, HandlerDoneType
    <2>2. \A g \in Handlers \ {h} : handler[g].pc # "idle" =>
             handler[g].call \in Calls /\ handler[g].call # handler[h].call
      BY <1>0, <1>d DEF HandlerOK, HandlerType, HandlerPc, Unanswered, Waiting
    <2>3. QED  BY <1>0, <1>d, <2>1, <2>2 DEF Unanswered, Waiting
  <1>23. ASSUME NEW h \in Handlers, CommitDigit(h) PROVE Goal
    <2> DEFINE c == handler[h].call  s == Decision(handler[h].digit)
    <2>1. c \in Calls /\ s \in Statuses /\ handler[h].pc \in {"digit", "decided"}
      BY <1>0, <1>23 DEF CommitDigit, HandlerOK, Decision, Statuses
    <2>2. phone[c] = "waiting" /\ record[c].sid  BY <1>0, <2>1 DEF Waiting
    <2>3. /\ record'[c].status = s /\ record'[c].sid = record[c].sid
          /\ \A d \in Calls \ {c} : record'[d] = record[d]
      BY <1>0, <1>23, <2>1, StatusType DEF CommitDigit
    <2>4. /\ phone'[c] \in {"answered", "done"}
          /\ phone'[c] = "answered" <=> handler[h].digit = "other"
          /\ \A b \in Calls \ {c} : phone'[b] = phone[b]
      BY <1>0, <1>23, <2>1, AfterDigitType DEF CommitDigit
    <2>5. \A d \in Calls : record'[d].sid = record[d].sid  BY <2>3
    <2>6. OwnCalls'  BY <1>23, <1>s, <2>5 DEF CommitDigit
    <2>7. Unanswered' /\ Waiting'  BY <1>23, <1>d, <2>1, <2>4, <2>5 DEF CommitDigit
    <2>8. handler[h].digit = "other" => s = "calling"  BY DEF Decision
    <2>9. Settled'  BY <1>0, <2>1, <2>2, <2>3, <2>4, <2>8 DEF Settled, Decided
    <2>10. Stays  BY <1>0, <2>1, <2>2, <2>3 DEF Settled, Decided, Stays
    <2>11. QED  BY <2>6, <2>7, <2>9, <2>10
  <1>24. ASSUME NEW h \in Handlers, HandlerFails(h) PROVE Goal
    <2>1. handler[h].call \in Calls /\ record' = record /\ worker' = worker /\ taken' = taken
      BY <1>0, <1>24 DEF HandlerFails, HandlerOK
    <2>2. CASE handler[h].pc \in {"digit", "decided"}
      <3>1. /\ phone[handler[h].call] = "waiting"
            /\ \A b \in Calls \ {handler[h].call} : phone'[b] = phone[b]
        BY <1>0, <1>24, <2>1, <2>2, AfterDigitType DEF HandlerFails, Waiting
      <3>2. Unanswered' /\ Waiting'  BY <1>24, <1>d, <2>1, <2>2, <3>1 DEF HandlerFails
      <3>3. Settled'  BY <1>0, <2>1, <3>1 DEF Settled, Decided
      <3>4. QED  BY <1>k, <2>1, <3>2, <3>3
    <2>3. CASE handler[h].pc \notin {"digit", "decided"}
      <3>1. /\ phone' = phone /\ handler'[h].pc = "idle"
            /\ \A g \in Handlers \ {h} : handler'[g] = handler[g]
        BY <1>0, <1>24, <2>3, HandlerDoneType DEF HandlerFails
      <3>2. Unanswered' /\ Waiting'  BY <1>0, <2>1, <3>1 DEF Unanswered, Waiting
      <3>3. QED  BY <1>k, <2>1, <3>1, <3>2
    <2>4. QED  BY <2>2, <2>3
  <1>25. CASE UNCHANGED vars  BY <1>25, <1>k DEF vars
  <1>26. QED
    BY <1>1, <1>2, <1>3, <1>4, <1>5, <1>6, <1>7, <1>8, <1>9, <1>10, <1>11, <1>12,
       <1>14, <1>15, <1>16, <1>17, <1>18, <1>19, <1>20, <1>21, <1>22, <1>23, <1>24, <1>25
       DEF Next, WorkerStep, HandlerStep, Callback

\* The customer's answer is final, for any number of workers and handlers, of
\* repeated callbacks and of failures.
THEOREM AnswersAreFinal == Spec => AnswerStays
  <1>1. TypeOK /\ TypeOK' /\ CallInv /\ [Next]_vars =>
           CallInv' /\ (\A c \in Calls : Decided(c) => record'[c].status = record[c].status)
    BY CallStep
  <1>2. (\A c \in Calls : Decided(c) => record'[c].status = record[c].status) =>
           \A c \in Calls : record[c].status \in {"confirmed", "cancelled"} =>
                               record'[c].status = record[c].status
    BY DEF Decided
  <1>3. QED  BY <1>1, <1>2, TypeInit, TypeStep, CallInit, PTL DEF Spec, AnswerStays

-----------------------------------------------------------------------------
(* What is pushed before it is committed                                   *)

FollowInv ==
    /\ FailedIsFollowed /\ CancelledIsSaved
    /\ \A h \in Handlers :
          /\ handler[h].pc = "pushed" =>
                sent[handler[h].call].retry + sent[handler[h].call].fallback > 0
          /\ handler[h].pc = "decided" =>
                handler[h].digit = "2" /\ sent[handler[h].call].save > 0

LEMMA FollowInit == Init => FollowInv
  BY DEF Init, FollowInv, FailedIsFollowed, CancelledIsSaved, NoRecord, NoHandling

\* The step of a handler when Redis takes every push.
HandlingPushed(h) ==
    \/ Retry(h) \/ FallBack(h) \/ CommitFailed(h)
    \/ SaveTheSale(h) /\ sent' = [sent EXCEPT ![handler[h].call].save = @ + 1]
    \/ CommitDigit(h) \/ HandlerFails(h)

NextPushed ==
    \/ \E known \in Sources : Trigger(known)
    \/ \E w \in Workers : WorkerStep(w)
    \/ \E h \in Handlers : HandlingPushed(h)
    \/ \E h \in Handlers, c \in Calls : Callback(h, c)
    \/ \E c \in Calls : Answer(c) \/ EndCall(c)

LEMMA FollowStep ==
    ASSUME TypeOK, TypeOK', FollowInv, [NextPushed]_vars
    PROVE  FollowInv'
  <1>0. WorkerOK /\ RecordOK /\ HandlerOK /\ SentOK  BY Parts
  <1> DEFINE Followed == \A h \in Handlers :
                 /\ handler[h].pc = "pushed" =>
                       sent[handler[h].call].retry + sent[handler[h].call].fallback > 0
                 /\ handler[h].pc = "decided" =>
                       handler[h].digit = "2" /\ sent[handler[h].call].save > 0
  <1>f. FailedIsFollowed /\ CancelledIsSaved /\ Followed  BY DEF FollowInv
  <1> DEFINE Goal == FailedIsFollowed' /\ CancelledIsSaved' /\ Followed'
  <1> SUFFICES Goal  BY DEF FollowInv
  <1>k. record' = record /\ sent' = sent => FailedIsFollowed' /\ CancelledIsSaved'
    BY <1>f DEF FailedIsFollowed, CancelledIsSaved
  <1>l. handler' = handler /\ sent' = sent => Followed'  BY <1>f
  \* A worker writes no final status, and a handler that ends promises nothing more.
  <1>w. ASSUME NEW c \in Calls, \A d \in Calls \ {c} : record'[d] = record[d],
               record'[c].status \in {"calling", "failed"}, sent' = sent
        PROVE  FailedIsFollowed' /\ CancelledIsSaved'
    BY <1>f, <1>w DEF FailedIsFollowed, CancelledIsSaved
  <1>e. ASSUME NEW h \in Handlers, HandlerDone(h), sent' = sent PROVE Followed'
    BY <1>0, <1>f, <1>e, HandlerDoneType
  <1>4. ASSUME NEW w \in Workers, CreateRecord(w) PROVE Goal
    <2>1. worker[w].call \in Calls  BY <1>0, <1>4 DEF CreateRecord, WorkerOK
    <2>2. /\ record'[worker[w].call].status = "calling" /\ sent' = sent /\ handler' = handler
          /\ \A d \in Calls \ {worker[w].call} : record'[d] = record[d]
      BY <1>0, <1>4, <2>1 DEF CreateRecord, RecordOK
    <2>3. QED  BY <1>l, <1>w, <2>1, <2>2
  <1>9. ASSUME NEW w \in Workers, CommitCall(w) PROVE Goal
    <2>1. sent' = sent /\ handler' = handler  BY <1>9 DEF CommitCall
    <2>2. QED  BY <1>0, <1>l, <1>w, <1>9, <2>1, CommitCallRecord
  <1>10. ASSUME NEW w \in Workers, CommitRejected(w) PROVE Goal
    <2>1. worker[w].call \in Calls /\ sent' = sent /\ handler' = handler
      BY <1>0, <1>10 DEF CommitRejected, WorkerOK
    <2>2. /\ record'[worker[w].call].status = "failed"
          /\ \A d \in Calls \ {worker[w].call} : record'[d] = record[d]
      BY <1>0, <1>10, <2>1, StatusType DEF CommitRejected, Statuses
    <2>3. QED  BY <1>l, <1>w, <2>1, <2>2
  <1>14. ASSUME NEW h \in Handlers, NEW c \in Calls, NEW p \in {"failed", "digit"},
                NEW d \in Digits, Load(h, c, p, d), record' = record, sent' = sent
         PROVE  Goal
    <2>1. handler'[h].pc = p /\ \A g \in Handlers \ {h} : handler'[g] = handler[g]
      BY <1>0, <1>14, LoadType
    <2>2. Followed'  BY <1>f, <1>14, <2>1
    <2>3. QED  BY <1>k, <1>14, <2>2
  \* A push: counts grow, and the handler's own count is positive.
  <1>p. ASSUME NEW h \in Handlers, NEW p \in {"pushed", "decided"}, handler[h].pc # "idle",
               handler' = [handler EXCEPT ![h].pc = p], record' = record,
               \/ p = "pushed" /\ sent' = [sent EXCEPT ![handler[h].call].retry = @ + 1]
               \/ p = "pushed" /\ sent' = [sent EXCEPT ![handler[h].call].fallback = @ + 1]
               \/ /\ p = "decided" /\ handler[h].digit = "2"
                  /\ sent' = [sent EXCEPT ![handler[h].call].save = @ + 1]
        PROVE  Goal
    <2> DEFINE c == handler[h].call
    <2>1. c \in Calls  BY <1>0, <1>p DEF HandlerOK
    <2>2. /\ SentOK'
          /\ \A d \in Calls : /\ sent[d].retry <= sent'[d].retry
                               /\ sent[d].fallback <= sent'[d].fallback
                               /\ sent[d].save <= sent'[d].save
          /\ p = "pushed" => sent'[c].retry > 0 \/ sent'[c].fallback > 0
          /\ p = "decided" => sent'[c].save > 0 /\ handler[h].digit = "2"
      <3>1. \/ sent' = [sent EXCEPT ![c].retry = @ + 1]
            \/ sent' = [sent EXCEPT ![c].fallback = @ + 1]
            \/ sent' = [sent EXCEPT ![c].save = @ + 1]
        BY <1>p
      <3>2. QED  BY <1>0, <1>p, <2>1, <3>1, SentGrows
    <2>3. \A d \in Calls : /\ sent[d].retry \in Nat /\ sent[d].fallback \in Nat
                            /\ sent[d].save \in Nat /\ sent'[d].retry \in Nat
                            /\ sent'[d].fallback \in Nat /\ sent'[d].save \in Nat
      BY <1>0, <2>2 DEF SentOK, SentType
    <2>4. FailedIsFollowed' /\ CancelledIsSaved'
      BY <1>f, <1>p, <2>2, <2>3 DEF FailedIsFollowed, CancelledIsSaved
    <2>5. /\ \A g \in Handlers \ {h} : handler'[g] = handler[g]
          /\ handler'[h].pc = p /\ handler'[h].call = c /\ handler'[h].digit = handler[h].digit
      BY <1>0, <1>p, HandlerPcType DEF HandlerPc
    <2>6. \A g \in Handlers : handler[g].pc # "idle" => handler[g].call \in Calls
      BY <1>0 DEF HandlerOK
    <2>7. Followed'
      <3> SUFFICES ASSUME NEW g \in Handlers
                   PROVE  /\ handler'[g].pc = "pushed" =>
                                sent'[handler'[g].call].retry + sent'[handler'[g].call].fallback > 0
                          /\ handler'[g].pc = "decided" =>
                                handler'[g].digit = "2" /\ sent'[handler'[g].call].save > 0
        OBVIOUS
      <3>1. CASE g = h  BY <2>1, <2>2, <2>3, <2>5, <3>1
      <3>2. CASE g # h
        <4>1. handler'[g] = handler[g]  BY <2>5, <3>2
        <4>2. CASE handler[g].pc = "pushed"
          BY <1>f, <2>2, <2>3, <2>6, <4>1, <4>2
        <4>3. CASE handler[g].pc = "decided"
          BY <1>f, <2>2, <2>3, <2>6, <4>1, <4>3
        <4>4. QED  BY <4>1, <4>2, <4>3
      <3>3. QED  BY <3>1, <3>2
    <2>8. QED  BY <2>4, <2>7
  <1>16. ASSUME NEW h \in Handlers, Retry(h) PROVE Goal
    BY <1>p, <1>16 DEF Retry
  <1>17. ASSUME NEW h \in Handlers, FallBack(h) PROVE Goal
    BY <1>p, <1>17 DEF FallBack
  <1>22. ASSUME NEW h \in Handlers, SaveTheSale(h),
                sent' = [sent EXCEPT ![handler[h].call].save = @ + 1]
         PROVE  Goal
    BY <1>p, <1>22 DEF SaveTheSale
  <1>19. ASSUME NEW h \in Handlers, CommitFailed(h) PROVE Goal
    <2>1. sent' = sent /\ HandlerDone(h) /\ handler[h].pc = "pushed"  BY <1>19 DEF CommitFailed
    <2>2. sent[handler[h].call].retry + sent[handler[h].call].fallback > 0  BY <1>f, <2>1
    <2>3. FailedIsFollowed' /\ CancelledIsSaved'
      BY <1>0, <1>f, <1>19, <2>1, <2>2, CommitFailedRecord DEF FailedIsFollowed, CancelledIsSaved
    <2>4. QED  BY <1>e, <2>1, <2>3
  <1>23. ASSUME NEW h \in Handlers, CommitDigit(h) PROVE Goal
    <2> DEFINE c == handler[h].call  s == Decision(handler[h].digit)
    <2>1. c \in Calls /\ s \in Statuses /\ sent' = sent /\ HandlerDone(h)
      BY <1>0, <1>23 DEF CommitDigit, HandlerOK, Decision, Statuses
    <2>2. /\ record'[c].status = s /\ \A d \in Calls \ {c} : record'[d] = record[d]
      BY <1>0, <1>23, <2>1, StatusType DEF CommitDigit
    <2>3. s # "no_answer" /\ (s = "cancelled" => handler[h].digit = "2")  BY DEF Decision
    <2>4. s = "cancelled" => sent[c].save > 0  BY <1>f, <1>23, <2>3 DEF CommitDigit
    <2>5. FailedIsFollowed' /\ CancelledIsSaved'
      BY <1>f, <2>1, <2>2, <2>3, <2>4 DEF FailedIsFollowed, CancelledIsSaved
    <2>6. QED  BY <1>e, <2>1, <2>5
  <1>24. ASSUME NEW h \in Handlers, HandlerFails(h) PROVE Goal
    <2>1. sent' = sent /\ record' = record /\ HandlerDone(h)  BY <1>24 DEF HandlerFails
    <2>2. QED  BY <1>e, <1>k, <2>1
  <1>25. CASE UNCHANGED vars  BY <1>25, <1>k, <1>l DEF vars
  <1>c. ASSUME NEW h \in Handlers, NEW c \in Calls, Callback(h, c) PROVE Goal
    <2>1. CASE LoadFailed(h, c)
      <3>1. Load(h, c, "failed", "other") /\ "other" \in Digits /\ record' = record /\ sent' = sent
        BY <2>1 DEF LoadFailed, Digits
      <3>2. QED  BY <1>14, <3>1
    <2>2. CASE IgnoreStatus(h, c)  BY <1>k, <1>l, <2>2 DEF IgnoreStatus
    <2>3. ASSUME NEW d \in Digits, LoadDigit(h, c, d) PROVE Goal
      <3>1. Load(h, c, "digit", d) /\ record' = record /\ sent' = sent  BY <2>3 DEF LoadDigit
      <3>2. QED  BY <1>14, <3>1
    <2>4. ASSUME NEW d \in Digits, IgnoreDigit(h, c, d) PROVE Goal
      BY <1>k, <1>l, <2>4 DEF IgnoreDigit
    <2>5. QED  BY <1>c, <2>1, <2>2, <2>3, <2>4 DEF Callback
  <1>o. ASSUME NEW w \in Workers,
               \/ TakeTask(w) \/ SkipTask(w) \/ RecordFails(w) \/ Dial(w)
               \/ DialFails(w) \/ StoreMapping(w) \/ WorkerFails(w)
        PROVE  Goal
    <2>1. record' = record /\ sent' = sent /\ handler' = handler
      BY <1>o DEF TakeTask, SkipTask, RecordFails, Dial, DialFails, StoreMapping, WorkerFails
    <2>2. QED  BY <1>k, <1>l, <2>1
  <1>t. ASSUME NEW known \in Sources, Trigger(known) PROVE Goal
    BY <1>k, <1>l, <1>t DEF Trigger
  <1>a. ASSUME NEW c \in Calls, Answer(c) \/ EndCall(c) PROVE Goal
    BY <1>k, <1>l, <1>a DEF Answer, EndCall
  <1>26. QED
    BY <1>4, <1>9, <1>10, <1>16, <1>17, <1>19, <1>22, <1>23, <1>24, <1>25, <1>a, <1>c,
       <1>o, <1>t DEF NextPushed, WorkerStep, HandlingPushed

\* As long as Redis takes the pushes, no call is stored as not answered without
\* a retry or a fallback queued for it: transactions may fail, requests may
\* race, processes may die.
THEOREM NoCallForgotten ==
    ASSUME ~PushFaults
    PROVE  Spec => []FailedIsFollowed /\ []CancelledIsSaved
  <1>1. TypeOK /\ TypeOK' /\ FollowInv /\ [Next]_vars => FollowInv'
    <2>1. [Next]_vars => [NextPushed]_vars
      BY DEF Next, NextPushed, HandlerStep, HandlingPushed, PushFails, SaveTheSale
    <2>2. QED  BY <2>1, FollowStep
  <1>2. FollowInv => FailedIsFollowed /\ CancelledIsSaved  BY DEF FollowInv
  <1>3. QED  BY <1>1, <1>2, TypeInit, TypeStep, FollowInit, PTL DEF Spec

-----------------------------------------------------------------------------
(* Calls before the fallback                                               *)

\* The calls before attempt k were made.
Made(m, k) == \A j \in Attempts : j < k => m[j] > 0

TasksInOrder == \A i \in 1 .. Len(queue) : Made(made, queue[i].attempt)

WorkersInOrder ==
    \A w \in Workers :
        /\ worker[w].pc # "idle" => Made(made, worker[w].attempt)
        /\ worker[w].pc # "idle" /\ worker[w].stored =>
              record[worker[w].call].attempts = worker[w].attempt
        /\ worker[w].pc \in {"dialled", "mapped"} =>
              worker[w].stored /\ Made(made, worker[w].attempt + 1)

\* Until its end was reported a call's record tells how often was called.
RecordsInOrder ==
    \A c \in Calls : record[c].sid /\ (phone[c] # "unanswered" \/ pending[c] > 0) =>
                        Made(made, record[c].attempts + 1)

HandlersInOrder ==
    \A h \in Handlers : handler[h].pc \in {"failed", "pushed"} =>
        pending[handler[h].call] = 0 /\ Made(made, handler[h].attempts + 1)

OnceInv ==
    /\ FallbackAfterAllCalls /\ TasksInOrder /\ WorkersInOrder /\ RecordsInOrder
    /\ HandlersInOrder /\ \A c \in Calls : pending[c] <= 1

\* A push at the head and a pop at the tail.
LEMMA PushAt ==
    ASSUME NEW S, NEW t \in S, NEW q \in Seq(S), NEW r, r = <<t>> \o q
    PROVE  /\ r[1] = t /\ Len(r) = Len(q) + 1
           /\ \A i \in 2 .. Len(r) : r[i] = q[i - 1] /\ i - 1 \in 1 .. Len(q)
  <1>1. Len(r) = Len(q) + 1 /\ Len(q) \in Nat  OBVIOUS
  <1>2. r[1] = t  OBVIOUS
  <1>3. ASSUME NEW i \in 2 .. Len(r) PROVE r[i] = q[i - 1] /\ i - 1 \in 1 .. Len(q)
    BY <1>1
  <1>4. QED  BY <1>1, <1>2, <1>3

LEMMA PopAt ==
    ASSUME NEW S, NEW q \in Seq(S), q # <<>>, NEW r, r = SubSeq(q, 1, Len(q) - 1)
    PROVE  /\ Len(q) \in 1 .. Len(q) /\ Len(r) = Len(q) - 1
           /\ \A i \in 1 .. Len(r) : r[i] = q[i] /\ i \in 1 .. Len(q)
  <1>1. Len(q) \in Nat /\ Len(q) > 0  OBVIOUS
  <1>2. PICK n \in Nat : n = Len(q) - 1  BY <1>1
  <1>3. 1 \in Int /\ n \in Int /\ \A i \in 1 .. n : q[i] \in S  BY <1>1, <1>2
  <1>4. /\ Len(SubSeq(q, 1, n)) = IF 1 <= n THEN n - 1 + 1 ELSE 0
        /\ \A i \in 1 .. n - 1 + 1 : SubSeq(q, 1, n)[i] = q[1 + i - 1]
    BY <1>3, SubSeqProperties
  <1>5. r = SubSeq(q, 1, n)  BY <1>2
  <1>6. Len(r) = n  BY <1>2, <1>4, <1>5
  <1>7. ASSUME NEW i \in 1 .. Len(r) PROVE r[i] = q[i] /\ i \in 1 .. Len(q)
    BY <1>1, <1>2, <1>4, <1>5, <1>6
  <1>8. QED  BY <1>1, <1>2, <1>6, <1>7

LEMMA OnceInit == Init => OnceInv
  BY CodShieldAssumption
     DEF Init, OnceInv, FallbackAfterAllCalls, TasksInOrder, WorkersInOrder, RecordsInOrder,
         HandlersInOrder, Resting, NoRecord, NoHandling

LEMMA OnceStep ==
    ASSUME TypeOK, TypeOK', CallInv, OnceInv, [Next]_vars, \A c \in Calls : pending'[c] <= 1
    PROVE  OnceInv'
  <1>0. /\ QueueOK /\ WorkerOK /\ RecordOK /\ CallOK /\ HandlerOK /\ SentOK /\ MadeOK
        /\ QueueOK' /\ WorkerOK' /\ RecordOK' /\ CallOK' /\ HandlerOK' /\ SentOK' /\ MadeOK'
        /\ OwnCalls /\ Unanswered /\ Waiting
    BY Parts, PartsPrimed DEF CallInv
  <1> DEFINE Few == \A c \in Calls : pending[c] <= 1
             AllMade == \A k \in Attempts : made[k] > 0
  <1>i. /\ FallbackAfterAllCalls /\ TasksInOrder /\ WorkersInOrder /\ RecordsInOrder
        /\ HandlersInOrder /\ Few
    BY DEF OnceInv
  <1> DEFINE Goal == /\ FallbackAfterAllCalls' /\ TasksInOrder' /\ WorkersInOrder'
                     /\ RecordsInOrder' /\ HandlersInOrder' /\ Few'
  <1> SUFFICES Goal  BY DEF OnceInv
  <1>q. queue' = queue /\ made' = made => TasksInOrder'  BY <1>i DEF TasksInOrder
  <1>w. worker' = worker /\ record' = record /\ made' = made => WorkersInOrder'
    BY <1>i DEF WorkersInOrder
  <1>r. record' = record /\ phone' = phone /\ pending' = pending /\ made' = made =>
           RecordsInOrder'
    BY <1>i DEF RecordsInOrder
  <1>h. handler' = handler /\ pending' = pending /\ made' = made => HandlersInOrder'
    BY <1>i DEF HandlersInOrder
  <1>f. sent' = sent /\ made' = made => FallbackAfterAllCalls'
    BY <1>i DEF FallbackAfterAllCalls
  <1>p. pending' = pending => Few'  BY <1>i
  <1>n. \A c \in Calls : pending[c] \in Nat  BY <1>0 DEF CallOK
  <1>m. \A c \in Calls : pending'[c] \in {0, 1}
    <2>1. \A c \in Calls : pending'[c] \in Nat  BY <1>0 DEF CallOK
    <2>2. QED  BY <2>1
  <1> HIDE DEF Few
  \* Handlers of digits and workers are not concerned with calls handled as failed.
  <1>v. ASSUME NEW w \in Workers, record' = record, made' = made,
               \/ worker'[w].pc = "idle"
               \/ /\ worker[w].pc # "idle" /\ worker'[w].call = worker[w].call
                  /\ worker'[w].attempt = worker[w].attempt
                  /\ worker'[w].stored = worker[w].stored
                  /\ worker'[w].pc \in {"dialled", "mapped"} =>
                        worker[w].pc \in {"dialled", "mapped"},
               \A v \in Workers \ {w} : worker'[v] = worker[v]
        PROVE  WorkersInOrder'
    BY <1>i, <1>v DEF WorkersInOrder
  \* A task pushed, when the calls before its attempt were made.
  <1>s. ASSUME NEW t \in TaskType, Made(made, t.attempt), queue' = <<t>> \o queue, made' = made
        PROVE  TasksInOrder'
    <2>1. /\ queue'[1] = t /\ Len(queue') = Len(queue) + 1
          /\ \A i \in 2 .. Len(queue') : queue'[i] = queue[i - 1] /\ i - 1 \in 1 .. Len(queue)
      BY <1>0, <1>s, PushAt DEF QueueOK
    <2>2. SUFFICES ASSUME NEW i \in 1 .. Len(queue') PROVE Made(made', queue'[i].attempt)
      BY DEF TasksInOrder
    <2>3. CASE i = 1  BY <1>s, <2>1, <2>3
    <2>4. CASE i # 1
      <3>1. i \in 2 .. Len(queue')  BY <1>0, <2>4 DEF QueueOK
      <3>2. QED  BY <1>i, <1>s, <2>1, <3>1 DEF TasksInOrder
    <2>5. QED  BY <2>3, <2>4
  <1>1. ASSUME NEW known \in Sources, Trigger(known) PROVE Goal
    <2>1. Task(known, 1) \in TaskType /\ Made(made, Task(known, 1).attempt)
      BY CodShieldAssumption DEF Task, TaskType, Attempts, Made
    <2>2. TasksInOrder'  BY <1>s, <1>1, <2>1 DEF Trigger, Push
    <2>3. QED  BY <1>1, <1>w, <1>r, <1>h, <1>f, <1>p, <2>2 DEF Trigger
  \* The task popped, and the rest of the list.
  <1>t. ASSUME queue # <<>>, queue' = SubSeq(queue, 1, Len(queue) - 1), made' = made
        PROVE  TasksInOrder' /\ Made(made, queue[Len(queue)].attempt)
    <2>1. /\ Len(queue) \in 1 .. Len(queue) /\ Len(queue') = Len(queue) - 1
          /\ \A i \in 1 .. Len(queue') : queue'[i] = queue[i] /\ i \in 1 .. Len(queue)
      BY <1>0, <1>t, PopAt DEF QueueOK
    <2>2. QED  BY <1>i, <1>t, <2>1 DEF TasksInOrder
  <1>2. ASSUME NEW w \in Workers, TakeTask(w) PROVE Goal
    <2>1. TasksInOrder' /\ Made(made, queue[Len(queue)].attempt)
      BY <1>t, <1>2 DEF TakeTask
    <2> DEFINE r == [pc |-> "taken", call |-> taken + 1,
                     attempt |-> queue[Len(queue)].attempt, stored |-> FALSE]
    <2>2. /\ worker' = [worker EXCEPT ![w] = r] /\ r.pc = "taken" /\ ~r.stored
          /\ r.attempt = queue[Len(queue)].attempt
      BY <1>2 DEF TakeTask
    <2> HIDE DEF r
    <2>3. /\ worker'[w] = r /\ \A v \in Workers \ {w} : worker'[v] = worker[v]
      BY <1>0, <2>2 DEF WorkerOK
    <2>4. record' = record /\ made' = made  BY <1>2 DEF TakeTask
    <2>5. WorkersInOrder'
      BY <1>i, <2>1, <2>2, <2>3, <2>4 DEF WorkersInOrder
    <2>6. QED  BY <1>2, <1>r, <1>h, <1>f, <1>p, <2>1, <2>5 DEF TakeTask
  <1>3. ASSUME NEW w \in Workers, SkipTask(w) PROVE Goal
    <2>1. TasksInOrder'  BY <1>t, <1>3 DEF SkipTask
    <2>2. QED  BY <1>3, <1>w, <1>r, <1>h, <1>f, <1>p, <2>1 DEF SkipTask
  \* A worker writes the record of its call; the call has no sid yet.
  <1>o. ASSUME NEW w \in Workers, worker[w].pc # "idle",
               \A d \in Calls \ {worker[w].call} : record'[d] = record[d]
        PROVE  \A v \in Workers \ {w} : worker[v].pc # "idle" =>
                  record'[worker[v].call] = record[worker[v].call]
    BY <1>0, <1>o DEF OwnCalls, WorkerOK
  <1>4. ASSUME NEW w \in Workers, CreateRecord(w) PROVE Goal
    <2> DEFINE c == worker[w].call
    <2>1. c \in Calls /\ worker[w] \in WorkerType /\ worker[w].pc = "taken"
      BY <1>0, <1>4 DEF CreateRecord, WorkerOK
    <2>2. /\ \A d \in Calls \ {c} : record'[d] = record[d]
          /\ record'[c].attempts = worker[w].attempt /\ ~record'[c].sid
      BY <1>0, <1>4, <2>1 DEF CreateRecord, RecordOK
    <2>3. /\ worker'[w].call = c /\ worker'[w].pc = "stored"
          /\ worker'[w].attempt = worker[w].attempt
          /\ \A v \in Workers \ {w} : worker'[v] = worker[v]
      BY <1>0, <1>4, <2>1 DEF CreateRecord, WorkerOK, WorkerType
    <2>4. /\ phone' = phone /\ pending' = pending /\ made' = made
          /\ queue' = queue /\ handler' = handler /\ sent' = sent
      BY <1>4 DEF CreateRecord
    <2>5. WorkersInOrder'  BY <1>i, <1>o, <2>1, <2>2, <2>3, <2>4 DEF WorkersInOrder
    <2>6. RecordsInOrder'  BY <1>i, <2>1, <2>2, <2>4 DEF RecordsInOrder
    <2>7. QED  BY <1>q, <1>h, <1>f, <1>p, <2>4, <2>5, <2>6
  <1>5. ASSUME NEW w \in Workers, RecordFails(w) PROVE Goal
    <2>1. WorkersInOrder'  BY <1>0, <1>v, <1>5, StepType DEF RecordFails, WorkerPc
    <2>2. QED  BY <1>5, <1>q, <1>r, <1>h, <1>f, <1>p, <2>1 DEF RecordFails
  <1>6. ASSUME NEW w \in Workers, Dial(w) PROVE Goal
    <2> DEFINE c == worker[w].call  k == worker[w].attempt
    <2>1. /\ c \in Calls /\ k \in Attempts /\ ~record[c].sid /\ Made(made, k)
      BY <1>0, <1>i, <1>6 DEF Dial, WorkerOK, OwnCalls, WorkersInOrder
    <2>2. /\ \A j \in Attempts : made[j] \in Nat /\ made'[j] \in Nat /\ made[j] <= made'[j]
          /\ made'[k] > 0
      BY <1>0, <1>6, <2>1 DEF Dial, MadeOK
    <2>3. \A n \in Nat : Made(made, n) => Made(made', n)  BY <2>2 DEF Made
    <2>4. Made(made', k + 1)
      <3>1. \A j \in Attempts : j < k + 1 => j < k \/ j = k  BY <2>1 DEF Attempts
      <3>2. QED  BY <2>1, <2>2, <3>1 DEF Made
    <2>5. /\ queue' = queue /\ record' = record /\ pending' = pending
          /\ handler' = handler /\ sent' = sent
      BY <1>6 DEF Dial
    <2>6. FallbackAfterAllCalls'  BY <1>i, <2>2, <2>5 DEF FallbackAfterAllCalls
    <2>7. TasksInOrder'
      <3>0. \A i \in 1 .. Len(queue) : queue[i] \in TaskType  BY <1>0 DEF QueueOK
      <3>1. \A i \in 1 .. Len(queue) : queue[i].attempt \in Nat
        BY <3>0 DEF TaskType, Attempts
      <3>2. QED  BY <1>i, <2>3, <2>5, <3>1 DEF TasksInOrder
    <2>8. WorkersInOrder'
      <3>1. \A v \in Workers : worker[v].attempt \in Nat
        BY <1>0, CodShieldAssumption DEF WorkerOK, WorkerType
      <3>2. \A v \in Workers \ {w} : worker'[v] = worker[v]
        BY <1>0, <1>6, StepType, RestType DEF Dial, WorkerPc
      <3>3. CASE worker[w].stored
        <4>1. /\ worker'[w].pc = "dialled" /\ worker'[w].call = c /\ worker'[w].attempt = k
              /\ worker'[w].stored /\ worker[w].pc # "idle"
          BY <1>0, <1>6, <3>3, StepType DEF Dial, WorkerPc
        <4>2. QED  BY <1>i, <2>1, <2>3, <2>4, <2>5, <3>1, <3>2, <3>3, <4>1 DEF WorkersInOrder
      <3>4. CASE ~worker[w].stored
        <4>1. worker'[w].pc = "idle"  BY <1>0, <1>6, <3>4, RestType DEF Dial
        <4>2. QED  BY <1>i, <2>3, <2>5, <3>1, <3>2, <4>1 DEF WorkersInOrder
      <3>5. QED  BY <3>3, <3>4
    <2>9. RecordsInOrder'
      <3>1. \A d \in Calls : record[d].attempts + 1 \in Nat
        BY <1>0, CodShieldAssumption DEF RecordOK, RecordType
      <3>2. \A d \in Calls \ {c} : phone'[d] = phone[d]  BY <1>0, <1>6 DEF Dial, CallOK
      <3>3. QED  BY <1>i, <2>1, <2>3, <2>5, <3>1, <3>2 DEF RecordsInOrder
    <2>10. HandlersInOrder'
      <3>1. \A h \in Handlers : handler[h].attempts + 1 \in Nat
        BY <1>0, CodShieldAssumption DEF HandlerOK, HandlerType
      <3>2. QED  BY <1>i, <2>3, <2>5, <3>1 DEF HandlersInOrder
    <2>11. QED  BY <1>p, <2>5, <2>6, <2>7, <2>8, <2>9, <2>10
  <1>7. ASSUME NEW w \in Workers, DialFails(w) PROVE Goal
    <2>1. WorkersInOrder'
      BY <1>0, <1>v, <1>7, StepType, RestType DEF DialFails, WorkerPc
    <2>2. QED  BY <1>7, <1>q, <1>r, <1>h, <1>f, <1>p, <2>1 DEF DialFails
  <1>8. ASSUME NEW w \in Workers, StoreMapping(w) PROVE Goal
    <2>1. WorkersInOrder'  BY <1>0, <1>v, <1>8, StepType DEF StoreMapping, WorkerPc
    <2>2. QED  BY <1>8, <1>q, <1>r, <1>h, <1>f, <1>p, <2>1 DEF StoreMapping
  <1>9. ASSUME NEW w \in Workers, CommitCall(w) PROVE Goal
    <2> DEFINE c == worker[w].call
    <2>1. /\ c \in Calls /\ record'[c].attempts = record[c].attempts
          /\ \A d \in Calls \ {c} : record'[d] = record[d]
      BY <1>0, <1>9, CommitCallRecord
    <2>2. /\ worker[w].pc = "mapped" /\ phone' = phone /\ pending' = pending /\ made' = made
          /\ queue' = queue /\ handler' = handler /\ sent' = sent
      BY <1>9 DEF CommitCall
    <2>3. worker'[w].pc = "idle" /\ \A v \in Workers \ {w} : worker'[v] = worker[v]
      BY <1>0, <1>9, RestType DEF CommitCall
    <2>4. WorkersInOrder'  BY <1>i, <1>o, <2>1, <2>2, <2>3 DEF WorkersInOrder
    <2>5. Made(made, record'[c].attempts + 1)  BY <1>i, <2>1, <2>2 DEF WorkersInOrder
    <2>6. RecordsInOrder'  BY <1>i, <2>1, <2>2, <2>5 DEF RecordsInOrder
    <2>7. QED  BY <1>q, <1>h, <1>f, <1>p, <2>2, <2>4, <2>6
  <1>10. ASSUME NEW w \in Workers, CommitRejected(w) PROVE Goal
    <2> DEFINE c == worker[w].call
    <2>1. /\ worker[w].pc = "rejected" /\ phone' = phone /\ pending' = pending /\ made' = made
          /\ queue' = queue /\ handler' = handler /\ sent' = sent /\ c \in Calls
          /\ ~record[c].sid
      BY <1>0, <1>10 DEF CommitRejected, WorkerOK, OwnCalls
    <2>2. /\ record'[c].sid = record[c].sid /\ \A d \in Calls \ {c} : record'[d] = record[d]
      BY <1>0, <1>10, <2>1, StatusType DEF CommitRejected, Statuses
    <2>3. worker'[w].pc = "idle" /\ \A v \in Workers \ {w} : worker'[v] = worker[v]
      BY <1>0, <1>10, RestType DEF CommitRejected
    <2>4. WorkersInOrder'  BY <1>i, <1>o, <2>1, <2>2, <2>3 DEF WorkersInOrder
    <2>5. RecordsInOrder'  BY <1>i, <2>1, <2>2 DEF RecordsInOrder
    <2>6. QED  BY <1>q, <1>h, <1>f, <1>p, <2>1, <2>4, <2>5
  <1>11. ASSUME NEW w \in Workers, WorkerFails(w) PROVE Goal
    <2>1. WorkersInOrder'  BY <1>0, <1>v, <1>11, RestType DEF WorkerFails
    <2>2. QED  BY <1>11, <1>q, <1>r, <1>h, <1>f, <1>p, <2>1 DEF WorkerFails
  \* A call that was not over ends, and Twilio has at most one report of it.
  <1>e. ASSUME NEW c \in Calls, phone[c] # "unanswered", record' = record, made' = made,
               handler' = handler, pending'[c] \in {0, 1, pending[c]},
               \A d \in Calls \ {c} : phone'[d] = phone[d] /\ pending'[d] = pending[d]
        PROVE  RecordsInOrder' /\ HandlersInOrder' /\ Few'
    <2>1. RecordsInOrder'  BY <1>i, <1>e DEF RecordsInOrder
    <2>2. \A h \in Handlers : handler[h].pc \in {"failed", "pushed"} =>
             handler[h].call \in Calls /\ handler[h].call # c
      BY <1>0, <1>e DEF HandlerOK, Unanswered
    <2>3. HandlersInOrder'  BY <1>i, <1>e, <2>2 DEF HandlersInOrder
    <2>4. Few'  BY <1>i, <1>e DEF Few
    <2>5. QED  BY <2>1, <2>3, <2>4
  <1>12. ASSUME NEW c \in Calls, Answer(c) \/ EndCall(c) PROVE Goal
    <2>1. /\ phone[c] # "unanswered" /\ pending'[c] \in {0, 1, pending[c]}
          /\ \A d \in Calls \ {c} : phone'[d] = phone[d] /\ pending'[d] = pending[d]
      BY <1>0, <1>m, <1>12 DEF Answer, EndCall, CallOK
    <2>2. /\ handler' = handler /\ record' = record /\ worker' = worker /\ made' = made
          /\ queue' = queue /\ sent' = sent
      BY <1>12 DEF Answer, EndCall
    <2>3. QED  BY <1>e, <1>q, <1>w, <1>f, <2>1, <2>2
  <1>14. ASSUME NEW h \in Handlers, NEW c \in Calls, LoadFailed(h, c) PROVE Goal
    <2>0. Load(h, c, "failed", "other") /\ "failed" \in {"failed", "digit"} /\ "other" \in Digits
      BY <1>14 DEF LoadFailed, Digits
    <2>1. /\ handler'[h].pc = "failed" /\ handler'[h].call = c
          /\ handler'[h].attempts = record[c].attempts
          /\ \A g \in Handlers \ {h} : handler'[g] = handler[g]
      BY <1>0, <2>0, LoadType
    <2>2. /\ pending[c] > 0 /\ pending'[c] = pending[c] - 1 /\ record[c].sid
          /\ \A d \in Calls \ {c} : pending'[d] = pending[d]
          /\ record' = record /\ phone' = phone /\ made' = made /\ sent' = sent
          /\ queue' = queue /\ worker' = worker
      BY <1>0, <1>14 DEF LoadFailed, Arrives, Known, CallOK
    <2>3. Made(made, record[c].attempts + 1)  BY <1>i, <2>2 DEF RecordsInOrder
    <2>4. pending[c] = 1 /\ pending'[c] = 0  BY <1>i, <1>n, <2>2 DEF Few
    <2>5. HandlersInOrder'
      <3> SUFFICES ASSUME NEW g \in Handlers, handler'[g].pc \in {"failed", "pushed"}
                   PROVE  pending'[handler'[g].call] = 0 /\ Made(made', handler'[g].attempts + 1)
        BY DEF HandlersInOrder
      <3>1. CASE g = h  BY <2>1, <2>2, <2>3, <2>4, <3>1
      <3>2. CASE g # h
        <4>1. handler'[g] = handler[g]  BY <2>1, <3>2
        <4>2. pending[handler[g].call] = 0 /\ Made(made, handler[g].attempts + 1)
          BY <1>i, <4>1 DEF HandlersInOrder
        <4>3. handler[g].call \in Calls /\ handler[g].call # c
          BY <1>0, <2>2, <4>1, <4>2 DEF HandlerOK
        <4>4. QED  BY <2>2, <4>1, <4>2, <4>3
      <3>3. QED  BY <3>1, <3>2
    <2>6. RecordsInOrder'  BY <1>i, <2>2, <2>4 DEF RecordsInOrder
    <2>7. Few'  BY <1>i, <2>2, <2>4 DEF Few
    <2>8. QED  BY <1>q, <1>w, <1>f, <2>2, <2>5, <2>6, <2>7
  <1>15. ASSUME NEW h \in Handlers, NEW c \in Calls, IgnoreStatus(h, c) PROVE Goal
    <2>1. /\ pending[c] > 0 /\ pending'[c] = pending[c] - 1
          /\ \A d \in Calls \ {c} : pending'[d] = pending[d]
          /\ record' = record /\ phone' = phone /\ made' = made /\ sent' = sent
          /\ queue' = queue /\ worker' = worker /\ handler' = handler
      BY <1>0, <1>15 DEF IgnoreStatus, Arrives, CallOK
    <2>2. RecordsInOrder'  BY <1>i, <2>1 DEF RecordsInOrder
    <2>3. \A g \in Handlers : handler[g].pc \in {"failed", "pushed"} =>
             handler[g].call \in Calls /\ handler[g].call # c
      BY <1>0, <1>i, <2>1 DEF HandlerOK, HandlersInOrder
    <2>4. HandlersInOrder'  BY <1>i, <2>1, <2>3 DEF HandlersInOrder
    <2>5. Few'  BY <1>i, <1>n, <2>1 DEF Few
    <2>6. QED  BY <1>q, <1>w, <1>f, <2>1, <2>2, <2>4, <2>5
  \* A handler goes on with its call.
  <1>g. ASSUME NEW h \in Handlers, NEW p \in {"pushed", "decided"}, handler[h].pc # "idle",
               p = "pushed" => handler[h].pc = "failed",
               handler' = [handler EXCEPT ![h].pc = p], pending' = pending, made' = made
        PROVE  HandlersInOrder'
    <2>1. /\ \A g \in Handlers \ {h} : handler'[g] = handler[g]
          /\ handler'[h].pc = p /\ handler'[h].call = handler[h].call
          /\ handler'[h].attempts = handler[h].attempts
      BY <1>0, <1>g, HandlerPcType DEF HandlerPc
    <2>2. QED  BY <1>i, <1>g, <2>1 DEF HandlersInOrder
  \* A push without a fallback.
  <1>u. ASSUME NEW c \in Calls, made' = made,
               \/ sent' = [sent EXCEPT ![c].retry = @ + 1]
               \/ sent' = [sent EXCEPT ![c].save = @ + 1]
        PROVE  FallbackAfterAllCalls'
    <2>1. \A d \in Calls : sent'[d].fallback = sent[d].fallback
      <3>1. sent[c] \in SentType  BY <1>0 DEF SentOK
      <3> DEFINE a == [sent[c] EXCEPT !.retry = @ + 1]  b == [sent[c] EXCEPT !.save = @ + 1]
      <3>2. a.fallback = sent[c].fallback /\ b.fallback = sent[c].fallback
        BY <3>1 DEF SentType
      <3>3. sent' = [sent EXCEPT ![c] = a] \/ sent' = [sent EXCEPT ![c] = b]  BY <1>u
      <3> HIDE DEF a, b
      <3>4. QED  BY <1>0, <3>2, <3>3 DEF SentOK
    <2>2. QED  BY <1>i, <1>u, <2>1 DEF FallbackAfterAllCalls
  <1>16. ASSUME NEW h \in Handlers, Retry(h) PROVE Goal
    <2>1. /\ handler[h].pc = "failed" /\ handler[h].call \in Calls
          /\ Made(made, handler[h].attempts + 1)
      BY <1>0, <1>i, <1>16 DEF Retry, HandlerOK, HandlersInOrder
    <2>2. /\ handler' = [handler EXCEPT ![h].pc = "pushed"] /\ pending' = pending
          /\ made' = made /\ record' = record /\ phone' = phone /\ worker' = worker
          /\ sent' = [sent EXCEPT ![handler[h].call].retry = @ + 1]
      BY <1>16 DEF Retry
    <2> DEFINE t == Task(TRUE, handler[h].attempts + 1)
    <2>3. handler[h].attempts \in 0 .. MaxAttempts /\ handler[h].attempts < MaxAttempts
      BY <1>0, <1>16 DEF Retry, HandlerOK, HandlerType
    <2>4. t \in TaskType /\ t.attempt = handler[h].attempts + 1 /\ queue' = <<t>> \o queue
      BY <1>16, <2>3, CodShieldAssumption DEF Retry, Push, Task, TaskType, Attempts
    <2> HIDE DEF t
    <2>5. TasksInOrder'  BY <1>s, <2>1, <2>2, <2>4
    <2>6. QED  BY <1>w, <1>r, <1>g, <1>u, <1>p, <2>1, <2>2, <2>5
  <1>17. ASSUME NEW h \in Handlers, FallBack(h) PROVE Goal
    <2>1. /\ handler[h].pc = "failed" /\ Made(made, handler[h].attempts + 1)
          /\ handler[h].attempts >= MaxAttempts /\ handler[h].attempts \in Nat
      BY <1>0, <1>i, <1>17, CodShieldAssumption
         DEF FallBack, HandlerOK, HandlerType, HandlersInOrder
    <2>2. AllMade  BY <2>1, CodShieldAssumption DEF Made, Attempts
    <2>3. /\ handler' = [handler EXCEPT ![h].pc = "pushed"] /\ pending' = pending
          /\ made' = made /\ record' = record /\ phone' = phone /\ worker' = worker
          /\ queue' = queue
      BY <1>17 DEF FallBack
    <2>4. FallbackAfterAllCalls'  BY <2>2, <2>3 DEF FallbackAfterAllCalls
    <2>5. QED  BY <1>q, <1>w, <1>r, <1>g, <1>p, <2>1, <2>3, <2>4
  <1>18. ASSUME NEW h \in Handlers, PushFails(h) PROVE Goal
    BY <1>18, <1>q, <1>w, <1>r, <1>g, <1>f, <1>p DEF PushFails
  \* A handler ends.
  <1>d. ASSUME NEW h \in Handlers, HandlerDone(h), made' = made,
               \A g \in Handlers : handler[g].pc \in {"failed", "pushed"} =>
                                      pending'[handler[g].call] = pending[handler[g].call]
        PROVE  HandlersInOrder'
    BY <1>0, <1>i, <1>d, HandlerDoneType DEF HandlersInOrder
  <1>19. ASSUME NEW h \in Handlers, CommitFailed(h) PROVE Goal
    <2> DEFINE c == handler[h].call
    <2>1. /\ c \in Calls /\ record'[c].sid = record[c].sid
          /\ \A d \in Calls \ {c} : record'[d] = record[d]
      BY <1>0, <1>19, CommitFailedRecord
    <2>2. /\ handler[h].pc = "pushed" /\ HandlerDone(h) /\ phone' = phone
          /\ pending' = pending /\ made' = made /\ queue' = queue /\ worker' = worker
          /\ sent' = sent
      BY <1>19 DEF CommitFailed
    <2>3. phone[c] = "unanswered" /\ pending[c] = 0 /\ record[c].sid
      BY <1>0, <1>i, <2>2 DEF Unanswered, HandlersInOrder
    <2>4. RecordsInOrder'  BY <1>i, <2>1, <2>2, <2>3 DEF RecordsInOrder
    <2>5. \A w \in Workers : worker[w].pc # "idle" =>
             worker[w].call \in Calls /\ worker[w].call # c
      BY <1>0, <2>3 DEF OwnCalls, WorkerOK
    <2>6. WorkersInOrder'
      <3>1. \A w \in Workers : worker[w].pc # "idle" =>
               record'[worker[w].call] = record[worker[w].call]
        BY <2>1, <2>5
      <3>2. QED  BY <1>i, <2>2, <3>1 DEF WorkersInOrder
    <2>7. QED  BY <1>q, <1>d, <1>f, <1>p, <2>2, <2>4, <2>6
  <1>20. ASSUME NEW h \in Handlers, NEW c \in Calls, NEW d \in Digits, LoadDigit(h, c, d)
         PROVE  Goal
    <2>0. Load(h, c, "digit", d) /\ "digit" \in {"failed", "digit"}  BY <1>20 DEF LoadDigit
    <2>1. /\ handler'[h].pc = "digit" /\ \A g \in Handlers \ {h} : handler'[g] = handler[g]
      BY <1>0, <2>0, LoadType
    <2>2. /\ phone[c] = "answered" /\ \A b \in Calls \ {c} : phone'[b] = phone[b]
          /\ record' = record /\ pending' = pending /\ made' = made /\ queue' = queue
          /\ worker' = worker /\ sent' = sent
      BY <1>0, <1>20 DEF LoadDigit, CallOK
    <2>3. HandlersInOrder'  BY <1>i, <2>1, <2>2 DEF HandlersInOrder
    <2>4. RecordsInOrder'  BY <1>i, <2>2 DEF RecordsInOrder
    <2>5. QED  BY <1>q, <1>w, <1>f, <1>p, <2>2, <2>3, <2>4
  \* What the answer to a digit makes of the call.
  <1>a. ASSUME NEW c \in Calls, NEW d \in Digits, AfterDigit(c, d)
        PROVE  /\ pending'[c] \in {0, 1, pending[c]}
               /\ \A b \in Calls \ {c} : phone'[b] = phone[b] /\ pending'[b] = pending[b]
    BY <1>0, <1>m, <1>a DEF AfterDigit, CallOK
  <1>21. ASSUME NEW h \in Handlers, NEW c \in Calls, NEW d \in Digits, IgnoreDigit(h, c, d)
         PROVE  Goal
    <2>1. AfterDigit(c, d) /\ phone[c] = "answered"  BY <1>21 DEF IgnoreDigit
    <2>2. /\ handler' = handler /\ record' = record /\ worker' = worker /\ made' = made
          /\ queue' = queue /\ sent' = sent
      BY <1>21 DEF IgnoreDigit
    <2>3. /\ pending'[c] \in {0, 1, pending[c]}
          /\ \A b \in Calls \ {c} : phone'[b] = phone[b] /\ pending'[b] = pending[b]
      BY <1>a, <2>1
    <2>4. RecordsInOrder' /\ HandlersInOrder' /\ Few'  BY <1>e, <2>1, <2>2, <2>3
    <2>5. QED  BY <1>q, <1>w, <1>f, <2>2, <2>4
  <1>22. ASSUME NEW h \in Handlers, SaveTheSale(h) PROVE Goal
    <2>1. /\ handler[h].pc = "digit" /\ handler[h].call \in Calls
          /\ handler' = [handler EXCEPT ![h].pc = "decided"] /\ pending' = pending
          /\ made' = made /\ record' = record /\ phone' = phone /\ worker' = worker
          /\ queue' = queue
      BY <1>0, <1>22 DEF SaveTheSale, HandlerOK
    <2>2. sent' = sent \/ sent' = [sent EXCEPT ![handler[h].call].save = @ + 1]
      BY <1>22 DEF SaveTheSale
    <2>3. FallbackAfterAllCalls'  BY <1>u, <1>f, <2>1, <2>2
    <2>4. QED  BY <1>q, <1>w, <1>r, <1>g, <1>p, <2>1, <2>3
  \* A handler of a digit ends.
  <1>b. ASSUME NEW h \in Handlers, handler[h].pc \in {"digit", "decided"}, HandlerDone(h),
               AfterDigit(handler[h].call, handler[h].digit), made' = made, worker' = worker,
               \A d \in Calls : /\ record'[d].attempts = record[d].attempts
                                 /\ record'[d].sid = record[d].sid
        PROVE  WorkersInOrder' /\ RecordsInOrder' /\ HandlersInOrder' /\ Few'
    <2> DEFINE c == handler[h].call
    <2>1. c \in Calls /\ handler[h].digit \in Digits /\ phone[c] = "waiting"
      BY <1>0, <1>b DEF HandlerOK, HandlerType, Waiting
    <2>2. /\ pending'[c] \in {0, 1, pending[c]}
          /\ \A b \in Calls \ {c} : phone'[b] = phone[b] /\ pending'[b] = pending[b]
      BY <1>a, <1>b, <2>1
    <2>3. RecordsInOrder'  BY <1>i, <1>b, <2>1, <2>2 DEF RecordsInOrder
    <2>4. Few'  BY <1>i, <2>1, <2>2 DEF Few
    <2>5. \A g \in Handlers : handler[g].pc \in {"failed", "pushed"} =>
             handler[g].call \in Calls /\ handler[g].call # c
      BY <1>0, <2>1 DEF HandlerOK, Unanswered
    <2>6. HandlersInOrder'  BY <1>b, <1>d, <2>2, <2>5
    <2>7. WorkersInOrder'  BY <1>0, <1>i, <1>b DEF WorkersInOrder, WorkerOK
    <2>8. QED  BY <2>3, <2>4, <2>6, <2>7
  <1>23. ASSUME NEW h \in Handlers, CommitDigit(h) PROVE Goal
    <2> DEFINE c == handler[h].call
    <2>1. c \in Calls /\ Decision(handler[h].digit) \in Statuses
      BY <1>0, <1>23 DEF CommitDigit, HandlerOK, Decision, Statuses
    <2>2. \A d \in Calls : record'[d].attempts = record[d].attempts /\ record'[d].sid = record[d].sid
      BY <1>0, <1>23, <2>1, StatusType DEF CommitDigit
    <2>3. /\ handler[h].pc \in {"digit", "decided"} /\ HandlerDone(h)
          /\ AfterDigit(handler[h].call, handler[h].digit) /\ made' = made /\ worker' = worker
          /\ queue' = queue /\ sent' = sent
      BY <1>23 DEF CommitDigit
    <2>4. QED  BY <1>b, <1>q, <1>f, <2>2, <2>3
  <1>24. ASSUME NEW h \in Handlers, HandlerFails(h) PROVE Goal
    <2>1. /\ HandlerDone(h) /\ made' = made /\ worker' = worker /\ queue' = queue
          /\ sent' = sent /\ record' = record
      BY <1>24 DEF HandlerFails
    <2>2. CASE handler[h].pc \in {"digit", "decided"}
      BY <1>24, <1>b, <1>q, <1>f, <2>1, <2>2 DEF HandlerFails
    <2>3. CASE handler[h].pc \notin {"digit", "decided"}
      <3>1. phone' = phone /\ pending' = pending  BY <1>24, <2>3 DEF HandlerFails
      <3>2. QED  BY <1>q, <1>w, <1>r, <1>d, <1>f, <1>p, <2>1, <3>1
    <2>4. QED  BY <2>2, <2>3
  <1>25. CASE UNCHANGED vars  BY <1>25, <1>q, <1>w, <1>r, <1>h, <1>f, <1>p DEF vars
  <1>26. QED
    BY <1>1, <1>2, <1>3, <1>4, <1>5, <1>6, <1>7, <1>8, <1>9, <1>10, <1>11, <1>12,
       <1>14, <1>15, <1>16, <1>17, <1>18, <1>19, <1>20, <1>21, <1>22, <1>23, <1>24, <1>25
       DEF Next, WorkerStep, HandlerStep, Callback

\* A callback is one of those Twilio delivers for the end of a call.
LEMMA ReportsKept ==
    ASSUME Deliveries \subseteq {0, 1}, TypeOK, [Next]_vars, \A c \in Calls : pending[c] <= 1
    PROVE  \A c \in Calls : pending'[c] <= 1
  <1>1. CallOK /\ HandlerOK  BY Parts
  <1> DEFINE Goal == \A c \in Calls : pending'[c] <= 1
  <1>2. pending' = pending => Goal  OBVIOUS
  <1>3. ASSUME NEW c \in Calls, NEW d, AfterDigit(c, d) PROVE Goal
    BY <1>1, <1>3 DEF AfterDigit, CallOK
  <1>4. ASSUME NEW c \in Calls, EndCall(c) PROVE Goal  BY <1>1, <1>4 DEF EndCall, CallOK
  <1>5. ASSUME NEW h \in Handlers, NEW c \in Calls, LoadFailed(h, c) \/ IgnoreStatus(h, c)
        PROVE  Goal
    BY <1>1, <1>5 DEF LoadFailed, IgnoreStatus, Arrives, CallOK
  <1>6. ASSUME NEW h \in Handlers, CommitDigit(h) \/ HandlerFails(h) PROVE Goal
    BY <1>1, <1>2, <1>3, <1>6 DEF CommitDigit, HandlerFails, HandlerOK
  <1>7. ASSUME NEW w \in Workers, WorkerStep(w) PROVE pending' = pending
    BY <1>7 DEF WorkerStep, TakeTask, SkipTask, CreateRecord, RecordFails, Dial, DialFails,
                StoreMapping, CommitCall, CommitRejected, WorkerFails
  <1>8. ASSUME NEW h \in Handlers, HandlerStep(h) PROVE Goal
    BY <1>2, <1>6, <1>8 DEF HandlerStep, Retry, FallBack, PushFails, CommitFailed, SaveTheSale
  <1>9. ASSUME NEW h \in Handlers, NEW c \in Calls, Callback(h, c) PROVE Goal
    BY <1>2, <1>3, <1>5, <1>9 DEF Callback, LoadDigit, IgnoreDigit
  <1>10. QED
    BY <1>2, <1>4, <1>7, <1>8, <1>9 DEF Next, Trigger, Answer, vars

\* If Twilio reports the end of a call at most once, WhatsApp is the last
\* resort: every one of the max_attempts calls was made before, however many
\* webhooks, workers and handlers there are and whatever fails.
THEOREM WhatsAppIsLast ==
    ASSUME Deliveries \subseteq {0, 1}
    PROVE  Spec => []FallbackAfterAllCalls
  <1>1. TypeOK /\ TypeOK' /\ CallInv /\ [Next]_vars => CallInv'  BY CallStep
  <1>2. TypeOK /\ TypeOK' /\ CallInv /\ OnceInv /\ [Next]_vars => OnceInv'
    <2> SUFFICES ASSUME TypeOK, TypeOK', CallInv, OnceInv, [Next]_vars PROVE OnceInv'
      OBVIOUS
    <2>1. \A c \in Calls : pending'[c] <= 1  BY ReportsKept DEF OnceInv
    <2>2. QED  BY <2>1, OnceStep
  <1>3. OnceInv => FallbackAfterAllCalls  BY DEF OnceInv
  <1>4. QED  BY <1>1, <1>2, <1>3, TypeInit, TypeStep, CallInit, OnceInit, PTL DEF Spec

-----------------------------------------------------------------------------
(* One call per attempt and webhook                                        *)

\* What can still become a call of attempt k: the tasks queued and the calls of
\* workers that have not dialled.
TasksAt(q, k) == {i \in 1 .. Len(q) : q[i].attempt = k}

Undialled(k) ==
    {c \in Calls : \E w \in Workers :
        worker[w].pc \in {"taken", "stored"} /\ worker[w].call = c /\ worker[w].attempt = k}

\* The calls of attempt k that may still be followed by one of attempt k + 1:
\* dialled and not stored, not reported, or reported and not queued again.
Retriable(k) ==
    {c \in Calls :
        \/ \E w \in Workers : /\ worker[w].pc \in {"dialled", "mapped"}
                              /\ worker[w].call = c /\ worker[w].attempt = k
        \/ /\ record[c].sid /\ record[c].attempts = k
           /\ phone[c] # "unanswered" \/ pending[c] > 0
        \/ \E h \in Handlers : /\ handler[h].pc = "failed"
                               /\ handler[h].call = c /\ handler[h].attempts = k}

Claims(k) == made[k] + Cardinality(TasksAt(queue, k)) + Cardinality(Undialled(k))

\* A call's end is reported to one handler.
HandledOnce ==
    \A g, h \in Handlers :
        handler[g].pc = "failed" /\ handler[h].pc = "failed" /\ g # h =>
           handler[g].call # handler[h].call

\* A call that Twilio reports has the number of its attempt.
Numbered ==
    /\ \A c \in Calls : record[c].sid => record[c].attempts \in Attempts
    /\ \A h \in Handlers : handler[h].pc \in {"failed", "pushed"} => handler[h].attempts \in Attempts

\* Every call of an attempt stems from a webhook, or from a call of the attempt
\* before, that no other call stems from.
CountInv ==
    /\ HandledOnce
    /\ Claims(1) <= triggers
    /\ \A k \in Attempts : k + 1 \in Attempts =>
          Claims(k + 1) + Cardinality(Retriable(k)) <= made[k]
    /\ CallsWithinTriggers

\* Sizes: of sets of calls, and of the tasks of an attempt after a push and a pop.
LEMMA CallSets ==
    ASSUME NEW S, S \subseteq Calls
    PROVE  /\ IsFiniteSet(S) /\ Cardinality(S) \in Nat
           /\ \A T : T \subseteq S => Cardinality(T) <= Cardinality(S)
           /\ \A c \in S : Cardinality(S \ {c}) = Cardinality(S) - 1
           /\ \A c : Cardinality(S \cup {c}) <= Cardinality(S) + 1
  <1>1. IsFiniteSet(Calls)
    <2>1. 1 \in Int /\ MaxCalls \in Int  BY CodShieldAssumption
    <2>2. QED  BY <2>1, FS_Interval DEF Calls
  <1>2. IsFiniteSet(S)  BY <1>1, FS_Subset
  <1>3. Cardinality(S) \in Nat  BY <1>2, FS_CardinalityType
  <1>4. \A T : T \subseteq S => Cardinality(T) <= Cardinality(S)  BY <1>2, FS_Subset
  <1>5. \A c \in S : Cardinality(S \ {c}) = Cardinality(S) - 1  BY <1>2, FS_RemoveElement
  <1>6. \A c : Cardinality(S \cup {c}) <= Cardinality(S) + 1
    <2>1. \A c : Cardinality(S \cup {c}) = IF c \in S THEN Cardinality(S) ELSE Cardinality(S) + 1
      BY <1>2, FS_AddElement
    <2>2. QED  BY <1>3, <2>1
  <1>7. QED  BY <1>2, <1>3, <1>4, <1>5, <1>6

LEMMA TasksFinite ==
    ASSUME NEW q \in Seq(TaskType), NEW k
    PROVE  IsFiniteSet(TasksAt(q, k)) /\ Cardinality(TasksAt(q, k)) \in Nat
  <1>1. 1 \in Int /\ Len(q) \in Int  OBVIOUS
  <1>2. IsFiniteSet(1 .. Len(q))  BY <1>1, FS_Interval
  <1>3. IsFiniteSet(TasksAt(q, k))  BY <1>2, FS_Subset DEF TasksAt
  <1>4. QED  BY <1>3, FS_CardinalityType

LEMMA PushCount ==
    ASSUME NEW q \in Seq(TaskType), NEW t \in TaskType, NEW k
    PROVE  Cardinality(TasksAt(<<t>> \o q, k)) =
               Cardinality(TasksAt(q, k)) + IF t.attempt = k THEN 1 ELSE 0
  <1> DEFINE r == <<t>> \o q
             T == TasksAt(q, k)
             M == {j \in 2 .. Len(r) : r[j].attempt = k}
             f == [i \in T |-> i + 1]
  <1>1. /\ r[1] = t /\ Len(r) = Len(q) + 1 /\ Len(q) \in Nat
        /\ \A i \in 2 .. Len(r) : r[i] = q[i - 1] /\ i - 1 \in 1 .. Len(q)
    BY PushAt
  <1> HIDE DEF r
  <1>2. IsFiniteSet(T) /\ Cardinality(T) \in Nat  BY TasksFinite
  <1>3. f \in Bijection(T, M)
    <2>1. \A i \in T : i \in 1 .. Len(q) /\ i + 1 \in 2 .. Len(r) /\ r[i + 1] = q[i + 1 - 1]
      BY <1>1 DEF TasksAt
    <2>2. \A i \in T : i + 1 \in M
      <3>1. \A i \in T : i + 1 - 1 = i /\ q[i].attempt = k  BY <2>1 DEF TasksAt
      <3>2. QED  BY <2>1, <3>1
    <2>3. \A j \in M : j - 1 \in T /\ f[j - 1] = j  BY <1>1 DEF TasksAt
    <2>4. f \in [T -> M]  BY <2>2
    <2>5. \A i, j \in T : f[i] = f[j] => i = j  BY <2>1
    <2> HIDE DEF T, M, f
    <2>6. f \in Injection(T, M)  BY <2>4, <2>5 DEF Injection, IsInjective
    <2>7. \A j \in M : \E i \in T : f[i] = j  BY <2>3
    <2>8. f \in Surjection(T, M)  BY <2>4, <2>7 DEF Surjection
    <2>9. QED  BY <2>6, <2>8 DEF Bijection
  <1>4. IsFiniteSet(M) /\ Cardinality(M) = Cardinality(T)
    BY <1>2, <1>3, FS_Bijection DEF ExistsBijection
  <1>5. 1 \notin M  OBVIOUS
  <1>6. TasksAt(r, k) = IF t.attempt = k THEN M \cup {1} ELSE M
    BY <1>1 DEF TasksAt
  <1>7. Cardinality(M \cup {1}) = Cardinality(M) + 1  BY <1>4, <1>5, FS_AddElement
  <1> HIDE DEF T, M, f
  <1>8. Cardinality(TasksAt(r, k)) = Cardinality(T) + IF t.attempt = k THEN 1 ELSE 0
    BY <1>2, <1>4, <1>6, <1>7
  <1>9. QED  BY <1>8 DEF T, r

LEMMA PopCount ==
    ASSUME NEW q \in Seq(TaskType), q # <<>>, NEW r, r = SubSeq(q, 1, Len(q) - 1), NEW k
    PROVE  Cardinality(TasksAt(r, k)) =
               Cardinality(TasksAt(q, k)) - IF q[Len(q)].attempt = k THEN 1 ELSE 0
  <1>1. /\ Len(q) \in 1 .. Len(q) /\ Len(r) = Len(q) - 1
        /\ \A i \in 1 .. Len(r) : r[i] = q[i] /\ i \in 1 .. Len(q)
    BY PopAt
  <1>2. IsFiniteSet(TasksAt(q, k)) /\ Cardinality(TasksAt(q, k)) \in Nat  BY TasksFinite
  <1>3. TasksAt(r, k) = TasksAt(q, k) \ {Len(q)}  BY <1>1 DEF TasksAt
  <1>4. Len(q) \in TasksAt(q, k) <=> q[Len(q)].attempt = k  BY <1>1 DEF TasksAt
  <1>5. QED  BY <1>2, <1>3, <1>4, FS_RemoveElement

LEMMA CountInit == Init => CountInv
  <1> SUFFICES ASSUME Init PROVE CountInv  OBVIOUS
  <1>1. HandledOnce /\ CallsWithinTriggers
    BY DEF Init, HandledOnce, CallsWithinTriggers, NoHandling
  <1>2. ASSUME NEW k PROVE Cardinality(TasksAt(queue, k)) = 0 /\ Undialled(k) = {} /\ Retriable(k) = {}
    <2>1. TasksAt(queue, k) = {} /\ Undialled(k) = {} /\ Retriable(k) = {}
      BY DEF Init, TasksAt, Undialled, Retriable, Resting, NoRecord, NoHandling
    <2>2. QED  BY <2>1, FS_EmptySet
  <1>3. Cardinality({}) = 0  BY FS_EmptySet
  <1>4. ASSUME NEW k \in Attempts PROVE Claims(k) = 0 /\ Cardinality(Retriable(k)) = 0
    <2>1. made[k] = 0  BY DEF Init
    <2>2. /\ Cardinality(TasksAt(queue, k)) = 0 /\ Cardinality(Undialled(k)) = 0
          /\ Cardinality(Retriable(k)) = 0
      BY <1>2, <1>3
    <2>3. QED  BY <2>1, <2>2 DEF Claims
  <1>5. 1 \in Attempts  BY CodShieldAssumption DEF Attempts
  <1>6. QED  BY <1>1, <1>4, <1>5, CodShieldAssumption DEF CountInv, Init, Attempts

LEMMA NumberedStep ==
    ASSUME TypeOK, TypeOK', CallInv, OnceInv, Numbered, [Next]_vars
    PROVE  Numbered'
  <1>0. /\ WorkerOK /\ RecordOK /\ HandlerOK /\ HandlerOK' /\ RecordOK'
        /\ OwnCalls /\ Unanswered /\ WorkersInOrder
    BY Parts, PartsPrimed DEF CallInv, OnceInv
  <1> DEFINE Records == \A c \in Calls : record[c].sid => record[c].attempts \in Attempts
             Handled == \A h \in Handlers : handler[h].pc \in {"failed", "pushed"} =>
                                               handler[h].attempts \in Attempts
             Goal == Records' /\ Handled'
  <1>n. Records /\ Handled  BY DEF Numbered
  <1> SUFFICES Goal  BY DEF Numbered
  <1>r. (\A c \in Calls : /\ record'[c].sid = record[c].sid
                          /\ record'[c].attempts = record[c].attempts) => Records'
    BY <1>n
  <1>h. handler' = handler => Handled'  BY <1>n
  <1>d. ASSUME NEW h \in Handlers, HandlerDone(h) PROVE Handled'
    BY <1>0, <1>d, <1>n, HandlerDoneType
  <1>p. ASSUME NEW h \in Handlers, NEW p \in {"pushed", "decided"}, handler[h].pc # "idle",
               p = "pushed" => handler[h].pc = "failed", handler' = [handler EXCEPT ![h].pc = p]
        PROVE  Handled'
    <2>1. /\ \A g \in Handlers \ {h} : handler'[g] = handler[g]
          /\ handler'[h].pc = p /\ handler'[h].attempts = handler[h].attempts
      BY <1>0, <1>p, HandlerPcType DEF HandlerPc
    <2>2. QED  BY <1>n, <1>p, <2>1
  <1> HIDE DEF Records, Handled
  <1>4. ASSUME NEW w \in Workers, CreateRecord(w) PROVE Goal
    <2>1. /\ ~record'[worker[w].call].sid /\ handler' = handler
          /\ \A d \in Calls \ {worker[w].call} : record'[d] = record[d]
      BY <1>0, <1>4 DEF CreateRecord, WorkerOK, RecordOK
    <2>2. QED  BY <1>h, <1>n, <2>1 DEF Records
  <1>9. ASSUME NEW w \in Workers, CommitCall(w) PROVE Goal
    <2> DEFINE c == worker[w].call
    <2>1. /\ c \in Calls /\ record'[c].attempts = record[c].attempts
          /\ \A d \in Calls \ {c} : record'[d] = record[d]
      BY <1>0, <1>9, CommitCallRecord
    <2>2. record[c].attempts = worker[w].attempt /\ worker[w].attempt \in Attempts
      BY <1>0, <1>9 DEF CommitCall, WorkersInOrder, WorkerOK
    <2>3. handler' = handler  BY <1>9 DEF CommitCall
    <2>4. QED  BY <1>h, <1>n, <2>1, <2>2, <2>3 DEF Records
  <1>10. ASSUME NEW w \in Workers, CommitRejected(w) PROVE Goal
    <2>1. worker[w].call \in Calls /\ handler' = handler
      BY <1>0, <1>10 DEF CommitRejected, WorkerOK
    <2>2. \A d \in Calls : record'[d].attempts = record[d].attempts /\ record'[d].sid = record[d].sid
      BY <1>0, <1>10, <2>1, StatusType DEF CommitRejected, Statuses
    <2>3. QED  BY <1>h, <1>r, <2>1, <2>2
  <1>w. ASSUME NEW w \in Workers, WorkerStep(w) PROVE Goal
    <2>1. CASE CreateRecord(w) \/ CommitCall(w) \/ CommitRejected(w)
      BY <1>4, <1>9, <1>10, <2>1
    <2>2. CASE ~(CreateRecord(w) \/ CommitCall(w) \/ CommitRejected(w))
      <3>1. record' = record /\ handler' = handler
        BY <1>w, <2>2 DEF WorkerStep, TakeTask, SkipTask, RecordFails, Dial, DialFails,
                          StoreMapping, WorkerFails
      <3>2. QED  BY <1>h, <1>r, <3>1
    <2>3. QED  BY <2>1, <2>2
  <1>l. ASSUME NEW h \in Handlers, NEW c \in Calls, Callback(h, c) PROVE Goal
    <2>1. record' = record
      BY <1>l DEF Callback, LoadFailed, IgnoreStatus, LoadDigit, IgnoreDigit
    <2>2. CASE LoadFailed(h, c)
      <3>1. /\ handler'[h].attempts = record[c].attempts /\ record[c].sid
            /\ \A g \in Handlers \ {h} : handler'[g] = handler[g]
        BY <1>0, <2>2, LoadType DEF LoadFailed, Digits, Known
      <3>2. QED  BY <1>n, <1>r, <2>1, <3>1 DEF Records, Handled
    <2>3. ASSUME NEW d \in Digits, LoadDigit(h, c, d) PROVE Goal
      <3>1. /\ handler'[h].pc = "digit" /\ \A g \in Handlers \ {h} : handler'[g] = handler[g]
        BY <1>0, <2>3, LoadType DEF LoadDigit
      <3>2. QED  BY <1>n, <1>r, <2>1, <3>1 DEF Handled
    <2>4. ASSUME IgnoreStatus(h, c) \/ \E d \in Digits : IgnoreDigit(h, c, d) PROVE Goal
      BY <1>h, <1>r, <2>1, <2>4 DEF IgnoreStatus, IgnoreDigit
    <2>5. QED  BY <1>l, <2>2, <2>3, <2>4 DEF Callback
  <1>16. ASSUME NEW h \in Handlers, Retry(h) \/ FallBack(h) \/ PushFails(h) \/ SaveTheSale(h)
         PROVE  Goal
    <2>1. record' = record  BY <1>16 DEF Retry, FallBack, PushFails, SaveTheSale
    <2>2. Handled'  BY <1>16, <1>p DEF Retry, FallBack, PushFails, SaveTheSale
    <2>3. QED  BY <1>r, <2>1, <2>2
  <1>19. ASSUME NEW h \in Handlers, CommitFailed(h) PROVE Goal
    <2> DEFINE c == handler[h].call
    <2>1. /\ c \in Calls /\ record'[c].sid = record[c].sid
          /\ record'[c].attempts = IF handler[h].attempts < MaxAttempts
                                   THEN handler[h].attempts + 1 ELSE record[c].attempts
          /\ \A d \in Calls \ {c} : record'[d] = record[d]
      BY <1>0, <1>19, CommitFailedRecord
    <2>2. handler[h].attempts \in Attempts  BY <1>19, <1>n DEF CommitFailed, Handled
    <2>3. record'[c].sid => record'[c].attempts \in Attempts
      <3>1. CASE handler[h].attempts < MaxAttempts
        BY <2>1, <2>2, <3>1, CodShieldAssumption DEF Attempts
      <3>2. CASE ~(handler[h].attempts < MaxAttempts)  BY <1>n, <2>1, <3>2 DEF Records
      <3>3. QED  BY <3>1, <3>2
    <2>4. QED  BY <1>d, <1>n, <1>19, <2>1, <2>3 DEF CommitFailed, Records
  <1>23. ASSUME NEW h \in Handlers, CommitDigit(h) PROVE Goal
    <2>1. handler[h].call \in Calls /\ Decision(handler[h].digit) \in Statuses
      BY <1>0, <1>23 DEF CommitDigit, HandlerOK, Decision, Statuses
    <2>2. \A d \in Calls : record'[d].attempts = record[d].attempts /\ record'[d].sid = record[d].sid
      BY <1>0, <1>23, <2>1, StatusType DEF CommitDigit
    <2>3. QED  BY <1>d, <1>r, <1>23, <2>2 DEF CommitDigit
  <1>24. ASSUME NEW h \in Handlers, HandlerFails(h) PROVE Goal
    BY <1>d, <1>r, <1>24 DEF HandlerFails
  <1>o. ASSUME \/ \E known \in Sources : Trigger(known)
               \/ \E c \in Calls : Answer(c) \/ EndCall(c)
               \/ UNCHANGED vars
        PROVE  Goal
    BY <1>h, <1>o, <1>r DEF Trigger, Answer, EndCall, vars
  <1>26. QED
    BY <1>16, <1>19, <1>23, <1>24, <1>l, <1>o, <1>w DEF Next, HandlerStep

\* ... and a call that may be retried was made: there are no more of them than before
\* and calls made since.
LEMMA CountStep ==
    ASSUME TypeOK, TypeOK', CallInv, OnceInv, Numbered, CountInv, [Next]_vars
    PROVE  /\ CountInv'
           /\ \A k \in Attempts :
                 Cardinality(Retriable(k)') + made[k] <= Cardinality(Retriable(k)) + made'[k]
  <1>0. /\ QueueOK /\ WorkerOK /\ RecordOK /\ CallOK /\ HandlerOK /\ MadeOK
        /\ QueueOK' /\ WorkerOK' /\ HandlerOK' /\ MadeOK'
        /\ OwnCalls /\ Unanswered /\ Waiting /\ WorkersInOrder /\ HandlersInOrder
    BY Parts, PartsPrimed DEF CallInv, OnceInv
  <1>c. /\ HandledOnce /\ Claims(1) <= triggers /\ CallsWithinTriggers
        /\ \A k \in Attempts : k + 1 \in Attempts =>
              Claims(k + 1) + Cardinality(Retriable(k)) <= made[k]
    BY DEF CountInv
  <1>1a. 1 \in Attempts /\ \A k \in Attempts : k \in Nat /\ k >= 1
    BY CodShieldAssumption DEF Attempts
  \* Sizes are natural numbers.
  <1>n. ASSUME NEW k
        PROVE  /\ Cardinality(TasksAt(queue, k)) \in Nat /\ Cardinality(TasksAt(queue', k)) \in Nat
               /\ Undialled(k) \subseteq Calls /\ Undialled(k)' \subseteq Calls
               /\ Retriable(k) \subseteq Calls /\ Retriable(k)' \subseteq Calls
               /\ Cardinality(Undialled(k)) \in Nat /\ Cardinality(Undialled(k)') \in Nat
               /\ Cardinality(Retriable(k)) \in Nat /\ Cardinality(Retriable(k)') \in Nat
    <2>1. /\ Cardinality(TasksAt(queue, k)) \in Nat /\ Cardinality(TasksAt(queue', k)) \in Nat
      BY <1>0, TasksFinite DEF QueueOK
    <2>2. /\ Undialled(k) \subseteq Calls /\ Undialled(k)' \subseteq Calls
          /\ Retriable(k) \subseteq Calls /\ Retriable(k)' \subseteq Calls
      BY DEF Undialled, Retriable
    <2>3. QED  BY <2>1, <2>2, CallSets
  <1>m. /\ triggers \in Nat /\ triggers' \in Nat
        /\ \A k \in Attempts : made[k] \in Nat /\ made'[k] \in Nat
    BY <1>0 DEF MadeOK
  <1>d. \A k \in Attempts :
           /\ Claims(k) = made[k] + Cardinality(TasksAt(queue, k)) + Cardinality(Undialled(k))
           /\ Claims(k)' = made'[k] + Cardinality(TasksAt(queue', k)) + Cardinality(Undialled(k)')
           /\ Claims(k) \in Nat /\ Claims(k)' \in Nat
    BY <1>n, <1>m DEF Claims
  <1> DEFINE Few(k) == Cardinality(Undialled(k)') <= Cardinality(Undialled(k))
             Rest1(k) == Cardinality(Retriable(k)') <= Cardinality(Retriable(k))
             Queued(k) == Cardinality(TasksAt(queue', k)) = Cardinality(TasksAt(queue, k))
             Grown(k) == Cardinality(Retriable(k)') + made[k] <=
                            Cardinality(Retriable(k)) + made'[k]
             Goal == CountInv' /\ \A k \in Attempts : Grown(k)
  <1> SUFFICES Goal  OBVIOUS
  <1>u. \A k : Undialled(k)' \subseteq Undialled(k) => Few(k)
    BY <1>n, CallSets
  <1>r. \A k : Retriable(k)' \subseteq Retriable(k) => Rest1(k)
    BY <1>n, CallSets
  <1>q. queue' = queue => \A k : Queued(k)  OBVIOUS
  \* A step that makes no call, and claims no more than it gives up.
  <1>k. ASSUME HandledOnce', made' = made, triggers' >= triggers,
               \A k \in Attempts : Rest1(k),
               Claims(1)' - Claims(1) <= triggers' - triggers,
               \A k \in Attempts : k + 1 \in Attempts =>
                  Claims(k + 1)' + Cardinality(Retriable(k)') <=
                  Claims(k + 1) + Cardinality(Retriable(k))
        PROVE  Goal
    <2>1. CallsWithinTriggers'  BY <1>c, <1>k, <1>m DEF CallsWithinTriggers
    <2>2. Claims(1)' <= triggers'  BY <1>1a, <1>c, <1>d, <1>k, <1>m
    <2>3. ASSUME NEW k \in Attempts, k + 1 \in Attempts
          PROVE  Claims(k + 1)' + Cardinality(Retriable(k)') <= made'[k]
      BY <1>c, <1>d, <1>k, <1>m, <1>n, <2>3
    <2>4. Claims(1)' <= triggers' /\ \A k \in Attempts : k + 1 \in Attempts =>
             (Claims(k + 1) + Cardinality(Retriable(k)) <= made[k])'
      BY <2>2, <2>3
    <2>5. \A k \in Attempts : Grown(k)  BY <1>k, <1>m, <1>n
    <2>6. QED  BY <1>k, <2>1, <2>4, <2>5 DEF CountInv
  <1> HIDE DEF Goal
  <1>j. ASSUME HandledOnce', made' = made, triggers' = triggers,
               \A k \in Attempts : Claims(k)' <= Claims(k) /\ Rest1(k)
        PROVE  Goal
    <2>1. Claims(1)' - Claims(1) <= triggers' - triggers /\ triggers' >= triggers
      BY <1>1a, <1>d, <1>j, <1>m
    <2>2. ASSUME NEW k \in Attempts, k + 1 \in Attempts
          PROVE  Claims(k + 1)' + Cardinality(Retriable(k)') <=
                 Claims(k + 1) + Cardinality(Retriable(k))
      BY <1>d, <1>j, <1>n, <2>2
    <2>3. QED  BY <1>j, <1>k, <2>1, <2>2
  <1>l. ASSUME HandledOnce', made' = made, triggers' = triggers,
               \A k \in Attempts : Queued(k) /\ Few(k) /\ Rest1(k)
        PROVE  Goal
    <2>1. \A k \in Attempts : Claims(k)' <= Claims(k)  BY <1>d, <1>l, <1>m, <1>n
    <2>2. QED  BY <1>j, <1>l, <2>1
  <1>h. handler' = handler => HandledOnce'  BY <1>c DEF HandledOnce
  <1>w. worker' = worker => \A k : Undialled(k)' = Undialled(k)  BY DEF Undialled
  \* Only the handlers' and the calls' state changes, for call c at most.
  <1>f. ASSUME queue' = queue, worker' = worker, made' = made, triggers' = triggers,
               HandledOnce', \A k : Retriable(k)' \subseteq Retriable(k)
        PROVE  Goal
    BY <1>f, <1>l, <1>q, <1>r, <1>u, <1>w
  <1>1. ASSUME NEW known \in Sources, Trigger(known) PROVE Goal
    <2> DEFINE t == Task(known, 1)
    <2>1. t \in TaskType /\ t.attempt = 1  BY <1>1a, CodShieldAssumption DEF Task, TaskType
    <2>2. /\ queue' = <<t>> \o queue /\ triggers' = triggers + 1 /\ made' = made
          /\ worker' = worker /\ handler' = handler /\ record' = record /\ phone' = phone
          /\ pending' = pending
      BY <1>1 DEF Trigger, Push
    <2> HIDE DEF t
    <2>3. ASSUME NEW k
          PROVE  Cardinality(TasksAt(queue', k)) =
                    Cardinality(TasksAt(queue, k)) + IF k = 1 THEN 1 ELSE 0
      <3>1. Cardinality(TasksAt(queue', k)) =
               Cardinality(TasksAt(queue, k)) + IF t.attempt = k THEN 1 ELSE 0
        <4>1. queue \in Seq(TaskType) /\ t \in TaskType /\ queue' = <<t>> \o queue
          BY <1>0, <2>1, <2>2 DEF QueueOK
        <4>2. DEFINE q == queue
        <4> HIDE DEF q
        <4>3. q \in Seq(TaskType) /\ t \in TaskType  BY <4>1 DEF q
        <4>4. Cardinality(TasksAt(<<t>> \o q, k)) =
                 Cardinality(TasksAt(q, k)) + IF t.attempt = k THEN 1 ELSE 0
          BY <4>3, PushCount
        <4>5. QED  BY <4>1, <4>4 DEF q
      <3>2. QED  BY <2>1, <3>1
    <2>4. \A k : Undialled(k)' = Undialled(k) /\ Retriable(k)' = Retriable(k)
      BY <2>2 DEF Undialled, Retriable
    <2>5. ASSUME NEW k \in Attempts
          PROVE  Claims(k)' = Claims(k) + IF k = 1 THEN 1 ELSE 0
      <3>1. Cardinality(Undialled(k)') = Cardinality(Undialled(k)) /\ made'[k] = made[k]
        BY <2>2, <2>4
      <3>2. QED  BY <1>d, <1>m, <1>n, <2>3, <3>1
    <2>6. /\ Claims(1)' = Claims(1) + 1
          /\ \A k \in Attempts : k # 1 => Claims(k)' = Claims(k)
      BY <1>1a, <1>d, <2>5
    <2>7. \A k \in Attempts : k + 1 # 1  BY <1>1a
    <2>8. triggers' >= triggers /\ Claims(1)' - Claims(1) <= triggers' - triggers
      BY <1>1a, <1>d, <1>m, <2>2, <2>6
    <2>9. ASSUME NEW k \in Attempts, k + 1 \in Attempts
          PROVE  Claims(k + 1)' + Cardinality(Retriable(k)') <=
                 Claims(k + 1) + Cardinality(Retriable(k))
      BY <1>d, <1>n, <2>4, <2>6, <2>7, <2>9
    <2>10. \A k \in Attempts : Rest1(k)  BY <1>r, <2>4
    <2>11. QED  BY <1>h, <1>k, <2>2, <2>8, <2>9, <2>10
  \* What a worker does to the claims, by the part of its work it leaves.
  <1>2. ASSUME NEW w \in Workers, TakeTask(w) PROVE Goal
    <2> DEFINE n == queue[Len(queue)].attempt  c == taken + 1
               r == [pc |-> "taken", call |-> c, attempt |-> n, stored |-> FALSE]
    <2>1. /\ queue # <<>> /\ queue' = SubSeq(queue, 1, Len(queue) - 1)
          /\ worker' = [worker EXCEPT ![w] = r] /\ worker[w].pc = "idle"
          /\ made' = made /\ triggers' = triggers /\ handler' = handler /\ record' = record
          /\ phone' = phone /\ pending' = pending
      BY <1>2 DEF TakeTask
    <2>2. r.pc = "taken" /\ r.call = c /\ r.attempt = n  OBVIOUS
    <2> HIDE DEF r, c, n
    <2>3. worker'[w] = r /\ \A v \in Workers \ {w} : worker'[v] = worker[v]
      BY <1>0, <2>1 DEF WorkerOK
    <2>4. \A k : Cardinality(TasksAt(queue', k)) =
                    Cardinality(TasksAt(queue, k)) - IF n = k THEN 1 ELSE 0
      BY <1>0, <2>1, PopCount DEF QueueOK, n
    <2>5. \A k : /\ k # n => Undialled(k)' \subseteq Undialled(k)
                 /\ Undialled(k)' \subseteq Undialled(k) \cup {c}
      BY <2>2, <2>3 DEF Undialled
    <2>6. \A k : /\ k # n => Cardinality(Undialled(k)') <= Cardinality(Undialled(k))
                 /\ Cardinality(Undialled(k)') <= Cardinality(Undialled(k)) + 1
      <3>1. ASSUME NEW k PROVE Cardinality(Undialled(k)') <= Cardinality(Undialled(k)) + 1
        <4>1. Undialled(k) \subseteq Calls /\ Undialled(k)' \subseteq Calls  BY <1>n
        <4>2. CASE c \in Calls
          <5>1. Undialled(k) \cup {c} \subseteq Calls  BY <4>1, <4>2
          <5>2. /\ Cardinality(Undialled(k)') <= Cardinality(Undialled(k) \cup {c})
                /\ Cardinality(Undialled(k) \cup {c}) \in Nat
            BY <2>5, <5>1, CallSets
          <5>3. Cardinality(Undialled(k) \cup {c}) <= Cardinality(Undialled(k)) + 1
            BY <4>1, CallSets
          <5>4. QED  BY <1>n, <5>2, <5>3
        <4>3. CASE c \notin Calls
          <5>1. Undialled(k)' \subseteq Undialled(k)  BY <2>5, <4>1, <4>3
          <5>2. QED  BY <1>n, <1>u, <5>1
        <4>4. QED  BY <4>2, <4>3
      <3>2. QED  BY <1>u, <2>5, <3>1
    <2>7. ASSUME NEW k \in Attempts PROVE Claims(k)' <= Claims(k)
      <3>1. Cardinality(TasksAt(queue', k)) + Cardinality(Undialled(k)') <=
               Cardinality(TasksAt(queue, k)) + Cardinality(Undialled(k))
        <4>1. CASE k = n  BY <1>n, <2>4, <2>6, <4>1
        <4>2. CASE k # n  BY <1>n, <2>4, <2>6, <4>2
        <4>3. QED  BY <4>1, <4>2
      <3>2. /\ Claims(k) = made[k] + Cardinality(TasksAt(queue, k)) + Cardinality(Undialled(k))
            /\ Claims(k)' = made[k] + Cardinality(TasksAt(queue', k)) + Cardinality(Undialled(k)')
        BY <1>d, <2>1
      <3>3. /\ made[k] \in Nat
            /\ Cardinality(TasksAt(queue, k)) \in Nat /\ Cardinality(TasksAt(queue', k)) \in Nat
            /\ Cardinality(Undialled(k)) \in Nat /\ Cardinality(Undialled(k)') \in Nat
        BY <1>m, <1>n
      <3>4. QED  BY <3>1, <3>2, <3>3
    <2>8. \A k : Retriable(k)' \subseteq Retriable(k)
      BY <2>1, <2>2, <2>3 DEF Retriable
    <2>9. \A k : Rest1(k)  BY <1>r, <2>8
    <2>10. QED  BY <1>h, <1>j, <2>1, <2>7, <2>9
  <1>3. ASSUME NEW w \in Workers, SkipTask(w) PROVE Goal
    <2>1. /\ queue # <<>> /\ queue' = SubSeq(queue, 1, Len(queue) - 1) /\ worker' = worker
          /\ made' = made /\ triggers' = triggers /\ handler' = handler /\ record' = record
          /\ phone' = phone /\ pending' = pending
      BY <1>3 DEF SkipTask
    <2>2. ASSUME NEW k
          PROVE  Cardinality(TasksAt(queue', k)) <= Cardinality(TasksAt(queue, k))
      <3>1. Cardinality(TasksAt(queue', k)) =
               Cardinality(TasksAt(queue, k)) - IF queue[Len(queue)].attempt = k THEN 1 ELSE 0
        BY <1>0, <2>1, PopCount DEF QueueOK
      <3>2. QED  BY <1>n, <3>1
    <2>3. \A k : Undialled(k)' = Undialled(k) /\ Retriable(k)' = Retriable(k)
      BY <2>1 DEF Undialled, Retriable
    <2>4. \A k \in Attempts : Claims(k)' <= Claims(k)
      BY <1>d, <1>m, <1>n, <2>1, <2>2, <2>3
    <2>5. QED  BY <1>h, <1>j, <1>r, <2>1, <2>3, <2>4
  \* A worker goes on, or gives up, without a call.
  <1>g. ASSUME NEW w \in Workers, queue' = queue, made' = made, triggers' = triggers,
               handler' = handler, \A k : Retriable(k)' \subseteq Retriable(k),
               \/ worker'[w].pc \notin {"taken", "stored"}
               \/ /\ worker[w].pc = "taken" /\ worker'[w].call = worker[w].call
                  /\ worker'[w].attempt = worker[w].attempt,
               \A v \in Workers \ {w} : worker'[v] = worker[v]
        PROVE  Goal
    <2>1. \A k : Undialled(k)' \subseteq Undialled(k)  BY <1>g DEF Undialled
    <2>2. QED  BY <1>g, <1>h, <1>l, <1>q, <1>r, <1>u, <2>1
  \* What a step of a worker without a call leaves of the calls to retry.
  <1>s. ASSUME NEW w \in Workers, phone' = phone, pending' = pending, handler' = handler,
               \A v \in Workers \ {w} : worker'[v] = worker[v],
               worker'[w].pc \in {"dialled", "mapped"} =>
                  /\ worker[w].pc \in {"dialled", "mapped"}
                  /\ worker'[w].call = worker[w].call /\ worker'[w].attempt = worker[w].attempt,
               \A c \in Calls : record'[c].sid =>
                  \/ record[c].sid /\ record'[c].attempts = record[c].attempts
                  \/ /\ worker[w].pc = "mapped" /\ c = worker[w].call
                     /\ record'[c].attempts = worker[w].attempt
        PROVE  \A k : Retriable(k)' \subseteq Retriable(k)
    BY <1>s DEF Retriable
  <1>4. ASSUME NEW w \in Workers, CreateRecord(w) PROVE Goal
    <2> DEFINE c == worker[w].call
    <2>1. c \in Calls /\ worker[w] \in WorkerType /\ worker[w].pc = "taken"
      BY <1>0, <1>4 DEF CreateRecord, WorkerOK
    <2>2. /\ \A d \in Calls \ {c} : record'[d] = record[d]
          /\ ~record'[c].sid
      BY <1>0, <1>4, <2>1 DEF CreateRecord, RecordOK
    <2>3. /\ worker'[w].call = c /\ worker'[w].pc = "stored"
          /\ worker'[w].attempt = worker[w].attempt
          /\ \A v \in Workers \ {w} : worker'[v] = worker[v]
      BY <1>0, <1>4, <2>1 DEF CreateRecord, WorkerOK, WorkerType
    <2>4. /\ phone' = phone /\ pending' = pending /\ made' = made
          /\ queue' = queue /\ handler' = handler /\ triggers' = triggers
      BY <1>4 DEF CreateRecord
    <2>5. \A k : Retriable(k)' \subseteq Retriable(k)  BY <1>s, <2>1, <2>2, <2>3, <2>4
    <2>6. QED  BY <1>g, <2>1, <2>3, <2>4, <2>5
  <1>5. ASSUME NEW w \in Workers, RecordFails(w) PROVE Goal
    <2>1. /\ worker[w].pc = "taken" /\ worker'[w].pc = "stored"
          /\ worker'[w].call = worker[w].call /\ worker'[w].attempt = worker[w].attempt
          /\ \A v \in Workers \ {w} : worker'[v] = worker[v]
      BY <1>0, <1>5, StepType DEF RecordFails, WorkerPc
    <2>2. /\ phone' = phone /\ pending' = pending /\ made' = made /\ record' = record
          /\ queue' = queue /\ handler' = handler /\ triggers' = triggers
      BY <1>5 DEF RecordFails
    <2>3. \A k : Retriable(k)' \subseteq Retriable(k)  BY <1>s, <2>1, <2>2
    <2>4. QED  BY <1>g, <2>1, <2>2, <2>3
  <1>7. ASSUME NEW w \in Workers, DialFails(w) PROVE Goal
    <2>1. /\ worker'[w].pc \notin {"taken", "stored", "dialled", "mapped"}
          /\ \A v \in Workers \ {w} : worker'[v] = worker[v]
      BY <1>0, <1>7, StepType, RestType DEF DialFails, WorkerPc
    <2>2. /\ phone' = phone /\ pending' = pending /\ made' = made /\ record' = record
          /\ queue' = queue /\ handler' = handler /\ triggers' = triggers
      BY <1>7 DEF DialFails
    <2>3. \A k : Retriable(k)' \subseteq Retriable(k)  BY <1>s, <2>1, <2>2
    <2>4. QED  BY <1>g, <2>1, <2>2, <2>3
  <1>8. ASSUME NEW w \in Workers, StoreMapping(w) PROVE Goal
    <2>1. /\ worker[w].pc = "dialled" /\ worker'[w].pc = "mapped"
          /\ worker'[w].call = worker[w].call /\ worker'[w].attempt = worker[w].attempt
          /\ \A v \in Workers \ {w} : worker'[v] = worker[v]
      BY <1>0, <1>8, StepType DEF StoreMapping, WorkerPc
    <2>2. /\ phone' = phone /\ pending' = pending /\ made' = made /\ record' = record
          /\ queue' = queue /\ handler' = handler /\ triggers' = triggers
      BY <1>8 DEF StoreMapping
    <2>3. \A k : Retriable(k)' \subseteq Retriable(k)  BY <1>s, <2>1, <2>2
    <2>4. QED  BY <1>g, <2>1, <2>2, <2>3
  <1>9. ASSUME NEW w \in Workers, CommitCall(w) PROVE Goal
    <2> DEFINE c == worker[w].call
    <2>1. /\ c \in Calls /\ record'[c].attempts = record[c].attempts
          /\ \A d \in Calls \ {c} : record'[d] = record[d]
      BY <1>0, <1>9, CommitCallRecord
    <2>2. /\ worker[w].pc = "mapped" /\ phone' = phone /\ pending' = pending /\ made' = made
          /\ queue' = queue /\ handler' = handler /\ triggers' = triggers
      BY <1>9 DEF CommitCall
    <2>3. worker'[w].pc = "idle" /\ \A v \in Workers \ {w} : worker'[v] = worker[v]
      BY <1>0, <1>9, RestType DEF CommitCall
    <2>4. record'[c].attempts = worker[w].attempt  BY <1>0, <2>1, <2>2 DEF WorkersInOrder
    <2>5. \A k : Retriable(k)' \subseteq Retriable(k)  BY <1>s, <2>1, <2>2, <2>3, <2>4
    <2>6. QED  BY <1>g, <2>2, <2>3, <2>5
  <1>10. ASSUME NEW w \in Workers, CommitRejected(w) PROVE Goal
    <2>1. worker[w].call \in Calls  BY <1>0, <1>10 DEF CommitRejected, WorkerOK
    <2>2. \A d \in Calls : record'[d].attempts = record[d].attempts /\ record'[d].sid = record[d].sid
      BY <1>0, <1>10, <2>1, StatusType DEF CommitRejected, Statuses
    <2>3. worker'[w].pc = "idle" /\ \A v \in Workers \ {w} : worker'[v] = worker[v]
      BY <1>0, <1>10, RestType DEF CommitRejected
    <2>4. /\ phone' = phone /\ pending' = pending /\ made' = made
          /\ queue' = queue /\ handler' = handler /\ triggers' = triggers
      BY <1>10 DEF CommitRejected
    <2>5. \A k : Retriable(k)' \subseteq Retriable(k)  BY <1>s, <2>2, <2>3, <2>4
    <2>6. QED  BY <1>g, <2>3, <2>4, <2>5
  <1>11. ASSUME NEW w \in Workers, WorkerFails(w) PROVE Goal
    <2>1. worker'[w].pc = "idle" /\ \A v \in Workers \ {w} : worker'[v] = worker[v]
      BY <1>0, <1>11, RestType DEF WorkerFails
    <2>2. /\ phone' = phone /\ pending' = pending /\ made' = made /\ record' = record
          /\ queue' = queue /\ handler' = handler /\ triggers' = triggers
      BY <1>11 DEF WorkerFails
    <2>3. \A k : Retriable(k)' \subseteq Retriable(k)  BY <1>s, <2>1, <2>2
    <2>4. QED  BY <1>g, <2>1, <2>2, <2>3
  \* The call: one claim less, one call more, and at most one call more to retry.
  <1>6. ASSUME NEW w \in Workers, Dial(w) PROVE Goal
    <2>0. PICK c \in Calls, n \in Attempts : c = worker[w].call /\ n = worker[w].attempt
      BY <1>0, <1>6 DEF Dial, WorkerOK
    <2>1. /\ ~record[c].sid /\ worker[w].pc = "stored"
          /\ \A v \in Workers \ {w} : worker[v].pc # "idle" => worker[v].call # c
      BY <1>0, <1>6, <2>0 DEF Dial, OwnCalls
    <2>2. /\ queue' = queue /\ record' = record /\ pending' = pending /\ handler' = handler
          /\ triggers' = triggers /\ phone' = [phone EXCEPT ![c] = "ringing"]
          /\ made' = [made EXCEPT ![n] = @ + 1]
      BY <1>6, <2>0 DEF Dial
    <2>3. /\ \A v \in Workers \ {w} : worker'[v] = worker[v]
          /\ \/ worker'[w].pc = "idle"
             \/ worker'[w].pc = "dialled" /\ worker'[w].call = c /\ worker'[w].attempt = n
      <3>1. CASE worker[w].stored  BY <1>0, <1>6, <2>0, <3>1, StepType DEF Dial, WorkerPc
      <3>2. CASE ~worker[w].stored  BY <1>0, <1>6, <3>2, RestType DEF Dial
      <3>3. QED  BY <3>1, <3>2
    <2>4. /\ made'[n] = made[n] + 1 /\ \A k \in Attempts : k # n => made'[k] = made[k]
      BY <1>0, <2>1, <2>2 DEF MadeOK
    <2>5. /\ c \in Undialled(n)
          /\ \A k : Undialled(k)' \subseteq Undialled(k)
          /\ Undialled(n)' \subseteq Undialled(n) \ {c}
      <3>1. c \in Undialled(n)  BY <2>0, <2>1 DEF Undialled
      <3>2. ASSUME NEW k, NEW d \in Undialled(k)' PROVE d \in Undialled(k) \ {c}
        <4>1. PICK v \in Workers : /\ worker'[v].pc \in {"taken", "stored"}
                                   /\ worker'[v].call = d /\ worker'[v].attempt = k
          BY <3>2 DEF Undialled
        <4>2. v # w /\ worker'[v] = worker[v] /\ d \in Calls  BY <2>3, <3>2, <4>1 DEF Undialled
        <4>3. d # c  BY <2>1, <4>1, <4>2
        <4>4. QED  BY <4>1, <4>2, <4>3 DEF Undialled
      <3>3. QED  BY <3>1, <3>2
    <2>6. /\ \A k : Few(k)
          /\ Cardinality(Undialled(n)') <= Cardinality(Undialled(n)) - 1
      <3>1. Undialled(n) \subseteq Calls /\ Undialled(n) \ {c} \subseteq Calls  BY <1>n
      <3>2. Cardinality(Undialled(n) \ {c}) = Cardinality(Undialled(n)) - 1
        BY <2>5, <3>1, CallSets
      <3>3. Cardinality(Undialled(n)') <= Cardinality(Undialled(n) \ {c})
        BY <2>5, <3>1, CallSets
      <3>4. QED  BY <1>u, <2>5, <3>2, <3>3
    <2>7. \A k : /\ k # n => Retriable(k)' \subseteq Retriable(k)
                 /\ Retriable(k)' \subseteq Retriable(k) \cup {c}
      <3>1. \A d \in Calls \ {c} : phone'[d] = phone[d]  BY <1>0, <2>1, <2>2 DEF CallOK
      <3>2. QED  BY <2>1, <2>2, <2>3, <3>1 DEF Retriable
    <2>8. /\ \A k : k # n => Rest1(k)
          /\ Cardinality(Retriable(n)') <= Cardinality(Retriable(n)) + 1
      <3>1. Retriable(n) \subseteq Calls /\ Retriable(n) \cup {c} \subseteq Calls
        BY <1>n, <2>1
      <3>0. Retriable(n)' \subseteq Retriable(n) \cup {c}  BY <2>7
      <3>2. /\ Cardinality(Retriable(n)') <= Cardinality(Retriable(n) \cup {c})
            /\ Cardinality(Retriable(n) \cup {c}) \in Nat
        BY <3>0, <3>1, CallSets
      <3>3. Cardinality(Retriable(n) \cup {c}) <= Cardinality(Retriable(n)) + 1
        BY <3>1, CallSets
      <3>4. QED  BY <1>n, <1>r, <2>7, <3>2, <3>3
    <2>9. \A k \in Attempts : Claims(k)' <= Claims(k)
      <3>1. ASSUME NEW k \in Attempts PROVE Claims(k)' <= Claims(k)
        <4>1. CASE k = n
          <5>1. /\ Cardinality(Undialled(k)') <= Cardinality(Undialled(k)) - 1
                /\ made'[k] = made[k] + 1
                /\ Cardinality(TasksAt(queue', k)) = Cardinality(TasksAt(queue, k))
            BY <2>2, <2>4, <2>6, <4>1
          <5>2. QED  BY <1>d, <1>m, <1>n, <5>1
        <4>2. CASE k # n  BY <1>d, <1>m, <1>n, <2>2, <2>4, <2>6, <4>2
        <4>3. QED  BY <4>1, <4>2
      <3>2. QED  BY <3>1
    <2>10. made[n] + 1 <= Claims(n)
      <3>1. Cardinality(Undialled(n)) >= 1  BY <1>n, <2>6
      <3>2. QED  BY <1>d, <1>m, <1>n, <2>1, <3>1
    <2>11. Claims(n) <= triggers
      <3>1. CASE n = 1  BY <1>c, <3>1
      <3>2. CASE n # 1
        <4>1. n - 1 \in Attempts /\ n - 1 + 1 = n
          BY <2>1, <3>2, CodShieldAssumption DEF Attempts
        <4>2. Claims(n) + Cardinality(Retriable(n - 1)) <= made[n - 1]
          BY <1>c, <2>1, <4>1
        <4>3. made[n - 1] <= triggers  BY <1>c, <4>1 DEF CallsWithinTriggers
        <4>4. QED  BY <1>d, <1>m, <1>n, <2>1, <4>1, <4>2, <4>3
      <3>3. QED  BY <3>1, <3>2
    <2>12. CallsWithinTriggers'
      <3>1. ASSUME NEW k \in Attempts PROVE made'[k] <= triggers'
        <4>1. CASE k = n  BY <1>d, <1>m, <2>1, <2>2, <2>4, <2>10, <2>11, <4>1
        <4>2. CASE k # n  BY <1>c, <2>2, <2>4, <4>2 DEF CallsWithinTriggers
        <4>3. QED  BY <4>1, <4>2
      <3>2. QED  BY <3>1 DEF CallsWithinTriggers
    <2>13. Claims(1)' <= triggers'  BY <1>1a, <1>c, <1>d, <1>m, <2>2, <2>9
    <2>g. ASSUME NEW k \in Attempts PROVE Grown(k)
      <3>1. CASE k = n
        <4>1. /\ made'[k] = made[k] + 1
              /\ Cardinality(Retriable(k)') <= Cardinality(Retriable(k)) + 1
          BY <2>4, <2>8, <3>1
        <4>2. QED  BY <1>m, <1>n, <4>1
      <3>2. CASE k # n  BY <1>m, <1>n, <2>4, <2>8, <3>2
      <3>3. QED  BY <3>1, <3>2
    <2>14. ASSUME NEW k \in Attempts, k + 1 \in Attempts
           PROVE  (Claims(k + 1) + Cardinality(Retriable(k)) <= made[k])'
      <3>1. /\ Claims(k + 1)' <= Claims(k + 1)
            /\ Claims(k + 1) + Cardinality(Retriable(k)) <= made[k]
        BY <1>c, <2>9, <2>14
      <3>2. Grown(k)  BY <2>g
      <3>3. QED  BY <1>d, <1>m, <1>n, <2>14, <3>1, <3>2
    <2>15. QED  BY <1>h, <2>2, <2>g, <2>12, <2>13, <2>14 DEF CountInv, Goal
  \* Callbacks: no call becomes one to retry.
  <1>x. ASSUME worker' = worker,
               \A c \in Calls : record'[c].sid /\ (phone'[c] # "unanswered" \/ pending'[c] > 0) =>
                  /\ record[c].sid /\ record'[c].attempts = record[c].attempts
                  /\ phone[c] # "unanswered" \/ pending[c] > 0,
               \A h \in Handlers : handler'[h].pc = "failed" =>
                  \/ handler'[h] = handler[h]
                  \/ LET c == handler'[h].call IN
                        /\ record[c].sid /\ handler'[h].attempts = record[c].attempts
                        /\ pending[c] > 0
        PROVE  \A k : Retriable(k)' \subseteq Retriable(k)
    BY <1>x DEF Retriable
  <1>e. ASSUME handler' = handler, worker' = worker, queue' = queue, made' = made,
               triggers' = triggers, record' = record,
               \A c \in Calls : phone'[c] # "unanswered" \/ pending'[c] > 0 =>
                                   phone[c] # "unanswered" \/ pending[c] > 0
        PROVE  Goal
    <2>1. \A k : Retriable(k)' \subseteq Retriable(k)  BY <1>e, <1>x
    <2>2. QED  BY <1>e, <1>f, <1>h, <2>1
  <1>12. ASSUME NEW c \in Calls, Answer(c) \/ EndCall(c) PROVE Goal
    <2>1. /\ phone[c] # "unanswered"
          /\ \A d \in Calls \ {c} : phone'[d] = phone[d] /\ pending'[d] = pending[d]
      BY <1>0, <1>12 DEF Answer, EndCall, CallOK
    <2>2. /\ handler' = handler /\ worker' = worker /\ queue' = queue /\ made' = made
          /\ triggers' = triggers /\ record' = record
      BY <1>12 DEF Answer, EndCall
    <2>3. QED  BY <1>e, <2>1, <2>2
  <1>14. ASSUME NEW h \in Handlers, NEW c \in Calls, LoadFailed(h, c) PROVE Goal
    <2>0. Load(h, c, "failed", "other") /\ "failed" \in {"failed", "digit"} /\ "other" \in Digits
      BY <1>14 DEF LoadFailed, Digits
    <2>1. /\ handler'[h].pc = "failed" /\ handler'[h].call = c
          /\ handler'[h].attempts = record[c].attempts
          /\ \A g \in Handlers \ {h} : handler'[g] = handler[g]
      BY <1>0, <2>0, LoadType
    <2>2. /\ pending[c] > 0 /\ pending'[c] = pending[c] - 1 /\ record[c].sid
          /\ \A d \in Calls \ {c} : pending'[d] = pending[d]
          /\ record' = record /\ phone' = phone /\ made' = made /\ triggers' = triggers
          /\ queue' = queue /\ worker' = worker
      BY <1>0, <1>14 DEF LoadFailed, Arrives, Known, CallOK
    <2>3. \A k : Retriable(k)' \subseteq Retriable(k)  BY <1>x, <2>1, <2>2
    <2>4. \A g \in Handlers : handler[g].pc = "failed" => handler[g].call # c
      BY <1>0, <2>2 DEF HandlersInOrder
    <2>5. HandledOnce'  BY <1>c, <2>1, <2>4 DEF HandledOnce
    <2>6. QED  BY <1>f, <2>2, <2>3, <2>5
  <1>15. ASSUME NEW h \in Handlers, NEW c \in Calls, IgnoreStatus(h, c) PROVE Goal
    <2>1. /\ pending[c] > 0 /\ pending'[c] = pending[c] - 1
          /\ \A d \in Calls \ {c} : pending'[d] = pending[d]
          /\ record' = record /\ phone' = phone /\ made' = made /\ triggers' = triggers
          /\ queue' = queue /\ worker' = worker /\ handler' = handler
      BY <1>0, <1>15 DEF IgnoreStatus, Arrives, CallOK
    <2>2. QED  BY <1>e, <2>1
  \* A handler of a failed call has pushed a task: the call is no more to retry.
  <1>16. ASSUME NEW h \in Handlers, Retry(h) PROVE Goal
    <2>0. PICK c \in Calls, n \in Attempts \cup {0} :
             c = handler[h].call /\ n = handler[h].attempts /\ n < MaxAttempts
      BY <1>0, <1>16, CodShieldAssumption DEF Retry, HandlerOK, HandlerType, Attempts
    <2> DEFINE t == Task(TRUE, n + 1)
    <2>1. n + 1 \in Attempts /\ t \in TaskType /\ t.attempt = n + 1
      BY <2>0, CodShieldAssumption DEF Task, TaskType, Attempts
    <2>2. /\ queue' = <<t>> \o queue /\ worker' = worker /\ made' = made /\ triggers' = triggers
          /\ record' = record /\ phone' = phone /\ pending' = pending
          /\ handler' = [handler EXCEPT ![h].pc = "pushed"] /\ handler[h].pc = "failed"
      BY <1>16, <2>0 DEF Retry, Push
    <2> HIDE DEF t
    <2>3. ASSUME NEW k
          PROVE  Cardinality(TasksAt(queue', k)) =
                    Cardinality(TasksAt(queue, k)) + IF k = n + 1 THEN 1 ELSE 0
      <3> DEFINE q == queue
      <3>1. q \in Seq(TaskType)  BY <1>0 DEF QueueOK
      <3> HIDE DEF q
      <3>2. Cardinality(TasksAt(<<t>> \o q, k)) =
               Cardinality(TasksAt(q, k)) + IF t.attempt = k THEN 1 ELSE 0
        BY <2>1, <3>1, PushCount
      <3>3. QED  BY <2>1, <2>2, <3>2 DEF q
    <2>4. \A k : Undialled(k)' = Undialled(k)  BY <1>w, <2>2
    <2>5. /\ handler'[h].pc = "pushed" /\ \A g \in Handlers \ {h} : handler'[g] = handler[g]
      BY <1>0, <2>2, HandlerPcType DEF HandlerPc
    <2>6. HandledOnce'  BY <1>c, <2>5 DEF HandledOnce
    <2>7. \A k : Retriable(k)' \subseteq Retriable(k)  BY <1>x, <2>2, <2>5
    <2>8. c \in Retriable(n) /\ c \notin Retriable(n)'
      <3>1. c \in Retriable(n)  BY <2>0, <2>2 DEF Retriable
      <3>2. /\ record[c].sid /\ phone[c] = "unanswered" /\ pending[c] = 0
        BY <1>0, <2>0, <2>2 DEF Unanswered, HandlersInOrder
      <3>3. \A v \in Workers : worker[v].pc \in {"dialled", "mapped"} => worker[v].call # c
        BY <1>0, <3>2 DEF OwnCalls
      <3>4. \A g \in Handlers : handler'[g].pc = "failed" => handler'[g].call # c
        BY <1>c, <2>0, <2>2, <2>5 DEF HandledOnce
      <3>5. QED  BY <2>2, <3>1, <3>2, <3>3, <3>4 DEF Retriable
    <2>9. Cardinality(Retriable(n)') <= Cardinality(Retriable(n)) - 1
      <3>1. Retriable(n)' \subseteq Retriable(n) \ {c}  BY <2>7, <2>8
      <3>2. Retriable(n) \subseteq Calls /\ Retriable(n) \ {c} \subseteq Calls  BY <1>n
      <3>3. Cardinality(Retriable(n)') <= Cardinality(Retriable(n) \ {c})
        BY <3>1, <3>2, CallSets
      <3>4. Cardinality(Retriable(n) \ {c}) = Cardinality(Retriable(n)) - 1
        BY <2>8, <3>2, CallSets
      <3>5. QED  BY <3>3, <3>4
    <2>10. ASSUME NEW k \in Attempts
           PROVE  Claims(k)' = Claims(k) + IF k = n + 1 THEN 1 ELSE 0
      <3>1. Cardinality(Undialled(k)') = Cardinality(Undialled(k)) /\ made'[k] = made[k]
        BY <2>2, <2>4
      <3>2. QED  BY <1>d, <1>m, <1>n, <2>3, <3>1
    <2>11. n \in Attempts  BY <2>0, <2>2 DEF Numbered
    <2>12. ASSUME NEW k \in Attempts, k + 1 \in Attempts
           PROVE  Claims(k + 1)' + Cardinality(Retriable(k)') <=
                  Claims(k + 1) + Cardinality(Retriable(k))
      <3>1. CASE k = n
        <4>1. /\ Claims(k + 1)' = Claims(k + 1) + 1
              /\ Cardinality(Retriable(k)') <= Cardinality(Retriable(k)) - 1
          BY <2>9, <2>10, <2>12, <3>1
        <4>2. QED  BY <1>d, <1>n, <2>12, <4>1
      <3>2. CASE k # n
        <4>1. k + 1 # n + 1  BY <2>11, <3>2, CodShieldAssumption DEF Attempts
        <4>2. Claims(k + 1)' = Claims(k + 1)  BY <1>d, <2>10, <2>12, <4>1
        <4>3. Rest1(k)  BY <1>r, <2>7
        <4>4. QED  BY <1>d, <1>n, <2>12, <4>2, <4>3
      <3>3. QED  BY <3>1, <3>2
    <2>13. Claims(1)' = Claims(1)
      <3>1. 1 # n + 1  BY <2>11, CodShieldAssumption DEF Attempts
      <3>2. QED  BY <1>1a, <1>d, <2>10, <3>1
    <2>14. Claims(1)' - Claims(1) <= triggers' - triggers /\ triggers' >= triggers
      BY <1>1a, <1>d, <1>m, <2>2, <2>13
    <2>15. \A k \in Attempts : Rest1(k)  BY <1>r, <2>7
    <2>16. QED  BY <1>k, <2>2, <2>6, <2>12, <2>14, <2>15
  \* A handler goes on with its call, or ends.
  <1>y. ASSUME NEW h \in Handlers, worker' = worker, queue' = queue, made' = made,
               triggers' = triggers, handler'[h].pc # "failed",
               \A g \in Handlers \ {h} : handler'[g] = handler[g],
               \A c \in Calls : record'[c].sid /\ (phone'[c] # "unanswered" \/ pending'[c] > 0) =>
                  /\ record[c].sid /\ record'[c].attempts = record[c].attempts
                  /\ phone[c] # "unanswered" \/ pending[c] > 0
        PROVE  Goal
    <2>1. HandledOnce'  BY <1>c, <1>y DEF HandledOnce
    <2>2. \A g \in Handlers : handler'[g].pc = "failed" => handler'[g] = handler[g]  BY <1>y
    <2>3. \A k : Retriable(k)' \subseteq Retriable(k)  BY <1>x, <1>y, <2>2
    <2>4. QED  BY <1>f, <1>y, <2>1, <2>3
  <1>17. ASSUME NEW h \in Handlers, FallBack(h) \/ PushFails(h) PROVE Goal
    <2>1. /\ handler' = [handler EXCEPT ![h].pc = "pushed"] /\ handler[h].pc # "idle"
          /\ worker' = worker /\ queue' = queue /\ made' = made /\ triggers' = triggers
          /\ record' = record /\ phone' = phone /\ pending' = pending
      BY <1>17 DEF FallBack, PushFails
    <2>2. /\ handler'[h].pc = "pushed" /\ \A g \in Handlers \ {h} : handler'[g] = handler[g]
      BY <1>0, <2>1, HandlerPcType DEF HandlerPc
    <2>3. QED  BY <1>y, <2>1, <2>2
  <1>19. ASSUME NEW h \in Handlers, CommitFailed(h) PROVE Goal
    <2> DEFINE c == handler[h].call
    <2>1. /\ c \in Calls /\ \A d \in Calls \ {c} : record'[d] = record[d]
      BY <1>0, <1>19, CommitFailedRecord
    <2>2. /\ worker' = worker /\ queue' = queue /\ made' = made /\ triggers' = triggers
          /\ phone' = phone /\ pending' = pending /\ HandlerDone(h) /\ handler[h].pc = "pushed"
      BY <1>19 DEF CommitFailed
    <2>3. phone[c] = "unanswered" /\ pending[c] = 0
      BY <1>0, <2>2 DEF Unanswered, HandlersInOrder
    <2>4. /\ handler'[h].pc = "idle" /\ \A g \in Handlers \ {h} : handler'[g] = handler[g]
      BY <1>0, <2>2, HandlerDoneType
    <2>5. QED  BY <1>y, <2>1, <2>2, <2>3, <2>4
  <1>20. ASSUME NEW h \in Handlers, NEW c \in Calls, NEW d \in Digits, LoadDigit(h, c, d)
         PROVE  Goal
    <2>1. /\ handler'[h].pc = "digit" /\ \A g \in Handlers \ {h} : handler'[g] = handler[g]
      BY <1>0, <1>20, LoadType DEF LoadDigit
    <2>2. /\ phone[c] = "answered" /\ \A b \in Calls \ {c} : phone'[b] = phone[b]
          /\ record' = record /\ pending' = pending /\ made' = made /\ queue' = queue
          /\ worker' = worker /\ triggers' = triggers
      BY <1>0, <1>20 DEF LoadDigit, CallOK
    <2>3. QED  BY <1>y, <2>1, <2>2
  <1>21. ASSUME NEW h \in Handlers, NEW c \in Calls, NEW d \in Digits, IgnoreDigit(h, c, d)
         PROVE  Goal
    <2>1. /\ phone[c] # "unanswered" /\ AfterDigit(c, d)
          /\ handler' = handler /\ worker' = worker /\ queue' = queue /\ made' = made
          /\ triggers' = triggers /\ record' = record
      BY <1>21 DEF IgnoreDigit
    <2>2. \A b \in Calls \ {c} : phone'[b] = phone[b] /\ pending'[b] = pending[b]
      BY <1>0, <2>1, AfterDigitType
    <2>3. QED  BY <1>e, <2>1, <2>2
  <1>22. ASSUME NEW h \in Handlers, SaveTheSale(h) PROVE Goal
    <2>1. /\ handler' = [handler EXCEPT ![h].pc = "decided"] /\ handler[h].pc # "idle"
          /\ worker' = worker /\ queue' = queue /\ made' = made /\ triggers' = triggers
          /\ record' = record /\ phone' = phone /\ pending' = pending
      BY <1>22 DEF SaveTheSale
    <2>2. /\ handler'[h].pc = "decided" /\ \A g \in Handlers \ {h} : handler'[g] = handler[g]
      BY <1>0, <2>1, HandlerPcType DEF HandlerPc
    <2>3. QED  BY <1>y, <2>1, <2>2
  \* A handler of a digit ends: its call was not unanswered.
  <1>b. ASSUME NEW h \in Handlers, handler[h].pc \in {"digit", "decided"}, HandlerDone(h),
               AfterDigit(handler[h].call, handler[h].digit), worker' = worker, queue' = queue,
               made' = made, triggers' = triggers,
               \A d \in Calls : /\ record'[d].attempts = record[d].attempts
                                 /\ record'[d].sid = record[d].sid
        PROVE  Goal
    <2> DEFINE c == handler[h].call
    <2>1. c \in Calls /\ phone[c] = "waiting"  BY <1>0, <1>b DEF HandlerOK, Waiting
    <2>2. \A b \in Calls \ {c} : phone'[b] = phone[b] /\ pending'[b] = pending[b]
      BY <1>0, <1>b, <2>1, AfterDigitType
    <2>3. /\ handler'[h].pc = "idle" /\ \A g \in Handlers \ {h} : handler'[g] = handler[g]
      BY <1>0, <1>b, HandlerDoneType
    <2>4. QED  BY <1>b, <1>y, <2>1, <2>2, <2>3
  <1>23. ASSUME NEW h \in Handlers, CommitDigit(h) PROVE Goal
    <2>1. handler[h].call \in Calls /\ Decision(handler[h].digit) \in Statuses
      BY <1>0, <1>23 DEF CommitDigit, HandlerOK, Decision, Statuses
    <2>2. \A d \in Calls : record'[d].attempts = record[d].attempts /\ record'[d].sid = record[d].sid
      BY <1>0, <1>23, <2>1, StatusType DEF CommitDigit
    <2>3. /\ handler[h].pc \in {"digit", "decided"} /\ HandlerDone(h)
          /\ AfterDigit(handler[h].call, handler[h].digit) /\ made' = made /\ worker' = worker
          /\ queue' = queue /\ triggers' = triggers
      BY <1>23 DEF CommitDigit
    <2>4. QED  BY <1>b, <2>2, <2>3
  <1>24. ASSUME NEW h \in Handlers, HandlerFails(h) PROVE Goal
    <2>1. /\ HandlerDone(h) /\ made' = made /\ worker' = worker /\ queue' = queue
          /\ triggers' = triggers /\ record' = record
      BY <1>24 DEF HandlerFails
    <2>2. CASE handler[h].pc \in {"digit", "decided"}
      BY <1>24, <1>b, <2>1, <2>2 DEF HandlerFails
    <2>3. CASE handler[h].pc \notin {"digit", "decided"}
      <3>1. phone' = phone /\ pending' = pending  BY <1>24, <2>3 DEF HandlerFails
      <3>2. /\ handler'[h].pc = "idle" /\ \A g \in Handlers \ {h} : handler'[g] = handler[g]
        BY <1>0, <2>1, HandlerDoneType
      <3>3. QED  BY <1>y, <2>1, <3>1, <3>2
    <2>4. QED  BY <2>2, <2>3
  <1>25. CASE UNCHANGED vars  BY <1>25, <1>e DEF vars
  <1>26. QED
    BY <1>1, <1>2, <1>3, <1>4, <1>5, <1>6, <1>7, <1>8, <1>9, <1>10, <1>11, <1>12,
       <1>14, <1>15, <1>16, <1>17, <1>19, <1>20, <1>21, <1>22, <1>23, <1>24, <1>25
       DEF Next, WorkerStep, HandlerStep, Callback

-----------------------------------------------------------------------------
(* One fallback per last call                                              *)

\* A fallback stems from a call of the last attempt that nothing else stems from.
LastInv ==
    /\ IsFiniteSet(Fallbacks)
    /\ Cardinality(Fallbacks) + Cardinality(Retriable(MaxAttempts)) <= made[MaxAttempts]

LEMMA LastInit == Init => LastInv
  <1> SUFFICES ASSUME Init PROVE LastInv  OBVIOUS
  <1>1. Retriable(MaxAttempts) = {}
    BY DEF Init, Retriable, Resting, NoRecord, NoHandling
  <1>2. Fallbacks = {}
    <2>1. \A c \in Calls : 1 .. sent[c].fallback = {}  BY DEF Init
    <2>2. QED  BY <2>1 DEF Fallbacks
  <1>3. MaxAttempts \in Attempts  BY CodShieldAssumption DEF Attempts
  <1>4. IsFiniteSet({}) /\ Cardinality({}) = 0  BY FS_EmptySet
  <1>5. QED  BY <1>1, <1>2, <1>3, <1>4 DEF LastInv, Init

LEMMA FallbacksKept ==
    ASSUME \A c \in Calls : sent'[c].fallback = sent[c].fallback
    PROVE  Fallbacks' = Fallbacks
  BY DEF Fallbacks

\* Only the handler of a call that failed pushes a fallback.
LEMMA OthersKeep ==
    ASSUME TypeOK, [Next]_vars, \A h \in Handlers : ~FallBack(h)
    PROVE  Fallbacks' = Fallbacks
  <1>0. SentOK /\ HandlerOK  BY Parts
  <1>1. ASSUME NEW h \in Handlers, Retry(h) \/ SaveTheSale(h) PROVE Fallbacks' = Fallbacks
    <2> DEFINE c == handler[h].call
    <2>1. c \in Calls  BY <1>0, <1>1 DEF Retry, SaveTheSale, HandlerOK
    <2>2. \/ sent' = [sent EXCEPT ![c].retry = @ + 1]
          \/ sent' = [sent EXCEPT ![c].save = @ + 1]
          \/ sent' = sent
      BY <1>1 DEF Retry, SaveTheSale
    <2>3. ASSUME NEW d \in Calls PROVE sent'[d].fallback = sent[d].fallback
      BY <1>0, <2>1, <2>2, <2>3 DEF SentOK, SentType
    <2>4. QED  BY <2>3, FallbacksKept
  <1>2. ASSUME NEW h \in Handlers, HandlerStep(h) PROVE Fallbacks' = Fallbacks
    <2>1. CASE Retry(h) \/ SaveTheSale(h)  BY <1>1, <2>1
    <2>2. CASE PushFails(h) \/ CommitFailed(h) \/ CommitDigit(h) \/ HandlerFails(h)
      <3>1. sent' = sent  BY <2>2 DEF PushFails, CommitFailed, CommitDigit, HandlerFails
      <3>2. QED  BY <3>1, FallbacksKept
    <2>3. QED  BY <1>2, <2>1, <2>2 DEF HandlerStep
  <1>3. CASE ~\E h \in Handlers : HandlerStep(h)
    <2>1. sent' = sent
      BY <1>3 DEF Next, Trigger, WorkerStep, TakeTask, SkipTask, CreateRecord, RecordFails, Dial,
                  DialFails, StoreMapping, CommitCall, CommitRejected, WorkerFails, Callback,
                  LoadFailed, IgnoreStatus, LoadDigit, IgnoreDigit, Answer, EndCall, vars
    <2>2. QED  BY <2>1, FallbacksKept
  <1>4. QED  BY <1>2, <1>3

\* A fallback is one more, and its call is one that could be retried until then.
LEMMA FallbackStep ==
    ASSUME TypeOK, CallInv, OnceInv, Numbered, CountInv, LastInv,
           NEW h \in Handlers, FallBack(h)
    PROVE  /\ IsFiniteSet(Fallbacks') /\ Cardinality(Fallbacks)' = Cardinality(Fallbacks) + 1
           /\ Cardinality(Retriable(MaxAttempts)') <= Cardinality(Retriable(MaxAttempts)) - 1
           /\ Cardinality(Retriable(MaxAttempts)) \in Nat
           /\ Cardinality(Retriable(MaxAttempts)') \in Nat
           /\ Cardinality(Fallbacks) \in Nat
           /\ made' = made /\ triggers' = triggers
  <1>0. /\ HandlerOK /\ SentOK /\ OwnCalls /\ Unanswered /\ HandlersInOrder /\ HandledOnce
    BY Parts DEF CallInv, OnceInv, CountInv
  <1>1. PICK c \in Calls : c = handler[h].call  BY <1>0 DEF FallBack, HandlerOK
  <1>2. /\ handler[h].pc = "failed" /\ handler[h].attempts >= MaxAttempts
        /\ handler' = [handler EXCEPT ![h].pc = "pushed"]
        /\ sent' = [sent EXCEPT ![c].fallback = @ + 1]
        /\ worker' = worker /\ record' = record /\ phone' = phone /\ pending' = pending
        /\ made' = made /\ triggers' = triggers
    BY <1>1 DEF FallBack
  <1>3. handler[h].attempts = MaxAttempts
    BY <1>2, CodShieldAssumption DEF Numbered, Attempts
  <1>4. handler'[h].pc = "pushed" /\ \A g \in Handlers \ {h} : handler'[g] = handler[g]
    BY <1>0, <1>2, HandlerPcType DEF HandlerPc
  <1>5. c \in Retriable(MaxAttempts)  BY <1>1, <1>2, <1>3 DEF Retriable
  <1>6. Retriable(MaxAttempts)' \subseteq Retriable(MaxAttempts)  BY <1>2, <1>4 DEF Retriable
  <1>7. c \notin Retriable(MaxAttempts)'
    <2>1. /\ record[c].sid /\ phone[c] = "unanswered" /\ pending[c] = 0
      BY <1>0, <1>1, <1>2 DEF Unanswered, HandlersInOrder
    <2>2. \A v \in Workers : worker[v].pc \in {"dialled", "mapped"} => worker[v].call # c
      BY <1>0, <2>1 DEF OwnCalls
    <2>3. \A g \in Handlers : handler'[g].pc = "failed" => handler'[g].call # c
      BY <1>0, <1>1, <1>2, <1>4 DEF HandledOnce
    <2>4. QED  BY <1>2, <2>1, <2>2, <2>3 DEF Retriable
  <1>8. /\ Cardinality(Retriable(MaxAttempts)') <= Cardinality(Retriable(MaxAttempts)) - 1
        /\ Cardinality(Retriable(MaxAttempts)) \in Nat /\ Cardinality(Retriable(MaxAttempts)') \in Nat
    <2>1. Retriable(MaxAttempts) \subseteq Calls /\ Retriable(MaxAttempts) \ {c} \subseteq Calls
          /\ Retriable(MaxAttempts)' \subseteq Calls
      BY <1>6 DEF Retriable
    <2>2. Cardinality(Retriable(MaxAttempts)') <= Cardinality(Retriable(MaxAttempts) \ {c})
      BY <1>6, <1>7, <2>1, CallSets
    <2>3. Cardinality(Retriable(MaxAttempts) \ {c}) = Cardinality(Retriable(MaxAttempts)) - 1
      BY <1>5, <2>1, CallSets
    <2>4. QED  BY <2>1, <2>2, <2>3, CallSets
  <1>9. PICK n \in Nat : n = sent[c].fallback  BY <1>0 DEF SentOK, SentType
  <1>10. sent'[c].fallback = n + 1 /\ \A d \in Calls \ {c} : sent'[d] = sent[d]
    BY <1>0, <1>2, <1>9 DEF SentOK, SentType
  <1>11. Fallbacks' = Fallbacks \cup {<<c, n + 1>>} /\ <<c, n + 1>> \notin Fallbacks
    <2> DEFINE Of(s, d) == {d} \X (1 .. s[d].fallback)
    <2>1. Of(sent', c) = Of(sent, c) \cup {<<c, n + 1>>}
      <3>1. 1 .. n + 1 = (1 .. n) \cup {n + 1}  OBVIOUS
      <3>2. QED  BY <1>9, <1>10, <3>1
    <2>2. \A d \in Calls \ {c} : Of(sent', d) = Of(sent, d)  BY <1>10
    <2>3. Fallbacks = UNION {Of(sent, d) : d \in Calls}
          /\ Fallbacks' = UNION {Of(sent', d) : d \in Calls}
      BY DEF Fallbacks
    <2>4. <<c, n + 1>> \notin Fallbacks
      <3>1. ASSUME NEW d \in Calls, <<c, n + 1>> \in Of(sent, d) PROVE FALSE
        <4>1. d = c /\ n + 1 \in 1 .. sent[c].fallback  BY <3>1
        <4>2. QED  BY <1>9, <4>1
      <3>2. QED  BY <2>3, <3>1
    <2> HIDE DEF Of
    <2>5. QED  BY <2>1, <2>2, <2>3, <2>4
  <1>12. /\ IsFiniteSet(Fallbacks) /\ Cardinality(Fallbacks) \in Nat
         /\ IsFiniteSet(Fallbacks') /\ Cardinality(Fallbacks') = Cardinality(Fallbacks) + 1
    BY <1>11, FS_AddElement, FS_CardinalityType DEF LastInv
  <1>13. QED  BY <1>2, <1>8, <1>12

LEMMA LastStep ==
    ASSUME TypeOK, TypeOK', CallInv, OnceInv, Numbered, CountInv, LastInv, [Next]_vars
    PROVE  LastInv'
  <1>0. MadeOK /\ MadeOK'  BY Parts, PartsPrimed
  <1>1. MaxAttempts \in Attempts  BY CodShieldAssumption DEF Attempts
  <1>2. made[MaxAttempts] \in Nat /\ made'[MaxAttempts] \in Nat  BY <1>0, <1>1 DEF MadeOK
  <1>3. CASE \E h \in Handlers : FallBack(h)
    <2>1. PICK h \in Handlers : FallBack(h)  BY <1>3
    <2>2. QED  BY <1>2, <2>1, FallbackStep DEF LastInv
  <1>4. CASE \A h \in Handlers : ~FallBack(h)
    <2>1. Fallbacks' = Fallbacks  BY <1>4, OthersKeep
    <2>2. Cardinality(Retriable(MaxAttempts)') + made[MaxAttempts] <=
             Cardinality(Retriable(MaxAttempts)) + made'[MaxAttempts]
      BY <1>1, CountStep
    <2>3. IsFiniteSet(Fallbacks) /\ Cardinality(Fallbacks) \in Nat
      BY FS_CardinalityType DEF LastInv
    <2>4. Retriable(MaxAttempts) \subseteq Calls /\ Retriable(MaxAttempts)' \subseteq Calls
      BY DEF Retriable
    <2>5. Cardinality(Retriable(MaxAttempts)) \in Nat /\ Cardinality(Retriable(MaxAttempts)') \in Nat
      BY <2>4, CallSets
    <2>6. Cardinality(Fallbacks') = Cardinality(Fallbacks)  BY <2>1
    <2>7. QED  BY <1>2, <2>1, <2>2, <2>3, <2>5, <2>6 DEF LastInv
  <1>5. QED  BY <1>3, <1>4

-----------------------------------------------------------------------------
(* Both ways Twilio reports                                                *)

\* The invariant of the two ways Twilio reports.
MCInv ==
    /\ TypeOK /\ CallInv /\ repeated \in BOOLEAN
    /\ ~repeated => OnceInv /\ Numbered /\ CountInv /\ LastInv
    /\ repeated => FollowInv

LEMMA MCInitInv == MCInit => MCInv
  <1>1. Init => Numbered  BY DEF Init, Numbered, NoRecord, NoHandling
  <1>2. QED
    BY <1>1, TypeInit, CallInit, OnceInit, CountInit, LastInit, FollowInit DEF MCInit, MCInv

\* A step with repeated callbacks is one of the component, and all its pushes succeed.
LEMMA RepeatedStep ==
    ASSUME MCNext, repeated
    PROVE  Next /\ NextPushed /\ repeated' = repeated
  <1>1. repeated' = repeated  BY DEF MCNext, Repeats
  <1>2. ASSUME NEW h \in Handlers, Handling(h) PROVE HandlingPushed(h) /\ HandlerStep(h)
    BY <1>2 DEF Handling, HandlingPushed, HandlerStep, SaveTheSale
  <1>3. ASSUME NEW c \in Calls, Calling(c)
        PROVE  (\E h \in Handlers : Callback(h, c)) \/ Answer(c) \/ EndCall(c)
    BY <1>3 DEF Calling
  <1>4. Worker => \E w \in Workers : WorkerStep(w)  BY MCCodShieldAssumption DEF Worker
  <1>5. \/ \E known \in Sources : Trigger(known)
        \/ Worker
        \/ \E h \in Handlers : Handling(h)
        \/ \E c \in Calls : Calling(c)
    BY DEF MCNext, Repeats
  <1>6. QED  BY <1>1, <1>2, <1>3, <1>4, <1>5 DEF Next, NextPushed

LEMMA MCStep == MCInv /\ [MCNext]_mcVars => MCInv'
  <1> SUFFICES ASSUME MCInv, [MCNext]_mcVars PROVE MCInv'  OBVIOUS
  <1>0. TypeOK /\ CallInv  BY DEF MCInv
  <1>1. CASE ~repeated /\ ReportedOnce /\ UNCHANGED repeated
    <2>1. /\ [Next]_vars /\ (\A c \in Calls : pending'[c] <= 1)
          /\ ~repeated' /\ repeated' \in BOOLEAN
          /\ OnceInv /\ Numbered /\ CountInv /\ LastInv
      BY <1>1 DEF ReportedOnce, MCInv
    <2>2. TypeOK'  BY <1>0, <2>1, TypeStep
    <2>3. CallInv' /\ OnceInv' /\ Numbered' /\ CountInv' /\ LastInv'
      BY <1>0, <2>1, <2>2, CallStep, OnceStep, NumberedStep, CountStep, LastStep
    <2>4. QED  BY <2>1, <2>2, <2>3 DEF MCInv
  <1>2. CASE repeated /\ MCNext
    <2>1. [Next]_vars /\ [NextPushed]_vars /\ repeated' /\ repeated' \in BOOLEAN /\ FollowInv
      BY <1>2, RepeatedStep DEF MCInv
    <2>2. TypeOK'  BY <1>0, <2>1, TypeStep
    <2>3. CallInv' /\ FollowInv'  BY <1>0, <2>1, <2>2, CallStep, FollowStep
    <2>4. QED  BY <2>1, <2>2, <2>3 DEF MCInv
  <1>3. CASE UNCHANGED mcVars
    <2>1. [Next]_vars /\ [NextPushed]_vars /\ repeated' = repeated
      BY <1>3 DEF mcVars
    <2>2. TypeOK'  BY <1>0, <2>1, TypeStep
    <2>3. CallInv'  BY <1>0, <2>1, <2>2, CallStep
    <2>4. CASE repeated
      BY <1>0, <2>1, <2>2, <2>3, <2>4, FollowStep DEF MCInv
    <2>5. CASE ~repeated
      <3>1. pending' = pending /\ OnceInv /\ Numbered /\ CountInv /\ LastInv
        BY <1>3, <2>5 DEF mcVars, vars, MCInv
      <3>2. \A c \in Calls : pending'[c] <= 1  BY <3>1 DEF OnceInv
      <3>3. OnceInv' /\ Numbered' /\ CountInv' /\ LastInv'
        BY <1>0, <2>1, <2>2, <3>1, <3>2, OnceStep, NumberedStep, CountStep, LastStep
      <3>4. QED  BY <2>1, <2>2, <2>3, <2>5, <3>3 DEF MCInv
    <2>6. QED  BY <2>4, <2>5
  <1>4. QED  BY <1>1, <1>2, <1>3 DEF MCNext, Repeats

\* As long as Twilio reports the end of a call once, a customer is called at most
\* once per attempt and webhook and reached over WhatsApp only after every call,
\* for any number of webhooks, calls, attempts, workers and handlers.
THEOREM CalledOncePerAttempt == MCSpec => []OncePerAttempt
  <1>1. MCInv => OncePerAttempt  BY DEF MCInv, OnceInv, CountInv, OncePerAttempt
  <1>2. QED  BY <1>1, MCInitInv, MCStep, PTL DEF MCSpec

\* However often and however many at a time Twilio repeats its callbacks, what is
\* stored as not answered or cancelled has its next step queued.
THEOREM NextStepAlwaysQueued == MCSpec => []NextStepIsQueued
  <1>1. MCInv => NextStepIsQueued  BY DEF MCInv, FollowInv, NextStepIsQueued
  <1>2. QED  BY <1>1, MCInitInv, MCStep, PTL DEF MCSpec

-----------------------------------------------------------------------------
(* The chain of calls                                                      *)

LEMMA ChainStarts == MCInit => (~repeated => Chain!Init)
  <1> SUFFICES ASSUME MCInit PROVE Chain!Init  OBVIOUS
  <1>1. Fallbacks = {}
    <2>1. \A c \in Calls : 1 .. sent[c].fallback = {}  BY DEF MCInit, Init
    <2>2. QED  BY <2>1 DEF Fallbacks
  <1>2. Cardinality(Fallbacks) = 0  BY <1>1, FS_EmptySet
  <1>3. QED  BY <1>2 DEF Chain!Init, MCInit, Init, Attempts

\* Nobody is called and nothing is sent: the chain rests.
LEMMA ChainRests ==
    ASSUME triggers' = triggers, made' = made, Fallbacks' = Fallbacks
    PROVE  UNCHANGED Chain!chain
  <1>1. Cardinality(Fallbacks)' = Cardinality(Fallbacks)  OBVIOUS
  <1>2. QED  BY <1>1 DEF Chain!chain

\* A worker that dials has a task that stems from a webhook or from a call of the
\* attempt before that nothing else stems from.
LEMMA DialCalls ==
    ASSUME TypeOK, CountInv, NEW w \in Workers, Dial(w), Fallbacks' = Fallbacks
    PROVE  Chain!Next
  <1>0. WorkerOK /\ MadeOK /\ QueueOK  BY Parts
  <1>1. PICK n \in Attempts : n = worker[w].attempt  BY <1>0 DEF Dial, WorkerOK
  <1>2. /\ made' = [made EXCEPT ![n] = @ + 1] /\ triggers' = triggers
        /\ worker[w].pc = "stored" /\ worker[w].call \in Calls
    BY <1>0, <1>1 DEF Dial, WorkerOK
  <1>3. ASSUME NEW k \in Attempts
        PROVE  /\ made[k] \in Nat /\ Cardinality(TasksAt(queue, k)) \in Nat
               /\ Cardinality(Undialled(k)) \in Nat /\ Cardinality(Retriable(k)) \in Nat
    <2>1. Undialled(k) \subseteq Calls /\ Retriable(k) \subseteq Calls
      BY DEF Undialled, Retriable
    <2>2. QED  BY <1>0, <2>1, CallSets, TasksFinite DEF MadeOK, QueueOK
  <1>4. Cardinality(Undialled(n)) >= 1
    <2>1. worker[w].call \in Undialled(n)  BY <1>1, <1>2 DEF Undialled
    <2>2. Undialled(n) \subseteq Calls /\ {worker[w].call} \subseteq Undialled(n)
      BY <2>1 DEF Undialled
    <2>3. Cardinality({worker[w].call}) <= Cardinality(Undialled(n))  BY <2>2, CallSets
    <2>4. QED  BY <2>3, FS_Singleton
  <1>5. made[n] + 1 <= Claims(n)  BY <1>3, <1>4 DEF Claims
  <1>6. made[n] < Chain!Causes(n)
    <2>1. CASE n = 1
      <3>1. Claims(1) <= triggers /\ made[1] + 1 <= Claims(1)  BY <1>5, <2>1 DEF CountInv
      <3>2. Claims(1) \in Nat /\ made[1] \in Nat /\ triggers \in Nat
        BY <1>0, <1>3, <2>1 DEF Claims, MadeOK
      <3>3. QED  BY <2>1, <3>1, <3>2 DEF Chain!Causes
    <2>2. CASE n # 1
      <3>1. n - 1 \in Attempts /\ n - 1 + 1 = n  BY <2>2, CodShieldAssumption DEF Attempts
      <3>2. Claims(n) + Cardinality(Retriable(n - 1)) <= made[n - 1]  BY <3>1 DEF CountInv
      <3>3. /\ Claims(n) \in Nat /\ made[n] \in Nat
            /\ made[n - 1] \in Nat /\ Cardinality(Retriable(n - 1)) \in Nat
        BY <1>3, <3>1 DEF Claims
      <3>4. QED  BY <1>5, <2>2, <3>2, <3>3 DEF Chain!Causes
    <2>3. QED  BY <2>1, <2>2
  <1>7. Cardinality(Fallbacks)' = Cardinality(Fallbacks)  OBVIOUS
  <1>8. Chain!Call(n)  BY <1>2, <1>6, <1>7 DEF Chain!Call
  <1>9. QED  BY <1>8 DEF Chain!Next, Attempts

LEMMA FallbackMessages ==
    ASSUME TypeOK, CallInv, OnceInv, Numbered, CountInv, LastInv,
           NEW h \in Handlers, FallBack(h)
    PROVE  Chain!Next
  <1>0. MadeOK  BY Parts
  <1>1. MaxAttempts \in Attempts  BY CodShieldAssumption DEF Attempts
  <1>2. made[MaxAttempts] \in Nat  BY <1>0, <1>1 DEF MadeOK
  <1>3. /\ Cardinality(Fallbacks)' = Cardinality(Fallbacks) + 1
        /\ Cardinality(Retriable(MaxAttempts)) >= 1
        /\ Cardinality(Retriable(MaxAttempts)) \in Nat /\ Cardinality(Fallbacks) \in Nat
        /\ made' = made /\ triggers' = triggers
    BY FallbackStep
  <1>4. Cardinality(Fallbacks) < made[MaxAttempts]  BY <1>2, <1>3 DEF LastInv
  <1>5. Chain!Message  BY <1>3, <1>4 DEF Chain!Message
  <1>6. QED  BY <1>5 DEF Chain!Next

LEMMA ChainFollows ==
    ASSUME MCInv, ~repeated, [MCNext]_mcVars
    PROVE  [Chain!Next]_(Chain!chain)
  <1>0. TypeOK /\ CallInv /\ OnceInv /\ Numbered /\ CountInv /\ LastInv  BY DEF MCInv
  <1>1. [Next]_vars  BY DEF MCNext, ReportedOnce, Repeats, mcVars
  <1>2. CASE \E h \in Handlers : FallBack(h)  BY <1>0, <1>2, FallbackMessages
  <1>3. CASE \A h \in Handlers : ~FallBack(h)
    <2>0. Fallbacks' = Fallbacks  BY <1>0, <1>1, <1>3, OthersKeep
    <2>1. CASE \E known \in Sources : Trigger(known)
      <3>1. triggers' = triggers + 1 /\ made' = made  BY <2>1 DEF Trigger
      <3>2. Cardinality(Fallbacks)' = Cardinality(Fallbacks)  BY <2>0
      <3>3. Chain!Webhook  BY <3>1, <3>2 DEF Chain!Webhook
      <3>4. QED  BY <3>3 DEF Chain!Next
    <2>2. CASE \E w \in Workers : Dial(w)  BY <1>0, <2>0, <2>2, DialCalls
    <2>3. CASE ~((\E known \in Sources : Trigger(known)) \/ \E w \in Workers : Dial(w))
      <3>1. triggers' = triggers /\ made' = made
        BY <1>1, <2>3 DEF Next, WorkerStep, TakeTask, SkipTask, CreateRecord, RecordFails,
              DialFails, StoreMapping, CommitCall, CommitRejected, WorkerFails, HandlerStep,
              Retry, FallBack, PushFails, CommitFailed, SaveTheSale, CommitDigit, HandlerFails,
              Callback, LoadFailed, IgnoreStatus, LoadDigit, IgnoreDigit, Answer, EndCall, vars
      <3>2. QED  BY <2>0, <3>1, ChainRests
    <2>4. QED  BY <2>1, <2>2, <2>3
  <1>4. QED  BY <1>2, <1>3

\* As long as Twilio reports the end of a call once, queue, records, workers and
\* handlers implement CallChain: every call of an attempt follows up a webhook or a
\* call of the attempt before of its own, every WhatsApp fallback a last call of its own.
THEOREM CallsAreOneChain == MCSpec => CallsInChain
  <1>1. MCInv /\ [MCNext]_mcVars => [~repeated => [Chain!Next]_(Chain!chain)]_mcVars
    BY ChainFollows
  <1>2. QED
    BY <1>1, ChainStarts, MCInitInv, MCStep, PTL DEF MCSpec, CallsInChain
=============================================================================
