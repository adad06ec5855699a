----------------------- MODULE InboundDelivery_proofs -----------------------
(***************************************************************************)
(* Safety of InboundDelivery for every set of messages, POSTs and workers, *)
(* every batch size and every combination of faults.                       *)
(***************************************************************************)
EXTENDS InboundDelivery, TLAPS

-----------------------------------------------------------------------------
(* Type correctness                                                        *)

\* Leaving an entry keeps every worker well formed.
LEMMA NextEntryType ==
    ASSUME TypeOK, NEW w \in Workers, worker[w].pc # "idle", NextEntry(w)
    PROVE  /\ worker' \in [Workers -> [pc : {"idle", "next", "text", "turn", "reply",
                                             "fallback", "told", "ack"},
                                       cur : Nat \ {0}, upto : Nat]]
           /\ \A v \in Workers :
                 /\ worker'[v].upto <= delivered
                 /\ worker'[v].pc # "idle" <=> worker'[v].cur <= worker'[v].upto
  <1>1. worker[w] \in [pc : {"idle", "next", "text", "turn", "reply",
                             "fallback", "told", "ack"},
                       cur : Nat \ {0}, upto : Nat]
    BY DEF TypeOK
  <1>2. CASE worker[w].cur = worker[w].upto
    <2>1. worker' = [worker EXCEPT ![w] = Idle]  BY <1>2 DEF NextEntry
    <2>2. QED  BY <2>1, <1>1 DEF TypeOK, Idle
  <1>3. CASE worker[w].cur # worker[w].upto
    <2>1. worker' = [worker EXCEPT ![w] = [pc |-> "next", cur |-> worker[w].cur + 1,
                                           upto |-> worker[w].upto]]
      BY <1>3 DEF NextEntry
    <2>2. worker[w].cur + 1 <= worker[w].upto  BY <1>1, <1>3 DEF TypeOK
    <2>3. QED  BY <2>1, <2>2, <1>1 DEF TypeOK
  <1>4. QED  BY <1>2, <1>3

\* So does moving on within an entry.
LEMMA GotoType ==
    ASSUME TypeOK, NEW w \in Workers, worker[w].pc # "idle",
           NEW l \in {"next", "text", "turn", "reply", "fallback", "told", "ack"},
           Goto(w, l)
    PROVE  /\ worker' \in [Workers -> [pc : {"idle", "next", "text", "turn", "reply",
                                             "fallback", "told", "ack"},
                                       cur : Nat \ {0}, upto : Nat]]
           /\ \A v \in Workers :
                 /\ worker'[v].upto <= delivered
                 /\ worker'[v].pc # "idle" <=> worker'[v].cur <= worker'[v].upto
  BY DEF TypeOK, Goto

\* The loop over a payload stays within it.
LEMMA ContinueType ==
    ASSUME TypeOK, NEW p \in Posts, task[p].pc \in {"dedup", "enqueue"}, Continue(p)
    PROVE  /\ task' \in [Posts -> [pc : {"unused", "dedup", "enqueue", "done"},
                                   body : Payloads \cup {<<>>},
                                   at : Nat \ {0}]]
           /\ \A q \in Posts : task'[q].pc \in {"dedup", "enqueue"} =>
                                  task'[q].at \in 1 .. Len(task'[q].body)
  <1>1. /\ task[p] \in [pc : {"unused", "dedup", "enqueue", "done"},
                        body : Payloads \cup {<<>>}, at : Nat \ {0}]
        /\ task[p].at \in 1 .. Len(task[p].body)
    BY DEF TypeOK
  <1>2. task[p].body \in Seq(Messages)  BY <1>1, InboundAssumption
  <1>3. Len(task[p].body) \in Nat  BY <1>2
  <1>4. task' = [task EXCEPT ![p] =
                   [pc   |-> IF task[p].at = Len(task[p].body) THEN "done" ELSE "dedup",
                    body |-> task[p].body,
                    at   |-> task[p].at + 1]]
    BY DEF Continue
  <1>5. task[p].at # Len(task[p].body) => task[p].at + 1 \in 1 .. Len(task[p].body)
    BY <1>1, <1>3
  <1>6. QED  BY <1>1, <1>4, <1>5 DEF TypeOK

\* The message a running background task looks at is a message.
LEMMA LookingType ==
    ASSUME TypeOK, NEW p \in Posts, task[p].pc \in {"dedup", "enqueue"}
    PROVE  Looking(p) \in Messages
  <1>1. /\ task[p].body \in Payloads \cup {<<>>}
        /\ task[p].at \in 1 .. Len(task[p].body)
    BY DEF TypeOK
  <1>2. task[p].body \in Seq(Messages)  BY <1>1, InboundAssumption
  <1>3. QED  BY <1>1, <1>2 DEF Looking

\* So is the one a busy worker processes.
LEMMA CurrentType ==
    ASSUME TypeOK, NEW w \in Workers, worker[w].pc # "idle"
    PROVE  Current(w) \in Messages /\ worker[w].cur \in 1 .. delivered
  <1>1. /\ worker[w].cur \in Nat \ {0} /\ worker[w].upto \in Nat
        /\ worker[w].cur <= worker[w].upto /\ worker[w].upto <= delivered
        /\ delivered \in 0 .. Len(stream) /\ stream \in Seq(Messages)
    BY DEF TypeOK
  <1>2. QED  BY <1>1 DEF Current

LEMMA TypeStep == TypeOK /\ [Next]_vars => TypeOK'
  <1> SUFFICES ASSUME TypeOK, [Next]_vars PROVE TypeOK'  OBVIOUS
  <1> USE DEF ingressVars, queueVars, outVars
  <1>1. ASSUME NEW p \in Posts, ReceiveMessage(p) PROVE TypeOK'
    <2>1. PICK body \in Payloads :
             task' = [task EXCEPT ![p] = [pc |-> "dedup", body |-> body, at |-> 1]]
      BY <1>1 DEF ReceiveMessage
    <2>2. body \in Seq(Messages) /\ body # <<>>  BY InboundAssumption
    <2>3. 1 \in 1 .. Len(body)  BY <2>2
    <2>4. QED  BY <1>1, <2>1, <2>3 DEF TypeOK, ReceiveMessage
  <1>2. ASSUME NEW p \in Posts, SkipDuplicate(p) PROVE TypeOK'
    BY <1>2, ContinueType DEF TypeOK, SkipDuplicate
  <1>3. ASSUME NEW p \in Posts, Claim(p) PROVE TypeOK'
    BY <1>3, LookingType DEF TypeOK, Claim
  <1>4. ASSUME NEW p \in Posts, Enqueue(p) PROVE TypeOK'
    <2>1. Looking(p) \in Messages  BY <1>4, LookingType DEF Enqueue
    <2>2. stream' \in Seq(Messages) /\ Len(stream') \in {Len(stream), Len(stream) + 1}
      BY <1>4, <2>1 DEF Enqueue, TypeOK
    <2>3. delivered' \in 0 .. Len(stream')  BY <1>4, <2>2 DEF Enqueue, TypeOK
    <2>4. QED  BY <1>4, <2>2, <2>3, ContinueType DEF TypeOK, Enqueue
  <1>5. ASSUME NEW p \in Posts, TaskFails(p) PROVE TypeOK'
    BY <1>5 DEF TypeOK, TaskFails
  <1>6. ASSUME NEW m \in Messages, ExpireKey(m) PROVE TypeOK'
    BY <1>6 DEF TypeOK, ExpireKey
  <1>7. ASSUME NEW w \in Workers, Fetch(w) PROVE TypeOK'
    <2> DEFINE last == Min2(delivered + BatchSize, Len(stream))
    <2>1. last \in Nat /\ delivered < last /\ last <= Len(stream)
      BY <1>7, InboundAssumption DEF Fetch, Min2, TypeOK
    <2>2. /\ worker' = [worker EXCEPT ![w] = [pc |-> "next", cur |-> delivered + 1,
                                              upto |-> last]]
          /\ pel' = pel \cup ((delivered + 1) .. last)
          /\ delivered' = last
          /\ UNCHANGED <<stream, ingressVars, outVars>>
      BY <1>7 DEF Fetch
    <2> HIDE DEF last
    <2>3. QED  BY <2>1, <2>2 DEF TypeOK
  <1>8. ASSUME NEW w \in Workers, DescribeImage(w)
                                  \/ Transcribe(w) \/ InsertFallback(w) \/ NoChannel(w)
        PROVE  TypeOK'
    <2>1. /\ worker[w].pc # "idle"
          /\ \E l \in {"next", "text", "turn", "reply", "fallback", "told", "ack"} : Goto(w, l)
          /\ UNCHANGED <<ingressVars, queueVars, outVars>>
      BY <1>8 DEF DescribeImage, Transcribe, InsertFallback, NoChannel
    <2>2. QED  BY <2>1, GotoType DEF TypeOK
  <1>9. ASSUME NEW w \in Workers, CommitTurn(w) \/ CommitFallback(w) PROVE TypeOK'
    <2>1. /\ worker[w].pc # "idle"
          /\ \E l \in {"next", "text", "turn", "reply", "fallback", "told", "ack"} : Goto(w, l)
          /\ stored' = stored \cup {Current(w)}
          /\ UNCHANGED <<ingressVars, queueVars, replies, channel>>
      BY <1>9 DEF CommitTurn, CommitFallback
    <2>2. QED  BY <2>1, GotoType, CurrentType DEF TypeOK
  <1>10. ASSUME NEW w \in Workers, SendReply(w) \/ SendFallback(w)
         PROVE  TypeOK'
    <2>1. PICK l \in {"next", "text", "turn", "reply", "fallback", "told", "ack"} :
             Goto(w, l)
      BY <1>10 DEF SendReply, SendFallback
    <2>2. replies' = [replies EXCEPT ![Current(w)] = @ + 1]
      BY <1>10 DEF SendReply, SendFallback
    <2>3. replies' \in [Messages -> Nat]
      <3>1. replies \in [Messages -> Nat]  BY DEF TypeOK
      <3>2. \A m \in Messages : replies[m] + 1 \in Nat  BY <3>1
      <3>3. QED  BY <2>2, <3>1, <3>2
    <2>4. worker[w].pc # "idle" /\ UNCHANGED <<ingressVars, queueVars, stored, channel>>
      BY <1>10 DEF SendReply, SendFallback
    <2>5. QED  BY <2>1, <2>3, <2>4, GotoType DEF TypeOK
  <1>11. ASSUME NEW w \in Workers, SendFails(w) PROVE TypeOK'
    <2>1. /\ worker[w].pc # "idle"
          /\ \E l \in {"next", "text", "turn", "reply", "fallback", "told", "ack"} : Goto(w, l)
          /\ UNCHANGED <<ingressVars, queueVars, outVars>>
      BY <1>11 DEF SendFails
    <2>2. QED  BY <2>1, GotoType DEF TypeOK
  <1>12. ASSUME NEW w \in Workers, RejectDuplicate(w) \/ TextRaises(w) \/ TurnFails(w) PROVE TypeOK'
    <2>1. worker[w].pc # "idle" /\ NextEntry(w) /\ UNCHANGED <<ingressVars, queueVars, outVars>>
      BY <1>12 DEF RejectDuplicate, TextRaises, TurnFails
    <2>2. QED  BY <2>1, NextEntryType DEF TypeOK
  <1>13. ASSUME NEW w \in Workers, Acknowledge(w) PROVE TypeOK'
    <2>1. /\ worker[w].pc # "idle" /\ NextEntry(w) /\ pel' = pel \ {worker[w].cur}
          /\ UNCHANGED <<stream, delivered, ingressVars, outVars>>
      BY <1>13 DEF Acknowledge
    <2>2. QED  BY <2>1, NextEntryType DEF TypeOK
  <1>14. ASSUME NEW w \in Workers, CrashWorker(w) PROVE TypeOK'
    BY <1>14 DEF TypeOK, CrashWorker, Idle
  <1>15. CASE UNCHANGED vars  BY <1>15 DEF vars, TypeOK
  <1>16. QED
    BY <1>1, <1>2, <1>3, <1>4, <1>5, <1>6, <1>7, <1>8, <1>9, <1>10, <1>11, <1>12,
       <1>13, <1>14, <1>15 DEF Next, TaskStep, TurnStep

LEMMA TypeInit == Init => TypeOK
  BY InboundAssumption DEF Init, TypeOK, NoTask, Idle

\* Every state of every instance is well typed.
THEOREM TypeCorrect == Spec => []TypeOK
  BY TypeInit, TypeStep, PTL DEF Spec

-----------------------------------------------------------------------------
(* The inductive invariant of the delivery path                            *)

\* A reply that is still to be sent belongs to a stored message nobody has
\* answered, and to one worker only.
PendingReply ==
    \A w \in Workers : worker[w].pc = "reply" =>
       /\ Current(w) \in stored
       /\ Current(w) \notin Voice =>
             /\ replies[Current(w)] = 0
             /\ \A v \in Workers \ {w} :
                   worker[v].pc = "reply" => Current(v) # Current(w)

\* The fallback branch belongs to voice notes.
ToldAreVoice ==
    \A w \in Workers : worker[w].pc \in {"fallback", "told"} => Current(w) \in Voice

\* An entry is acknowledged after its commit.
ReadyToAck ==
    channel => \A w \in Workers : worker[w].pc = "ack" => Current(w) \in stored

DeliveryInv ==
    /\ OneOpenRow /\ PendingReply /\ ToldAreVoice /\ ReadyToAck
    /\ ReplyIsStored /\ AtMostOneReply /\ AckedIsStored

-----------------------------------------------------------------------------
(* What a step leaves alone                                                *)

\* Appending to the stream moves no entry.
LEMMA AppendKeeps ==
    ASSUME TypeOK, NEW p \in Posts, Enqueue(p), task[p].pc = "enqueue"
    PROVE  \A e \in 1 .. delivered : stream'[e] = stream[e]
  <1>1. Looking(p) \in Messages  BY LookingType
  <1>2. stream \in Seq(Messages) /\ delivered \in 0 .. Len(stream)  BY DEF TypeOK
  <1>3. stream' = stream \/ stream' = Append(stream, Looking(p))  BY DEF Enqueue
  <1>4. QED  BY <1>1, <1>2, <1>3

\* A step of worker w that stays on its entry changes its label and nothing
\* else of any worker.
LEMMA GotoKeeps ==
    ASSUME TypeOK, NEW w \in Workers, NEW l, Goto(w, l), UNCHANGED stream
    PROVE  /\ worker'[w].pc = l
           /\ \A v \in Workers : /\ Current(v)' = Current(v)
                                 /\ Held(v)' = Held(v)
                                 /\ worker'[v].cur = worker[v].cur
           /\ \A v \in Workers \ {w} : worker'[v] = worker[v]
  BY DEF TypeOK, Goto, Current, Held

\* A worker that leaves its entry holds the rest of its batch, or nothing.
LEMMA NextEntryKeeps ==
    ASSUME TypeOK, NEW w \in Workers, worker[w].pc # "idle",
           NextEntry(w), UNCHANGED stream
    PROVE  /\ worker'[w].pc \in {"idle", "next"}
           /\ Held(w)' \subseteq Held(w) \ {worker[w].cur}
           /\ \A v \in Workers \ {w} : /\ worker'[v] = worker[v]
                                       /\ Current(v)' = Current(v)
                                       /\ Held(v)' = Held(v)
  <1>1. worker[w] \in [pc : {"idle", "next", "text", "turn", "reply",
                             "fallback", "told", "ack"},
                       cur : Nat \ {0}, upto : Nat]
    BY DEF TypeOK
  <1>2. \A v \in Workers \ {w} : worker'[v] = worker[v]
    BY DEF TypeOK, NextEntry
  <1>3. \A v \in Workers \ {w} : Current(v)' = Current(v) /\ Held(v)' = Held(v)
    BY <1>2 DEF Current, Held
  <1>4. CASE worker[w].cur = worker[w].upto
    <2>1. worker'[w] = Idle  BY <1>4 DEF NextEntry, TypeOK
    <2>2. Held(w)' = {}  BY <2>1 DEF Held, Idle
    <2>3. QED  BY <1>2, <1>3, <2>1, <2>2 DEF Idle
  <1>5. CASE worker[w].cur # worker[w].upto
    <2>1. worker'[w] = [pc |-> "next", cur |-> worker[w].cur + 1, upto |-> worker[w].upto]
      BY <1>5 DEF NextEntry, TypeOK
    <2>2. Held(w)' = (worker[w].cur + 1) .. worker[w].upto  BY <2>1 DEF Held
    <2>3. Held(w)' \subseteq Held(w) \ {worker[w].cur}
      <3>1. worker[w].cur \in Nat /\ worker[w].upto \in Nat  BY <1>1
      <3>2. Held(w) = worker[w].cur .. worker[w].upto  BY DEF Held
      <3>3. QED  BY <2>2, <3>1, <3>2
    <2>4. QED  BY <1>2, <1>3, <2>1, <2>3
  <1>6. QED  BY <1>4, <1>5

\* A step that changes neither the stream's past, nor workers, pending
\* entries, rows or replies keeps the invariant.
LEMMA IngressKeeps ==
    ASSUME TypeOK, DeliveryInv, UNCHANGED <<delivered, pel, worker, outVars>>,
           \A e \in 1 .. delivered : stream'[e] = stream[e]
    PROVE  DeliveryInv'
  <1>1. \A w \in Workers : worker[w].pc # "idle" => Current(w)' = Current(w)
    BY CurrentType DEF Current
  <1>2. UNCHANGED <<delivered, pel, worker, stored, replies, channel>>  BY DEF outVars
  <1>3. OneOpenRow'  BY <1>1, <1>2 DEF DeliveryInv, OneOpenRow
  <1>4. PendingReply'  BY <1>1, <1>2 DEF DeliveryInv, PendingReply
  <1>5. ToldAreVoice'  BY <1>1, <1>2 DEF DeliveryInv, ToldAreVoice
  <1>6. ReadyToAck'  BY <1>1, <1>2 DEF DeliveryInv, ReadyToAck
  <1>7. ReplyIsStored' /\ AtMostOneReply'
    BY <1>2 DEF DeliveryInv, ReplyIsStored, AtMostOneReply
  <1>8. AckedIsStored'  BY <1>2 DEF DeliveryInv, AckedIsStored
  <1>9. QED  BY <1>3, <1>4, <1>5, <1>6, <1>7, <1>8 DEF DeliveryInv

\* Giving up a turn, with or without the rest of the batch, breaks nothing.
LEMMA GiveUpKeeps ==
    ASSUME TypeOK, DeliveryInv, NEW w \in Workers,
           worker'[w].pc \in {"idle", "next"},
           \A v \in Workers \ {w} : worker'[v] = worker[v] /\ Current(v)' = Current(v),
           UNCHANGED outVars, AckedIsStored'
    PROVE  DeliveryInv'
  <1>1. UNCHANGED <<stored, replies, channel>>  BY DEF outVars
  <1>2. OneOpenRow'  BY <1>1 DEF DeliveryInv, OneOpenRow
  <1>3. PendingReply'  BY <1>1 DEF DeliveryInv, PendingReply
  <1>4. ToldAreVoice'  BY DEF DeliveryInv, ToldAreVoice
  <1>5. ReadyToAck'  BY <1>1 DEF DeliveryInv, ReadyToAck
  <1>6. ReplyIsStored' /\ AtMostOneReply'
    BY <1>1 DEF DeliveryInv, ReplyIsStored, AtMostOneReply
  <1>7. QED  BY <1>2, <1>3, <1>4, <1>5, <1>6 DEF DeliveryInv

-----------------------------------------------------------------------------
(* The invariant is inductive                                              *)

LEMMA DeliveryInit == Init => DeliveryInv
  BY DEF Init, DeliveryInv, OneOpenRow, PendingReply, ToldAreVoice, ReadyToAck,
         ReplyIsStored, AtMostOneReply, AckedIsStored, Idle

LEMMA DeliveryStep == TypeOK /\ DeliveryInv /\ [Next]_vars => DeliveryInv'
  <1> SUFFICES ASSUME TypeOK, DeliveryInv, [Next]_vars PROVE DeliveryInv'  OBVIOUS
  <1>t. /\ replies \in [Messages -> Nat]
        /\ \A v \in Workers : worker[v].pc # "idle" => Current(v) \in Messages
    BY CurrentType DEF TypeOK
  <1>1. ASSUME NEW p \in Posts, ReceiveMessage(p) \/ SkipDuplicate(p) \/ Claim(p) \/ TaskFails(p)
        PROVE  DeliveryInv'
    BY <1>1, IngressKeeps
       DEF ReceiveMessage, SkipDuplicate, Claim, TaskFails, queueVars, outVars
  <1>2. ASSUME NEW p \in Posts, Enqueue(p) PROVE DeliveryInv'
    BY <1>2, IngressKeeps, AppendKeeps DEF Enqueue, outVars
  <1>3. ASSUME NEW m \in Messages, ExpireKey(m) PROVE DeliveryInv'
    BY <1>3, IngressKeeps DEF ExpireKey, queueVars, outVars
  <1>4. ASSUME NEW w \in Workers, Fetch(w) PROVE DeliveryInv'
    <2>1. /\ worker'[w].pc = "next"
          /\ \A v \in Workers \ {w} : worker'[v] = worker[v] /\ Current(v)' = Current(v)
      BY <1>4 DEF Fetch, TypeOK, Current
    <2> DEFINE last == Min2(delivered + BatchSize, Len(stream))
    <2>2. pel' = pel \cup ((delivered + 1) .. last) /\ delivered' = last
          /\ UNCHANGED <<stream, stored, channel>>
      BY <1>4 DEF Fetch, outVars
    <2>3. last \in Nat /\ delivered \in Nat
      BY InboundAssumption DEF Min2, TypeOK
    <2> HIDE DEF last
    <2>4. (1 .. delivered') \ pel' \subseteq (1 .. delivered) \ pel  BY <2>2, <2>3
    <2>5. AckedIsStored'  BY <2>2, <2>4 DEF DeliveryInv, AckedIsStored
    <2>6. QED  BY <1>4, <2>1, <2>5, GiveUpKeeps DEF Fetch
  <1>5. ASSUME NEW w \in Workers, RejectDuplicate(w) \/ TextRaises(w) \/ TurnFails(w) PROVE DeliveryInv'
    <2>1. /\ worker[w].pc # "idle" /\ NextEntry(w)
          /\ UNCHANGED <<stream, delivered, pel, outVars>>
      BY <1>5 DEF RejectDuplicate, TextRaises, TurnFails, queueVars
    <2>2. AckedIsStored'  BY <2>1 DEF DeliveryInv, AckedIsStored, outVars
    <2>3. QED  BY <2>1, <2>2, NextEntryKeeps, GiveUpKeeps
  <1>6. ASSUME NEW w \in Workers, CrashWorker(w) PROVE DeliveryInv'
    <2>1. /\ worker'[w].pc = "idle"
          /\ \A v \in Workers \ {w} : worker'[v] = worker[v] /\ Current(v)' = Current(v)
      BY <1>6 DEF CrashWorker, TypeOK, Current, Idle, queueVars
    <2>2. AckedIsStored'
      BY <1>6 DEF CrashWorker, DeliveryInv, AckedIsStored, outVars, queueVars
    <2>3. QED  BY <1>6, <2>1, <2>2, GiveUpKeeps DEF CrashWorker
  <1>7. ASSUME NEW w \in Workers, Acknowledge(w) PROVE DeliveryInv'
    <2>1. /\ worker[w].pc = "ack" /\ NextEntry(w) /\ pel' = pel \ {worker[w].cur}
          /\ UNCHANGED <<stream, delivered, outVars>>
      BY <1>7 DEF Acknowledge
    <2>2. channel => stream[worker[w].cur] \in stored
      BY <2>1 DEF DeliveryInv, ReadyToAck, Current
    <2>3. AckedIsStored'  BY <2>1, <2>2 DEF DeliveryInv, AckedIsStored, outVars
    <2>4. QED  BY <2>1, <2>3, NextEntryKeeps, GiveUpKeeps
  <1>9. ASSUME NEW w \in Workers, DescribeImage(w) PROVE DeliveryInv'
    <2>1. /\ worker[w].pc # "idle" /\ UNCHANGED <<stream, delivered, pel>>
          /\ UNCHANGED <<stored, replies, channel>>
      BY <1>9 DEF DescribeImage, queueVars, outVars
    <2>2. /\ worker'[w].pc = "turn"
          /\ \A v \in Workers : Current(v)' = Current(v)
          /\ \A v \in Workers \ {w} : worker'[v] = worker[v]
      BY <1>9, <2>1, GotoKeeps DEF DescribeImage
    <2>3. OneOpenRow'
      BY <1>t, <1>9, <2>1, <2>2 DEF DescribeImage, DeliveryInv, OneOpenRow, Inserting
    <2>4. PendingReply'
      BY <1>t, <1>9, <2>1, <2>2 DEF DescribeImage, DeliveryInv, PendingReply
    <2>5. ToldAreVoice'
      BY <1>t, <1>9, <2>1, <2>2 DEF DescribeImage, DeliveryInv, ToldAreVoice
    <2>6. ReadyToAck'
      BY <1>t, <1>9, <2>1, <2>2 DEF DescribeImage, DeliveryInv, ReadyToAck
    <2>7. ReplyIsStored'
      BY <1>t, <1>9, <2>1, <2>2 DEF DescribeImage, DeliveryInv, ReplyIsStored
    <2>8. AtMostOneReply'
      BY <1>t, <1>9, <2>1, <2>2 DEF DescribeImage, DeliveryInv, AtMostOneReply
    <2>9. AckedIsStored'
      BY <1>t, <1>9, <2>1, <2>2 DEF DescribeImage, DeliveryInv, AckedIsStored
    <2>10. QED  BY <2>3, <2>4, <2>5, <2>6, <2>7, <2>8, <2>9 DEF DeliveryInv
  <1>10. ASSUME NEW w \in Workers, Transcribe(w) PROVE DeliveryInv'
    <2>1. /\ worker[w].pc # "idle" /\ UNCHANGED <<stream, delivered, pel>>
          /\ UNCHANGED <<stored, replies, channel>>
      BY <1>10 DEF Transcribe, queueVars, outVars
    <2>2. /\ worker'[w].pc = "text"
          /\ \A v \in Workers : Current(v)' = Current(v)
          /\ \A v \in Workers \ {w} : worker'[v] = worker[v]
      BY <1>10, <2>1, GotoKeeps DEF Transcribe
    <2>3. OneOpenRow'
      BY <1>t, <1>10, <2>1, <2>2 DEF Transcribe, DeliveryInv, OneOpenRow
    <2>4. PendingReply'
      BY <1>t, <1>10, <2>1, <2>2 DEF Transcribe, DeliveryInv, PendingReply
    <2>5. ToldAreVoice'
      BY <1>t, <1>10, <2>1, <2>2 DEF Transcribe, DeliveryInv, ToldAreVoice
    <2>6. ReadyToAck'
      BY <1>t, <1>10, <2>1, <2>2 DEF Transcribe, DeliveryInv, ReadyToAck
    <2>7. ReplyIsStored'
      BY <1>t, <1>10, <2>1, <2>2 DEF Transcribe, DeliveryInv, ReplyIsStored
    <2>8. AtMostOneReply'
      BY <1>t, <1>10, <2>1, <2>2 DEF Transcribe, DeliveryInv, AtMostOneReply
    <2>9. AckedIsStored'
      BY <1>t, <1>10, <2>1, <2>2 DEF Transcribe, DeliveryInv, AckedIsStored
    <2>10. QED  BY <2>3, <2>4, <2>5, <2>6, <2>7, <2>8, <2>9 DEF DeliveryInv
  <1>11. ASSUME NEW w \in Workers, InsertFallback(w) PROVE DeliveryInv'
    <2>1. /\ worker[w].pc # "idle" /\ UNCHANGED <<stream, delivered, pel>>
          /\ UNCHANGED <<stored, replies, channel>>
      BY <1>11 DEF InsertFallback, queueVars, outVars
    <2>2. /\ worker'[w].pc = "fallback"
          /\ \A v \in Workers : Current(v)' = Current(v)
          /\ \A v \in Workers \ {w} : worker'[v] = worker[v]
      BY <1>11, <2>1, GotoKeeps DEF InsertFallback
    <2>3. OneOpenRow'
      BY <1>t, <1>11, <2>1, <2>2 DEF InsertFallback, DeliveryInv, OneOpenRow, Inserting
    <2>4. PendingReply'
      BY <1>t, <1>11, <2>1, <2>2 DEF InsertFallback, DeliveryInv, PendingReply
    <2>5. ToldAreVoice'
      BY <1>t, <1>11, <2>1, <2>2 DEF InsertFallback, DeliveryInv, ToldAreVoice
    <2>6. ReadyToAck'
      BY <1>t, <1>11, <2>1, <2>2 DEF InsertFallback, DeliveryInv, ReadyToAck
    <2>7. ReplyIsStored'
      BY <1>t, <1>11, <2>1, <2>2 DEF InsertFallback, DeliveryInv, ReplyIsStored
    <2>8. AtMostOneReply'
      BY <1>t, <1>11, <2>1, <2>2 DEF InsertFallback, DeliveryInv, AtMostOneReply
    <2>9. AckedIsStored'
      BY <1>t, <1>11, <2>1, <2>2 DEF InsertFallback, DeliveryInv, AckedIsStored
    <2>10. QED  BY <2>3, <2>4, <2>5, <2>6, <2>7, <2>8, <2>9 DEF DeliveryInv
  <1>12. ASSUME NEW w \in Workers, NoChannel(w) PROVE DeliveryInv'
    <2>1. /\ worker[w].pc # "idle" /\ UNCHANGED <<stream, delivered, pel>>
          /\ UNCHANGED <<stored, replies, channel>>
      BY <1>12 DEF NoChannel, queueVars, outVars
    <2>2. /\ worker'[w].pc = "ack"
          /\ \A v \in Workers : Current(v)' = Current(v)
          /\ \A v \in Workers \ {w} : worker'[v] = worker[v]
      BY <1>12, <2>1, GotoKeeps DEF NoChannel
    <2>3. OneOpenRow'
      BY <1>t, <1>12, <2>1, <2>2 DEF NoChannel, DeliveryInv, OneOpenRow
    <2>4. PendingReply'
      BY <1>t, <1>12, <2>1, <2>2 DEF NoChannel, DeliveryInv, PendingReply
    <2>5. ToldAreVoice'
      BY <1>t, <1>12, <2>1, <2>2 DEF NoChannel, DeliveryInv, ToldAreVoice
    <2>6. ReadyToAck'
      BY <1>t, <1>12, <2>1, <2>2 DEF NoChannel, DeliveryInv, ReadyToAck
    <2>7. ReplyIsStored'
      BY <1>t, <1>12, <2>1, <2>2 DEF NoChannel, DeliveryInv, ReplyIsStored
    <2>8. AtMostOneReply'
      BY <1>t, <1>12, <2>1, <2>2 DEF NoChannel, DeliveryInv, AtMostOneReply
    <2>9. AckedIsStored'
      BY <1>t, <1>12, <2>1, <2>2 DEF NoChannel, DeliveryInv, AckedIsStored
    <2>10. QED  BY <2>3, <2>4, <2>5, <2>6, <2>7, <2>8, <2>9 DEF DeliveryInv
  <1>13. ASSUME NEW w \in Workers, CommitTurn(w) PROVE DeliveryInv'
    <2>1. /\ worker[w].pc # "idle" /\ UNCHANGED <<stream, delivered, pel>>
          /\ stored' = stored \cup {Current(w)} /\ UNCHANGED replies
      BY <1>13 DEF CommitTurn, queueVars, outVars
    <2>2. /\ worker'[w].pc = "reply"
          /\ \A v \in Workers : Current(v)' = Current(v)
          /\ \A v \in Workers \ {w} : worker'[v] = worker[v]
      BY <1>13, <2>1, GotoKeeps DEF CommitTurn
    <2>3. OneOpenRow'
      BY <1>t, <1>13, <2>1, <2>2 DEF CommitTurn, DeliveryInv, OneOpenRow
    <2>4. PendingReply'
      BY <1>t, <1>13, <2>1, <2>2 DEF CommitTurn, DeliveryInv, PendingReply, OneOpenRow, ReplyIsStored
    <2>5. ToldAreVoice'
      BY <1>t, <1>13, <2>1, <2>2 DEF CommitTurn, DeliveryInv, ToldAreVoice
    <2>6. ReadyToAck'
      BY <1>t, <1>13, <2>1, <2>2 DEF CommitTurn, DeliveryInv, ReadyToAck
    <2>7. ReplyIsStored'
      BY <1>t, <1>13, <2>1, <2>2 DEF CommitTurn, DeliveryInv, ReplyIsStored
    <2>8. AtMostOneReply'
      BY <1>t, <1>13, <2>1, <2>2 DEF CommitTurn, DeliveryInv, AtMostOneReply
    <2>9. AckedIsStored'
      BY <1>t, <1>13, <2>1, <2>2 DEF CommitTurn, DeliveryInv, AckedIsStored
    <2>10. QED  BY <2>3, <2>4, <2>5, <2>6, <2>7, <2>8, <2>9 DEF DeliveryInv
  <1>14. ASSUME NEW w \in Workers, CommitFallback(w) PROVE DeliveryInv'
    <2>1. /\ worker[w].pc # "idle" /\ UNCHANGED <<stream, delivered, pel>>
          /\ stored' = stored \cup {Current(w)} /\ UNCHANGED replies
      BY <1>14 DEF CommitFallback, queueVars, outVars
    <2>2. /\ worker'[w].pc = "ack"
          /\ \A v \in Workers : Current(v)' = Current(v)
          /\ \A v \in Workers \ {w} : worker'[v] = worker[v]
      BY <1>14, <2>1, GotoKeeps DEF CommitFallback
    <2>3. OneOpenRow'
      BY <1>t, <1>14, <2>1, <2>2 DEF CommitFallback, DeliveryInv, OneOpenRow
    <2>4. PendingReply'
      BY <1>t, <1>14, <2>1, <2>2 DEF CommitFallback, DeliveryInv, PendingReply
    <2>5. ToldAreVoice'
      BY <1>t, <1>14, <2>1, <2>2 DEF CommitFallback, DeliveryInv, ToldAreVoice
    <2>6. ReadyToAck'
      BY <1>t, <1>14, <2>1, <2>2 DEF CommitFallback, DeliveryInv, ReadyToAck
    <2>7. ReplyIsStored'
      BY <1>t, <1>14, <2>1, <2>2 DEF CommitFallback, DeliveryInv, ReplyIsStored
    <2>8. AtMostOneReply'
      BY <1>t, <1>14, <2>1, <2>2 DEF CommitFallback, DeliveryInv, AtMostOneReply
    <2>9. AckedIsStored'
      BY <1>t, <1>14, <2>1, <2>2 DEF CommitFallback, DeliveryInv, AckedIsStored
    <2>10. QED  BY <2>3, <2>4, <2>5, <2>6, <2>7, <2>8, <2>9 DEF DeliveryInv
  <1>15. ASSUME NEW w \in Workers, SendFallback(w) PROVE DeliveryInv'
    <2>1. /\ worker[w].pc # "idle" /\ UNCHANGED <<stream, delivered, pel>>
          /\ replies' = [replies EXCEPT ![Current(w)] = @ + 1] /\ UNCHANGED <<stored, channel>>
      BY <1>15 DEF SendFallback, queueVars, outVars
    <2>2. /\ worker'[w].pc = "told"
          /\ \A v \in Workers : Current(v)' = Current(v)
          /\ \A v \in Workers \ {w} : worker'[v] = worker[v]
      BY <1>15, <2>1, GotoKeeps DEF SendFallback
    <2>3. OneOpenRow'
      BY <1>t, <1>15, <2>1, <2>2 DEF SendFallback, DeliveryInv, OneOpenRow
    <2>4. PendingReply'
      BY <1>t, <1>15, <2>1, <2>2 DEF SendFallback, DeliveryInv, PendingReply, ToldAreVoice
    <2>5. ToldAreVoice'
      BY <1>t, <1>15, <2>1, <2>2 DEF SendFallback, DeliveryInv, ToldAreVoice
    <2>6. ReadyToAck'
      BY <1>t, <1>15, <2>1, <2>2 DEF SendFallback, DeliveryInv, ReadyToAck
    <2>7. ReplyIsStored'
      BY <1>t, <1>15, <2>1, <2>2 DEF SendFallback, DeliveryInv, ReplyIsStored, ToldAreVoice
    <2>8. AtMostOneReply'
      BY <1>t, <1>15, <2>1, <2>2 DEF SendFallback, DeliveryInv, AtMostOneReply, ToldAreVoice
    <2>9. AckedIsStored'
      BY <1>t, <1>15, <2>1, <2>2 DEF SendFallback, DeliveryInv, AckedIsStored
    <2>10. QED  BY <2>3, <2>4, <2>5, <2>6, <2>7, <2>8, <2>9 DEF DeliveryInv
  <1>16. ASSUME NEW w \in Workers, SendReply(w) PROVE DeliveryInv'
    <2>1. /\ worker[w].pc # "idle" /\ UNCHANGED <<stream, delivered, pel>>
          /\ replies' = [replies EXCEPT ![Current(w)] = @ + 1] /\ UNCHANGED <<stored, channel>>
      BY <1>16 DEF SendReply, queueVars, outVars
    <2>2. /\ worker'[w].pc = "ack"
          /\ \A v \in Workers : Current(v)' = Current(v)
          /\ \A v \in Workers \ {w} : worker'[v] = worker[v]
      BY <1>16, <2>1, GotoKeeps DEF SendReply
    <2>3. OneOpenRow'
      BY <1>t, <1>16, <2>1, <2>2 DEF SendReply, DeliveryInv, OneOpenRow
    <2>4. PendingReply'
      BY <1>t, <1>16, <2>1, <2>2 DEF SendReply, DeliveryInv, PendingReply
    <2>5. ToldAreVoice'
      BY <1>t, <1>16, <2>1, <2>2 DEF SendReply, DeliveryInv, ToldAreVoice
    <2>6. ReadyToAck'
      BY <1>t, <1>16, <2>1, <2>2 DEF SendReply, DeliveryInv, ReadyToAck, PendingReply
    <2>7. ReplyIsStored'
      BY <1>t, <1>16, <2>1, <2>2 DEF SendReply, DeliveryInv, ReplyIsStored, PendingReply
    <2>8. AtMostOneReply'
      BY <1>t, <1>16, <2>1, <2>2 DEF SendReply, DeliveryInv, AtMostOneReply, PendingReply
    <2>9. AckedIsStored'
      BY <1>t, <1>16, <2>1, <2>2 DEF SendReply, DeliveryInv, AckedIsStored
    <2>10. QED  BY <2>3, <2>4, <2>5, <2>6, <2>7, <2>8, <2>9 DEF DeliveryInv
  <1>18. ASSUME NEW w \in Workers, SendFails(w) PROVE DeliveryInv'
    <2>1. /\ worker[w].pc # "idle" /\ UNCHANGED <<stream, delivered, pel, stored, replies, channel>>
          /\ \/ worker[w].pc = "reply" /\ Goto(w, "ack")
             \/ worker[w].pc = "fallback" /\ Goto(w, "told")
      BY <1>18 DEF SendFails, queueVars, outVars
    <2>2. /\ worker'[w].pc = IF worker[w].pc = "reply" THEN "ack" ELSE "told"
          /\ \A v \in Workers : Current(v)' = Current(v)
          /\ \A v \in Workers \ {w} : worker'[v] = worker[v]
      BY <2>1, GotoKeeps
    <2>3. OneOpenRow'
      BY <1>t, <2>1, <2>2 DEF DeliveryInv, OneOpenRow
    <2>4. PendingReply'
      BY <1>t, <2>1, <2>2 DEF DeliveryInv, PendingReply
    <2>5. ToldAreVoice'
      BY <1>t, <2>1, <2>2 DEF DeliveryInv, ToldAreVoice
    <2>6. ReadyToAck'
      BY <1>t, <2>1, <2>2 DEF DeliveryInv, ReadyToAck, PendingReply
    <2>7. ReplyIsStored'
      BY <1>t, <2>1, <2>2 DEF DeliveryInv, ReplyIsStored
    <2>8. AtMostOneReply'
      BY <1>t, <2>1, <2>2 DEF DeliveryInv, AtMostOneReply
    <2>9. AckedIsStored'
      BY <1>t, <2>1, <2>2 DEF DeliveryInv, AckedIsStored
    <2>10. QED  BY <2>3, <2>4, <2>5, <2>6, <2>7, <2>8, <2>9 DEF DeliveryInv
  <1>19. CASE UNCHANGED vars
    BY <1>19, IngressKeeps DEF vars, queueVars, outVars
  <1>20. QED
    BY <1>1, <1>2, <1>3, <1>4, <1>5, <1>6, <1>7, <1>9, <1>10, <1>11, <1>12, <1>13, <1>14, <1>15, <1>16, <1>18, <1>19
       DEF Next, TaskStep, TurnStep

LEMMA DeliveryCorrect == Spec => []DeliveryInv
  BY TypeInit, TypeStep, DeliveryInit, DeliveryStep, PTL DEF Spec

\* No text or image is answered twice, for any number of repetitions, workers,
\* crashes and failures (message_worker, the unique index on external_id).
THEOREM NoSecondReply == Spec => []AtMostOneReply
  BY DeliveryCorrect, PTL DEF DeliveryInv

\* No reply without a committed turn (process_message commits, then sends).
THEOREM RepliesAreBacked == Spec => []ReplyIsStored
  BY DeliveryCorrect, PTL DEF DeliveryInv

\* XACK never precedes the commit (run_worker).
THEOREM AcksAreBacked == Spec => []AckedIsStored
  BY DeliveryCorrect, PTL DEF DeliveryInv

\* Two transactions never store the same message.
THEOREM RowsAreUnique == Spec => []OneOpenRow
  BY DeliveryCorrect, PTL DEF DeliveryInv

-----------------------------------------------------------------------------
(* The consumer group                                                      *)

LEMMA HeldInit == Init => HeldOnce
  BY DEF Init, HeldOnce, Held, Idle

\* What workers hold only shrinks unless a worker reads new entries.
LEMMA HeldShrinks ==
    ASSUME HeldOnce, \A v \in Workers : Held(v)' \subseteq Held(v), UNCHANGED pel
    PROVE  HeldOnce'
  BY DEF HeldOnce

LEMMA HeldStep == TypeOK /\ HeldOnce /\ [Next]_vars => HeldOnce'
  <1> SUFFICES ASSUME TypeOK, HeldOnce, [Next]_vars PROVE HeldOnce'  OBVIOUS
  <1>1. ASSUME UNCHANGED <<pel, worker>> PROVE HeldOnce'
    BY <1>1 DEF HeldOnce, Held
  <1>2. ASSUME NEW w \in Workers, Fetch(w) PROVE HeldOnce'
    <2> DEFINE last == Min2(delivered + BatchSize, Len(stream))
    <2>1. /\ pel' = pel \cup ((delivered + 1) .. last)
          /\ worker' = [worker EXCEPT ![w] = [pc |-> "next", cur |-> delivered + 1,
                                              upto |-> last]]
      BY <1>2 DEF Fetch
    <2>2. last \in Nat /\ delivered \in Nat
      BY InboundAssumption DEF Min2, TypeOK
    <2> HIDE DEF last
    <2>3. Held(w)' = (delivered + 1) .. last  BY <2>1 DEF Held, TypeOK
    <2>4. \A v \in Workers \ {w} : Held(v)' = Held(v)  BY <2>1 DEF Held, TypeOK
    <2>5. \A v \in Workers \ {w} : Held(v) \subseteq pel /\ pel \subseteq 1 .. delivered
      BY DEF HeldOnce, TypeOK
    <2>6. \A v \in Workers \ {w} : Held(v) \cap Held(w)' = {}
      BY <2>2, <2>3, <2>5
    <2>7. \A v \in Workers : Held(v)' \subseteq pel'
      BY <2>1, <2>3, <2>4, <2>5
    <2>8. \A v, u \in Workers : v # u => Held(v)' \cap Held(u)' = {}
      <3>1. \A v, u \in Workers \ {w} : v # u => Held(v) \cap Held(u) = {}
        BY DEF HeldOnce
      <3>2. QED  BY <2>4, <2>6, <3>1
    <2>9. QED  BY <2>7, <2>8 DEF HeldOnce
  <1>3. ASSUME NEW w \in Workers, worker[w].pc # "idle", NextEntry(w),
               UNCHANGED stream, pel' \in {pel, pel \ {worker[w].cur}}
        PROVE  HeldOnce'
    <2>1. /\ Held(w)' \subseteq Held(w) \ {worker[w].cur}
          /\ \A v \in Workers \ {w} : Held(v)' = Held(v)
      BY <1>3, NextEntryKeeps
    <2>2. worker[w].cur \in Held(w)  BY <1>3 DEF TypeOK, Held
    <2>3. QED  BY <1>3, <2>1, <2>2 DEF HeldOnce
  <1>4. ASSUME NEW w \in Workers, NEW l, Goto(w, l), UNCHANGED <<stream, pel>>
        PROVE  HeldOnce'
    BY <1>4, GotoKeeps, HeldShrinks
  <1>5. ASSUME NEW w \in Workers, CrashWorker(w) PROVE HeldOnce'
    <2>1. Held(w)' = {}  BY <1>5 DEF CrashWorker, Held, Idle, TypeOK
    <2>2. \A v \in Workers \ {w} : Held(v)' = Held(v)
      BY <1>5 DEF CrashWorker, Held, TypeOK
    <2>3. QED  BY <1>5, <2>1, <2>2, HeldShrinks DEF CrashWorker, queueVars
  <1>6. ASSUME NEW p \in Posts, ReceiveMessage(p) \/ TaskStep(p) \/ TaskFails(p)
        PROVE  HeldOnce'
    BY <1>6, <1>1 DEF ReceiveMessage, TaskStep, SkipDuplicate, Claim, Enqueue,
                      TaskFails, queueVars
  <1>7. ASSUME NEW m \in Messages, ExpireKey(m) PROVE HeldOnce'
    BY <1>7, <1>1 DEF ExpireKey, queueVars
  <1>8. ASSUME NEW w \in Workers, TurnStep(w) \/ TurnFails(w) PROVE HeldOnce'
    <2>1. CASE RejectDuplicate(w) \/ TextRaises(w) \/ TurnFails(w)
      BY <2>1, <1>3 DEF RejectDuplicate, TextRaises, TurnFails, queueVars
    <2>2. CASE Acknowledge(w)  BY <2>2, <1>3 DEF Acknowledge
    <2>3. CASE DescribeImage(w) \/ Transcribe(w) \/ NoChannel(w)
               \/ InsertFallback(w) \/ SendFallback(w) \/ CommitFallback(w)
      BY <2>3, <1>4 DEF DescribeImage, Transcribe, NoChannel,
                        InsertFallback, SendFallback, CommitFallback, queueVars
    <2>4. CASE CommitTurn(w) \/ SendReply(w) \/ SendFails(w)
      BY <2>4, <1>4 DEF CommitTurn, SendReply, SendFails, queueVars
    <2>5. QED  BY <1>8, <2>1, <2>2, <2>3, <2>4 DEF TurnStep
  <1>9. CASE UNCHANGED vars  BY <1>9, <1>1 DEF vars, queueVars
  <1>10. QED  BY <1>2, <1>5, <1>6, <1>7, <1>8, <1>9 DEF Next

\* Two workers never hold the same stream entry, and nobody holds an entry that
\* is no longer pending (XREADGROUP with ">", XACK).
THEOREM EntriesHeldOnce == Spec => []HeldOnce
  BY TypeInit, TypeStep, HeldInit, HeldStep, PTL DEF Spec

-----------------------------------------------------------------------------
(* The dedup key                                                           *)

\* As long as a key has not expired, whatever was claimed still shows it.
SeenIsKeyed ==
    \A m \in Messages \ expired :
       /\ (\E i \in DOMAIN stream : stream[i] = m) => m \in dedup
       /\ \A p \in Posts : task[p].pc = "enqueue" /\ Looking(p) = m => m \in dedup

WindowInv == SeenIsKeyed /\ OneEntryPerWindow

LEMMA WindowInit == Init => WindowInv
  BY DEF Init, WindowInv, SeenIsKeyed, OneEntryPerWindow, NoTask

LEMMA WindowStep == TypeOK /\ WindowInv /\ [Next]_vars => WindowInv'
  <1> SUFFICES ASSUME TypeOK, WindowInv, [Next]_vars PROVE WindowInv'  OBVIOUS
  <1> USE DEF WindowInv
  <1>1. ASSUME UNCHANGED <<ingressVars, stream>> PROVE WindowInv'
    BY <1>1 DEF SeenIsKeyed, OneEntryPerWindow, Looking, ingressVars
  \* A task that is not about to enqueue after the step adds nothing.
  <1>2. ASSUME NEW p \in Posts, task'[p].pc # "enqueue",
               \A q \in Posts \ {p} : task'[q] = task[q],
               UNCHANGED <<dedup, expired, stream>>
        PROVE  WindowInv'
    <2>1. \A q \in Posts \ {p} : Looking(q)' = Looking(q)  BY <1>2 DEF Looking
    <2>2. SeenIsKeyed'  BY <1>2, <2>1 DEF SeenIsKeyed
    <2>3. OneEntryPerWindow'  BY <1>2, <2>1 DEF OneEntryPerWindow
    <2>4. QED  BY <2>2, <2>3
  <1>3. ASSUME NEW p \in Posts, ReceiveMessage(p) \/ SkipDuplicate(p) \/ TaskFails(p)
        PROVE  WindowInv'
    <2>1. /\ task'[p].pc # "enqueue"
          /\ \A q \in Posts \ {p} : task'[q] = task[q]
          /\ UNCHANGED <<dedup, expired, stream>>
      BY <1>3 DEF ReceiveMessage, SkipDuplicate, TaskFails, Continue, TypeOK, queueVars
    <2>2. QED  BY <1>2, <2>1
  <1>4. ASSUME NEW p \in Posts, Claim(p) PROVE WindowInv'
    <2>1. /\ task[p].pc = "dedup" /\ Looking(p) \notin dedup
          /\ dedup' = dedup \cup {Looking(p)}
          /\ UNCHANGED <<expired, stream>>
      BY <1>4 DEF Claim, queueVars
    <2>2. /\ \A q \in Posts : Looking(q)' = Looking(q)
          /\ \A q \in Posts \ {p} : task'[q] = task[q]
      BY <1>4 DEF Claim, Looking, TypeOK
    <2>3. SeenIsKeyed'  BY <2>1, <2>2 DEF SeenIsKeyed
    <2>4. OneEntryPerWindow'
      BY <2>1, <2>2 DEF SeenIsKeyed, OneEntryPerWindow
    <2>5. QED  BY <2>3, <2>4
  <1>5. ASSUME NEW p \in Posts, Enqueue(p) PROVE WindowInv'
    <2>1. /\ task[p].pc = "enqueue" /\ UNCHANGED <<dedup, expired>>
          /\ stream' \in {stream, Append(stream, Looking(p))}
      BY <1>5 DEF Enqueue
    <2>2. /\ task'[p].pc # "enqueue"
          /\ \A q \in Posts \ {p} : task'[q] = task[q] /\ Looking(q)' = Looking(q)
      BY <1>5 DEF Enqueue, Continue, TypeOK, Looking
    <2>3. CASE stream' = stream  BY <1>2, <2>1, <2>2, <2>3
    <2>4. CASE stream' = Append(stream, Looking(p))
      <3>1. stream \in Seq(Messages) /\ Looking(p) \in Messages
        BY <2>1, LookingType DEF TypeOK
      <3>2. /\ DOMAIN stream' = DOMAIN stream \cup {Len(stream) + 1}
            /\ Len(stream) + 1 \notin DOMAIN stream
            /\ \A i \in DOMAIN stream : stream'[i] = stream[i]
            /\ stream'[Len(stream) + 1] = Looking(p)
        BY <2>4, <3>1
      <3>3. SeenIsKeyed'  BY <2>1, <2>2, <3>2 DEF SeenIsKeyed
      <3>4. Looking(p) \notin expired =>
               /\ \A i \in DOMAIN stream : stream[i] # Looking(p)
               /\ \A q \in Posts \ {p} :
                     task[q].pc = "enqueue" => Looking(q) # Looking(p)
        BY <2>1, <3>1 DEF OneEntryPerWindow
      <3>5. OneEntryPerWindow'
        BY <2>1, <2>2, <3>2, <3>4 DEF OneEntryPerWindow
      <3>6. QED  BY <3>3, <3>5
    <2>5. QED  BY <2>1, <2>3, <2>4
  <1>6. ASSUME NEW m \in Messages, ExpireKey(m) PROVE WindowInv'
    BY <1>6 DEF ExpireKey, SeenIsKeyed, OneEntryPerWindow, Looking, queueVars
  <1>7. ASSUME NEW w \in Workers, Fetch(w) \/ TurnStep(w) \/ TurnFails(w) \/ CrashWorker(w)
        PROVE  WindowInv'
    <2>1. UNCHANGED <<ingressVars, stream>>
      BY <1>7 DEF Fetch, TurnStep, TextRaises, DescribeImage, Transcribe, NoChannel,
                  InsertFallback, SendFallback, CommitFallback, RejectDuplicate,
                  CommitTurn, SendReply, SendFails, Acknowledge, TurnFails,
                  CrashWorker, queueVars
    <2>2. QED  BY <2>1, <1>1
  <1>8. CASE UNCHANGED vars  BY <1>8, <1>1 DEF vars, queueVars
  <1>9. QED  BY <1>3, <1>4, <1>5, <1>6, <1>7, <1>8 DEF Next, TaskStep

\* While the dedup key lives a message is enqueued once, for any number of POSTs
\* and any interleaving of their background tasks (SET NX EX before XADD).
THEOREM OneEntryWhileKeyed == Spec => []OneEntryPerWindow
  BY TypeInit, TypeStep, WindowInit, WindowStep, PTL DEF Spec, WindowInv

-----------------------------------------------------------------------------
(* Refinement of MessageLedger                                             *)

LEMMA LedgerInit == Init => Ledger!Init
  BY DEF Init, Ledger!Init

LEMMA LedgerStep ==
    TypeOK /\ DeliveryInv /\ [Next]_vars =>
       [Ledger!Next]_<<stored \ Voice, [m \in Messages \ Voice |-> replies[m]]>>
  <1> DEFINE Stutter == UNCHANGED <<stored \ Voice, [m \in Messages \ Voice |-> replies[m]]>>
  <1> SUFFICES ASSUME TypeOK, DeliveryInv, [Next]_vars PROVE Ledger!Next \/ Stutter
    OBVIOUS
  <1>t. /\ replies \in [Messages -> Nat]
        /\ \A w \in Workers : worker[w].pc # "idle" => Current(w) \in Messages
    BY CurrentType DEF TypeOK
  <1>1. ASSUME UNCHANGED outVars PROVE Stutter  BY <1>1 DEF outVars
  <1>2. ASSUME NEW w \in Workers, CommitTurn(w) \/ CommitFallback(w)
        PROVE  Ledger!Next \/ Stutter
    <2>1. /\ Current(w) \in Messages /\ Current(w) \notin stored
          /\ stored' = stored \cup {Current(w)} /\ replies' = replies
      BY <1>2, <1>t DEF CommitTurn, CommitFallback, DeliveryInv, OneOpenRow
    <2>2. CASE Current(w) \in Voice  BY <2>1, <2>2
    <2>3. CASE Current(w) \notin Voice
      <3>1. Ledger!Record(Current(w))  BY <2>1, <2>3 DEF Ledger!Record
      <3>2. QED  BY <2>1, <2>3, <3>1 DEF Ledger!Next
    <2>4. QED  BY <2>2, <2>3
  <1>3. ASSUME NEW w \in Workers, SendFallback(w) PROVE Stutter
    BY <1>3, <1>t DEF SendFallback, DeliveryInv, ToldAreVoice
  <1>5. ASSUME NEW w \in Workers, SendReply(w) PROVE Ledger!Next \/ Stutter
    <2>0. /\ worker[w].pc = "reply" /\ UNCHANGED stored
          /\ replies' = [replies EXCEPT ![Current(w)] = @ + 1]
      BY <1>5 DEF SendReply
    <2>1. Current(w) \in Messages  BY <2>0, <1>t
    <2>2. CASE Current(w) \in Voice  BY <2>0, <1>t, <2>2
    <2>3. CASE Current(w) \notin Voice
      <3>1. Current(w) \in stored /\ replies[Current(w)] = 0
        BY <2>0, <2>3 DEF DeliveryInv, PendingReply
      <3>2. replies' = [replies EXCEPT ![Current(w)] = 1]  BY <2>0, <3>1
      <3>3. [m \in Messages \ Voice |-> replies'[m]]
            = [[m \in Messages \ Voice |-> replies[m]] EXCEPT ![Current(w)] = 1]
        BY <1>t, <2>1, <2>3, <3>2
      <3>4. PICK c \in Messages \ Voice : c = Current(w)  BY <2>1, <2>3
      <3>5. [m \in Messages \ Voice |-> replies[m]][c] = 0  BY <3>1, <3>4
      <3>6. c \in stored \ Voice /\ (stored \ Voice)' = stored \ Voice
        BY <2>0, <3>1, <3>4
      <3>7. Ledger!Answer(c)
        BY <3>3, <3>4, <3>5, <3>6 DEF Ledger!Answer
      <3>8. QED  BY <3>7 DEF Ledger!Next
    <2>4. QED  BY <2>2, <2>3
  <1>7. ASSUME NEW p \in Posts, ReceiveMessage(p) \/ TaskStep(p) \/ TaskFails(p) PROVE Stutter
    BY <1>1, <1>7 DEF ReceiveMessage, TaskStep, SkipDuplicate, Claim, Enqueue, TaskFails
  <1>8. ASSUME NEW m \in Messages, ExpireKey(m) PROVE Stutter
    BY <1>1, <1>8 DEF ExpireKey
  <1>9. ASSUME NEW w \in Workers, Fetch(w) \/ TurnStep(w) \/ TurnFails(w) \/ CrashWorker(w)
        PROVE  Ledger!Next \/ Stutter
    <2>1. CASE DescribeImage(w) \/ Transcribe(w) \/ NoChannel(w)
               \/ InsertFallback(w) \/ RejectDuplicate(w) \/ TextRaises(w)
               \/ SendFails(w) \/ Acknowledge(w)
      BY <1>1, <2>1 DEF DescribeImage, Transcribe, NoChannel,
                        InsertFallback, RejectDuplicate, TextRaises, SendFails, Acknowledge
    <2>2. CASE Fetch(w) \/ TurnFails(w) \/ CrashWorker(w)
      BY <1>1, <2>2 DEF Fetch, TurnFails, CrashWorker
    <2>3. QED  BY <1>2, <1>3, <1>5, <1>9, <2>1, <2>2 DEF TurnStep
  <1>10. CASE UNCHANGED vars  BY <1>1, <1>10 DEF vars
  <1>11. QED  BY <1>7, <1>8, <1>9, <1>10 DEF Next

\* For texts and images, webhook, stream and workers together implement the
\* ledger: recorded once, answered once, and answered only when recorded.
THEOREM ImplementsLedger == Spec => LedgerSpec
  BY TypeInit, TypeStep, DeliveryInit, DeliveryStep, LedgerInit, LedgerStep, PTL
     DEF Spec, LedgerSpec, Ledger!Spec

-----------------------------------------------------------------------------
(* Abandoned entries                                                       *)

\* A step hands a worker nothing but what it held and what nobody has read, and
\* takes nothing off the pending list but what a worker held.
LEMMA StepHolds ==
    ASSUME TypeOK, [Next]_vars
    PROVE  /\ \A v \in Workers : \A e \in 1 .. delivered : e \in Held(v)' => e \in Held(v)
           /\ \A e \in pel \ pel' : \E v \in Workers : e \in Held(v)
  <1>1. ASSUME UNCHANGED <<pel, worker>>
        PROVE  /\ \A v \in Workers : Held(v)' = Held(v)
               /\ pel' = pel
    BY <1>1 DEF Held
  <1>2. ASSUME NEW w \in Workers, Fetch(w)
        PROVE  /\ \A v \in Workers : \A e \in 1 .. delivered : e \in Held(v)' => e \in Held(v)
               /\ pel \subseteq pel'
    <2> DEFINE last == Min2(delivered + BatchSize, Len(stream))
    <2>1. /\ pel' = pel \cup ((delivered + 1) .. last)
          /\ worker' = [worker EXCEPT ![w] = [pc |-> "next", cur |-> delivered + 1,
                                              upto |-> last]]
      BY <1>2 DEF Fetch
    <2>2. last \in Nat /\ delivered \in Nat
      BY InboundAssumption DEF Min2, TypeOK
    <2> HIDE DEF last
    <2>3. Held(w)' = (delivered + 1) .. last  BY <2>1 DEF Held, TypeOK
    <2>4. \A v \in Workers \ {w} : Held(v)' = Held(v)  BY <2>1 DEF Held, TypeOK
    <2>5. \A e \in 1 .. delivered : e \notin Held(w)'  BY <2>2, <2>3
    <2>6. QED  BY <2>1, <2>4, <2>5
  <1>3. ASSUME NEW w \in Workers, worker[w].pc # "idle", NextEntry(w),
               UNCHANGED stream, pel' \in {pel, pel \ {worker[w].cur}}
        PROVE  /\ \A v \in Workers : Held(v)' \subseteq Held(v)
               /\ \A e \in pel \ pel' : e \in Held(w)
    <2>1. \A v \in Workers : Held(v)' \subseteq Held(v)  BY <1>3, NextEntryKeeps
    <2>2. worker[w].cur \in Held(w)  BY <1>3 DEF TypeOK, Held
    <2>3. QED  BY <1>3, <2>1, <2>2
  <1>4. ASSUME NEW w \in Workers, NEW l, Goto(w, l), UNCHANGED <<stream, pel>>
        PROVE  \A v \in Workers : Held(v)' = Held(v)
    BY <1>4, GotoKeeps
  <1>5. ASSUME NEW w \in Workers, CrashWorker(w)
        PROVE  \A v \in Workers : Held(v)' \subseteq Held(v)
    <2>1. Held(w)' = {}  BY <1>5 DEF CrashWorker, Held, Idle, TypeOK
    <2>2. \A v \in Workers \ {w} : Held(v)' = Held(v)
      BY <1>5 DEF CrashWorker, Held, TypeOK
    <2>3. QED  BY <2>1, <2>2
  <1>6. CASE \E p \in Posts : ReceiveMessage(p) \/ TaskStep(p) \/ TaskFails(p)
    <2>1. UNCHANGED <<pel, worker>>
      BY <1>6 DEF ReceiveMessage, TaskStep, SkipDuplicate, Claim, Enqueue, TaskFails, queueVars
    <2>2. QED  BY <1>1, <2>1
  <1>7. CASE \E m \in Messages : ExpireKey(m)
    BY <1>1, <1>7 DEF ExpireKey, queueVars
  <1>8. CASE \E w \in Workers : Fetch(w)  BY <1>2, <1>8
  <1>9. CASE \E w \in Workers : CrashWorker(w)
    BY <1>5, <1>9 DEF CrashWorker, queueVars
  <1>10. CASE \E w \in Workers : RejectDuplicate(w) \/ TextRaises(w) \/ TurnFails(w) \/ Acknowledge(w)
    <2>1. PICK w \in Workers : /\ worker[w].pc # "idle" /\ NextEntry(w) /\ UNCHANGED stream
                               /\ pel' \in {pel, pel \ {worker[w].cur}}
      BY <1>10 DEF RejectDuplicate, TextRaises, TurnFails, Acknowledge, queueVars
    <2>2. QED  BY <1>3, <2>1
  <1>11. CASE \E w \in Workers :
                 \/ DescribeImage(w) \/ Transcribe(w) \/ NoChannel(w)
                 \/ InsertFallback(w) \/ SendFallback(w) \/ CommitFallback(w)
                 \/ CommitTurn(w) \/ SendReply(w) \/ SendFails(w)
    <2>1. PICK w \in Workers : (\E l : Goto(w, l)) /\ UNCHANGED <<stream, pel>>
      BY <1>11 DEF DescribeImage, Transcribe, NoChannel, InsertFallback,
                   SendFallback, CommitFallback, CommitTurn, SendReply,
                   SendFails, queueVars
    <2>2. QED  BY <1>4, <2>1
  <1>12. CASE UNCHANGED vars  BY <1>1, <1>12 DEF vars, queueVars
  <1>13. QED
    BY <1>6, <1>7, <1>8, <1>9, <1>10, <1>11, <1>12 DEF Next, TurnStep

\* An entry whose turn raised or whose worker died is never read again, whatever
\* happens afterwards (XREADGROUP ">", random consumer names, no XCLAIM): the retry
\* that FailedIsRetried asks for happens in no instance.
THEOREM AbandonedForEver == Spec => AbandonedStaysAbandoned
  <1>1. TypeOK /\ [Next]_vars => [\A e \in pel : Abandoned(e) => Abandoned(e)']_vars
    <2> SUFFICES ASSUME TypeOK, [Next]_vars, NEW e \in pel, Abandoned(e)
                 PROVE  Abandoned(e)'
      OBVIOUS
    <2>1. e \in 1 .. delivered  BY DEF TypeOK
    <2>2. \A v \in Workers : e \notin Held(v)'  BY <2>1, StepHolds DEF Abandoned
    <2>3. e \in pel'  BY StepHolds DEF Abandoned
    <2>4. QED  BY <2>2, <2>3 DEF Abandoned
  <1>2. QED  BY <1>1, TypeInit, TypeStep, PTL DEF Spec, AbandonedStaysAbandoned
=============================================================================
