--------------------------- MODULE InboundDelivery ---------------------------
(***************************************************************************)
(* How one customer message travels from Meta's webhook to a stored turn   *)
(* and a reply:                                                            *)
(*                                                                         *)
(*   POST /webhooks/whatsapp  -> 200, then a background task               *)
(*     SET dedup:wa:<id> NX EX 300      (radd/webhooks/router.py)          *)
(*     XADD messages:<workspace>                                           *)
(*   message_worker: XREADGROUP ">" COUNT 10 -> process_message -> XACK    *)
(*     one database transaction stores the turn, the reply is sent after   *)
(*     the commit                       (workers/message_worker.py)        *)
(*                                                                         *)
(* Of the turns only those of images and the fallbacks of voice notes get  *)
(* as far as their commit: see TextRaises.                                 *)
(*                                                                         *)
(* One workspace, hence one stream and one consumer group, is modelled.    *)
(* What a turn writes besides its inbound row is in module Conversations.  *)
(***************************************************************************)
EXTENDS Naturals, Sequences, FiniteSets

CONSTANTS
    Messages,      \* Meta message ids (external_id)
    Voice,         \* those that are voice notes with a media id
    Image,         \* those that are images with a media id
    Foreign,       \* Instagram DMs: same stream, always without a media id
    Unroutable,    \* unsupported type, empty body, or unknown phone number id
    Payloads,      \* webhook bodies Meta may POST: sequences of messages
    Posts,         \* POST requests, each with its own background task
    Workers,       \* message_worker processes
    BatchSize,     \* count of XREADGROUP (10 in the code)
    ChannelRow,    \* whether the workspace may have a whatsapp channel row
    Faults         \* which of "task", "crash", "turn", "send" may happen

ASSUME InboundAssumption ==
    /\ Voice \subseteq Messages /\ Image \subseteq Messages
    /\ Voice \cap Image = {}
    /\ Foreign \subseteq Messages \ (Voice \cup Image)
    /\ Unroutable \subseteq Messages
    /\ Payloads \subseteq Seq(Messages) /\ <<>> \notin Payloads
    /\ BatchSize \in Nat \ {0}
    /\ ChannelRow \subseteq BOOLEAN
    /\ Faults \subseteq {"task", "crash", "turn", "send"}

VARIABLES
    task,          \* [Posts -> background task of _process_webhook_payload]
    dedup,         \* messages whose dedup key is live in Redis
    expired,       \* messages whose dedup key has expired at least once
    stream,        \* the Redis stream messages:<workspace>
    delivered,     \* last-delivered-id of the consumer group
    pel,           \* pending entries list: delivered, not acknowledged
    worker,        \* [Workers -> local state of run_worker]
    stored,        \* messages with a committed inbound row
    replies,       \* [Messages -> number of replies the customer received]
    channel        \* the workspace has a whatsapp channel row

ingressVars == <<task, dedup, expired>>
queueVars   == <<stream, delivered, pel>>
outVars     == <<stored, replies, channel>>
vars        == <<ingressVars, queueVars, worker, outVars>>

-----------------------------------------------------------------------------
(* Ingress: the API process.                                               *)

NoTask == [pc |-> "unused", body |-> <<>>, at |-> 1]

Carries(p, m) == \E i \in DOMAIN task[p].body : task[p].body[i] = m

\* The message the task of p is looking at.
Looking(p) == task[p].body[task[p].at]

\* Variant: the loop stops one message early.
ContinueEarly(p) ==
    task' = [task EXCEPT ![p] =
                [pc   |-> IF @.at + 1 >= Len(@.body) THEN "done" ELSE "dedup",
                 body |-> @.body,
                 at   |-> @.at + 1]]

\* Advance the loop over value["messages"]; the task ends after the last one.
Continue(p) ==
    task' = [task EXCEPT ![p] =
                [pc   |-> IF @.at = Len(@.body) THEN "done" ELSE "dedup",
                 body |-> @.body,
                 at   |-> @.at + 1]]

\* receive_message: the signature is valid, 200 is returned and the payload is
\* left to a background task. Meta may POST the same message again at any time.
ReceiveMessage(p) ==
    /\ task[p].pc = "unused"
    /\ \E body \in Payloads :
          task' = [task EXCEPT ![p] = [pc |-> "dedup", body |-> body, at |-> 1]]
    /\ UNCHANGED <<dedup, expired, queueVars, worker, outVars>>

\* SET dedup:wa:<id> NX EX 300 found the key: the message is skipped.
SkipDuplicate(p) ==
    /\ task[p].pc = "dedup"
    /\ Looking(p) \in dedup
    /\ Continue(p)
    /\ UNCHANGED <<dedup, expired, queueVars, worker, outVars>>

\* Variant: SET without NX.
ClaimBlindly(p) ==
    /\ task[p].pc = "dedup"
    /\ dedup' = dedup \cup {Looking(p)}
    /\ task' = [task EXCEPT ![p].pc = "enqueue"]
    /\ UNCHANGED <<expired, queueVars, worker, outVars>>

\* ... or created it: from here on the message counts as seen.
Claim(p) ==
    /\ task[p].pc = "dedup"
    /\ Looking(p) \notin dedup
    /\ dedup' = dedup \cup {Looking(p)}
    /\ task' = [task EXCEPT ![p].pc = "enqueue"]
    /\ UNCHANGED <<expired, queueVars, worker, outVars>>

\* An Instagram message finds its workspace through an active instagram channel ...
PageKnown(m) == m \in Foreign

\* ... a WhatsApp message through the whatsapp one (_resolve_workspace); types the
\* loop skips and unknown numbers find none.
Routable(m) == m \notin Unroutable /\ (channel \/ PageKnown(m))

\* _resolve_workspace, then XADD; a message nobody can route is dropped.
Enqueue(p) ==
    /\ task[p].pc = "enqueue"
    /\ stream' = IF Routable(Looking(p)) THEN Append(stream, Looking(p)) ELSE stream
    /\ Continue(p)
    /\ UNCHANGED <<dedup, expired, delivered, pel, worker, outVars>>

\* Redis or the database raises inside the background task, or the API process
\* dies: the response was already sent, nobody resumes the loop.
TaskFails(p) ==
    /\ "task" \in Faults
    /\ task[p].pc \in {"dedup", "enqueue"}
    /\ task' = [task EXCEPT ![p].pc = "done"]
    /\ UNCHANGED <<dedup, expired, queueVars, worker, outVars>>

\* Redis drops the key DEDUP_TTL_SECONDS after the claim.
ExpireKey(m) ==
    /\ m \in dedup
    /\ dedup' = dedup \ {m}
    /\ expired' = expired \cup {m}
    /\ UNCHANGED <<task, queueVars, worker, outVars>>

-----------------------------------------------------------------------------
(* The worker. A batch is a run of consecutive stream entries cur..upto.   *)

Idle == [pc |-> "idle", cur |-> 1, upto |-> 0]

\* The message of the entry worker w is processing.
Current(w) == stream[worker[w].cur]

\* Entries a worker still holds in memory.
Held(w) == worker[w].cur .. worker[w].upto

Min2(a, b) == IF a <= b THEN a ELSE b

\* Leave the current entry and go on with the batch, or read again.
NextEntry(w) ==
    worker' = [worker EXCEPT ![w] =
                  IF @.cur = @.upto THEN Idle
                  ELSE [pc |-> "next", cur |-> @.cur + 1, upto |-> @.upto]]

Goto(w, label) == worker' = [worker EXCEPT ![w].pc = label]

\* Variant: the group's position is not advanced.
FetchAgain(w) ==
    /\ worker[w].pc = "idle"
    /\ delivered < Len(stream)
    /\ LET last == Min2(delivered + BatchSize, Len(stream))
       IN  /\ worker' = [worker EXCEPT ![w] =
                            [pc |-> "next", cur |-> delivered + 1, upto |-> last]]
           /\ pel' = pel \cup ((delivered + 1) .. last)
           /\ UNCHANGED delivered
    /\ UNCHANGED <<stream, ingressVars, outVars>>

\* XREADGROUP with id ">": only entries never delivered to the group.
Fetch(w) ==
    /\ worker[w].pc = "idle"
    /\ delivered < Len(stream)
    /\ LET last == Min2(delivered + BatchSize, Len(stream))
       IN  /\ worker' = [worker EXCEPT ![w] =
                            [pc |-> "next", cur |-> delivered + 1, upto |-> last]]
           /\ pel' = pel \cup ((delivered + 1) .. last)
           /\ delivered' = last
    /\ UNCHANGED <<stream, ingressVars, outVars>>

\* Another transaction holds an uncommitted inbound row for m: the partial
\* unique index on messages.external_id makes a second INSERT wait for it.
Inserting(m) ==
    \E v \in Workers : /\ worker[v].pc \in {"turn", "fallback", "told"}
                       /\ Current(v) = m

\* process_message on a text or a transcript, up to the flush of the inbound row.
\* The row's metadata hold the DialectResult of detect_dialect, a dataclass, and
\* the column is JSON: the flush raises TypeError before any SQL is sent. What it
\* had flushed before, a new customer or conversation, is rolled back, and the
\* entry is not acknowledged. The rest of process_message is not reached.
TextRaises(w) ==
    /\ channel
    /\ \/ worker[w].pc = "text"
       \/ worker[w].pc = "next" /\ Current(w) \notin Voice \cup Image
    /\ NextEntry(w)
    /\ UNCHANGED <<ingressVars, queueVars, outVars>>

\* process_image_message: the image is analysed, then the rows are flushed.
DescribeImage(w) ==
    /\ channel
    /\ worker[w].pc = "next"
    /\ Current(w) \in Image
    /\ Current(w) \notin stored
    /\ ~Inserting(Current(w))
    /\ Goto(w, "turn")
    /\ UNCHANGED <<ingressVars, queueVars, outVars>>

\* process_voice_message: Whisper returned a transcript (or transcription is
\* switched off), which is processed like a text.
Transcribe(w) ==
    /\ worker[w].pc = "next"
    /\ Current(w) \in Voice
    /\ Goto(w, "text")
    /\ UNCHANGED <<ingressVars, queueVars, outVars>>

\* ... or failed: both rows of the fallback turn are flushed, not committed.
InsertFallback(w) ==
    /\ channel
    /\ worker[w].pc = "next"
    /\ Current(w) \in Voice
    /\ Current(w) \notin stored
    /\ ~Inserting(Current(w))
    /\ Goto(w, "fallback")
    /\ UNCHANGED <<ingressVars, queueVars, outVars>>

\* The fallback text is sent while the transaction is still open.
SendFallback(w) ==
    /\ worker[w].pc = "fallback"
    /\ replies' = [replies EXCEPT ![Current(w)] = @ + 1]
    /\ Goto(w, "told")
    /\ UNCHANGED <<ingressVars, queueVars, stored, channel>>

\* The early return leaves the session, which commits.
CommitFallback(w) ==
    /\ worker[w].pc = "told"
    /\ stored' = stored \cup {Current(w)}
    /\ Goto(w, "ack")
    /\ UNCHANGED <<ingressVars, queueVars, replies, channel>>

\* Variant: the rejected message is tried again at once.
RetryDuplicate(w) ==
    /\ channel
    /\ worker[w].pc = "next"
    /\ Current(w) \in stored
    /\ Goto(w, "next")
    /\ UNCHANGED <<ingressVars, queueVars, outVars>>

\* The unique index rejects a message that is already stored: the exception
\* ends the turn and the entry is not acknowledged.
RejectDuplicate(w) ==
    /\ channel
    /\ worker[w].pc = "next"
    /\ Current(w) \in stored
    /\ NextEntry(w)
    /\ UNCHANGED <<ingressVars, queueVars, outVars>>

\* No whatsapp channel row (Instagram only): process_message returns and the entry is
\* acknowledged although nothing was stored.
NoChannel(w) ==
    /\ ~channel
    /\ worker[w].pc \in {"next", "text"}
    /\ Goto(w, "ack")
    /\ UNCHANGED <<ingressVars, queueVars, outVars>>

\* Variant: the reply is prepared before the commit.
ReplyBeforeCommit(w) ==
    /\ worker[w].pc = "turn"
    /\ Goto(w, "reply")
    /\ UNCHANGED <<ingressVars, queueVars, outVars>>

\* The transaction of get_db_session commits the two rows of the image's turn.
CommitTurn(w) ==
    /\ worker[w].pc = "turn"
    /\ stored' = stored \cup {Current(w)}
    /\ Goto(w, "reply")
    /\ UNCHANGED <<ingressVars, queueVars, replies, channel>>

\* What the analysis found is sent after the commit.
SendReply(w) ==
    /\ worker[w].pc = "reply"
    /\ replies' = [replies EXCEPT ![Current(w)] = @ + 1]
    /\ Goto(w, "ack")
    /\ UNCHANGED <<ingressVars, queueVars, stored, channel>>

\* A failed (or, in shadow mode, suppressed) send is logged and forgotten.
SendFails(w) ==
    /\ "send" \in Faults
    /\ \/ worker[w].pc = "reply" /\ Goto(w, "ack")
       \/ worker[w].pc = "fallback" /\ Goto(w, "told")
    /\ UNCHANGED <<ingressVars, queueVars, outVars>>

\* XACK.
Acknowledge(w) ==
    /\ worker[w].pc = "ack"
    /\ pel' = pel \ {worker[w].cur}
    /\ NextEntry(w)
    /\ UNCHANGED <<stream, delivered, ingressVars, outVars>>

\* Variant: XACK in a finally block.
FailAndAcknowledge(w) ==
    /\ "turn" \in Faults
    /\ worker[w].pc # "idle"
    /\ pel' = pel \ {worker[w].cur}
    /\ NextEntry(w)
    /\ UNCHANGED <<stream, delivered, ingressVars, outVars>>

\* An exception anywhere in process_message or XACK: an open transaction rolls
\* back, the loop logs it and takes the next entry of the batch.
TurnFails(w) ==
    /\ "turn" \in Faults
    /\ worker[w].pc # "idle"
    /\ NextEntry(w)
    /\ UNCHANGED <<ingressVars, queueVars, outVars>>

\* The process dies (or is cancelled): its batch and its transaction are lost.
\* It restarts under a new random consumer name, so nothing claims its entries.
CrashWorker(w) ==
    /\ "crash" \in Faults
    /\ worker[w].pc # "idle"
    /\ worker' = [worker EXCEPT ![w] = Idle]
    /\ UNCHANGED <<ingressVars, queueVars, outVars>>

-----------------------------------------------------------------------------
Init ==
    /\ task = [p \in Posts |-> NoTask]
    /\ dedup = {} /\ expired = {}
    /\ stream = <<>> /\ delivered = 0 /\ pel = {}
    /\ worker = [w \in Workers |-> Idle]
    /\ stored = {}
    /\ replies = [m \in Messages |-> 0]
    /\ channel \in ChannelRow

TaskStep(p) == SkipDuplicate(p) \/ Claim(p) \/ Enqueue(p)

TurnStep(w) ==
    \/ TextRaises(w) \/ DescribeImage(w) \/ Transcribe(w) \/ NoChannel(w)
    \/ InsertFallback(w) \/ SendFallback(w) \/ CommitFallback(w)
    \/ RejectDuplicate(w) \/ CommitTurn(w)
    \/ SendReply(w) \/ SendFails(w) \/ Acknowledge(w)

Next ==
    \/ \E p \in Posts : ReceiveMessage(p) \/ TaskStep(p) \/ TaskFails(p)
    \/ \E m \in Messages : ExpireKey(m)
    \/ \E w \in Workers : Fetch(w) \/ TurnStep(w) \/ TurnFails(w) \/ CrashWorker(w)

Spec == Init /\ [][Next]_vars

\* A running background task and a running worker keep going; Meta, key expiry
\* and failures are not obliged to happen.
Fairness ==
    /\ \A p \in Posts : WF_vars(TaskStep(p))
    /\ \A w \in Workers : WF_vars(Fetch(w)) /\ WF_vars(TurnStep(w))

FairSpec == Spec /\ Fairness

-----------------------------------------------------------------------------
(* Properties                                                              *)

TypeOK ==
    /\ task \in [Posts -> [pc : {"unused", "dedup", "enqueue", "done"},
                           body : Payloads \cup {<<>>},
                           at : Nat \ {0}]]
    /\ \A p \in Posts : task[p].pc \in {"dedup", "enqueue"} =>
                           task[p].at \in 1 .. Len(task[p].body)
    /\ dedup \subseteq Messages /\ expired \subseteq Messages
    /\ stream \in Seq(Messages)
    /\ delivered \in 0 .. Len(stream)
    /\ pel \subseteq 1 .. delivered
    /\ worker \in [Workers -> [pc : {"idle", "next", "text", "turn", "reply",
                                     "fallback", "told", "ack"},
                               cur : Nat \ {0}, upto : Nat]]
    /\ \A w \in Workers :
          /\ worker[w].upto <= delivered
          /\ worker[w].pc # "idle" <=> worker[w].cur <= worker[w].upto
    /\ stored \subseteq Messages
    /\ replies \in [Messages -> Nat] /\ channel \in BOOLEAN

\* A customer is answered at most once, whatever Meta repeats, however keys
\* expire, workers overlap, fail or die. (The voice fallback is sent before its
\* commit and can be repeated, so voice notes are exempt.)
AtMostOneReply == \A m \in Messages \ Voice : replies[m] <= 1

\* What the customer was told is in the database, except for the fallback.
ReplyIsStored == \A m \in Messages \ Voice : replies[m] > 0 => m \in stored

\* XACK is never early: an entry handed out and no longer pending belongs to a
\* message whose turn was committed.
AckedIsStored ==
    channel => \A e \in (1 .. delivered) \ pel : stream[e] \in stored

\* The consumer group never lets two workers hold the same entry, and what a
\* worker holds is still pending.
HeldOnce ==
    \A w \in Workers :
       /\ Held(w) \subseteq pel
       /\ \A v \in Workers \ {w} : Held(w) \cap Held(v) = {}

\* While its key has not expired, a message is enqueued once, however many
\* POSTs carry it and however they interleave.
OneEntryPerWindow ==
    \A m \in Messages \ expired :
       /\ \A i, j \in DOMAIN stream : stream[i] = m /\ stream[j] = m => i = j
       /\ \A p, q \in Posts :
             /\ task[p].pc = "enqueue" /\ Looking(p) = m
             /\ task[q].pc = "enqueue" /\ Looking(q) = m
             => p = q
       /\ \A p \in Posts : task[p].pc = "enqueue" /\ Looking(p) = m =>
             \A i \in DOMAIN stream : stream[i] # m

\* Every reply is paid for by a stream entry handed to a worker: not even a
\* voice note, whose fallback goes out before its commit, is answered more often
\* than it was enqueued.
RepliesWithinEntries ==
    \A m \in Messages :
       replies[m] <= Cardinality({e \in 1 .. delivered : stream[e] = m})

\* A committed turn is never lost again, and its message is never stored by a
\* second transaction: at any time at most one open transaction, and none for a
\* stored message, holds an inbound row of m.
OneOpenRow ==
    \A w \in Workers : worker[w].pc \in {"turn", "fallback", "told"} =>
       /\ Current(w) \notin stored
       /\ \A v \in Workers \ {w} :
             worker[v].pc \in {"turn", "fallback", "told"} => Current(v) # Current(w)

\* An entry whose worker gave it up without an acknowledgement.
Abandoned(e) == e \in pel /\ \A w \in Workers : e \notin Held(w)

\* Without faults every image that reached the API is stored, also behind a text
\* whose turn raises, and however often it is posted. (Of texts and transcripts
\* this cannot be said: TextRaises.)
PostedIsStored ==
    \A m \in Image \ Unroutable :
       (channel /\ \E p \in Posts : task[p].pc # "unused" /\ Carries(p, m)) ~> (m \in stored)

\* Workers that wait for each other's uncommitted rows do not block each other
\* for good: every batch comes to an end.
BatchesEnd == \A w \in Workers : (worker[w].pc # "idle") ~> (worker[w].pc = "idle")

\* Documented: "200: Message accepted and queued". Once the background task of
\* a POST is over, the routable messages it carried are in the stream or on
\* their way into it.
AcceptedIsQueued ==
    \A p \in Posts : task[p].pc = "done" =>
       \A m \in Messages : Routable(m) /\ Carries(p, m) =>
          \/ \E i \in DOMAIN stream : stream[i] = m
          \/ \E q \in Posts : task[q].pc = "enqueue" /\ Looking(q) = m

\* Documented: if processing fails the message stays in the stream to be tried
\* again. An abandoned entry is eventually held by a worker again.
FailedIsRetried ==
    \A e \in 1 .. 2 : Abandoned(e) ~> ~Abandoned(e)

\* Why that is not so: no later step hands an abandoned entry to a worker again.
\* (Redis offers XCLAIM, XAUTOCLAIM and id "0"; the worker uses none of them.)
AbandonedStaysAbandoned ==
    [][\A e \in pel : Abandoned(e) => Abandoned(e)']_vars

\* For texts and images all of this implements the ledger: the database row is
\* the record, the messages WhatsApp took are the answer.
Ledger == INSTANCE MessageLedger
          WITH Messages <- Messages \ Voice,
               recorded <- stored \ Voice,
               answers  <- [m \in Messages \ Voice |-> replies[m]]

LedgerSpec == Ledger!Spec
=============================================================================
