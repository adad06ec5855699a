---------------------------- MODULE MCCodShield ----------------------------
(* One order. Twilio either reports each end of a call at most once, to one   *)
(* request at a time, after two webhooks, with two workers and every fault;   *)
(* or as often as it likes and in parallel, after one webhook, with one       *)
(* worker and a Redis that takes every push.                                  *)
EXTENDS CodShield, FiniteSets, TLC

CONSTANTS
    w1, w2, h1, h2,
    RepeatedCalls    \* bound: calls when callbacks repeat

ASSUME MCCodShieldAssumption == w1 \in Workers /\ RepeatedCalls \in Nat

VARIABLE repeated    \* callbacks repeat

mcVars == <<vars, repeated>>

ReportedOnce ==
    /\ Next
    /\ \A c \in Calls : pending'[c] <= 1
    /\ \A h, g \in Handlers : handler'[h].pc # "idle" /\ handler'[g].pc # "idle" => h = g

\* What follows is one step of the second kind, by its author.
Repeats(step) == repeated /\ step /\ UNCHANGED repeated

Worker == WorkerStep(w1) /\ taken' <= RepeatedCalls

Handling(h) ==
    \/ Retry(h) \/ FallBack(h) \/ CommitFailed(h)
    \/ SaveTheSale(h) /\ sent' # sent
    \/ CommitDigit(h) \/ HandlerFails(h)

Calling(c) == \/ \E h \in Handlers : Callback(h, c)
              \/ Answer(c) \/ EndCall(c)

Reported(c) == \E h \in Handlers : LoadFailed(h, c) \/ IgnoreStatus(h, c)

MCInit == Init /\ repeated \in BOOLEAN

MCNext ==
    \/ ~repeated /\ ReportedOnce /\ UNCHANGED repeated
    \/ \E known \in Sources : Repeats(Trigger(known) /\ triggers = 0)
    \/ Repeats(Worker)
    \/ \E h \in Handlers : Repeats(Handling(h))
    \/ \E c \in Calls : Repeats(Calling(c))

\* Workers loop, handlers run to their end, and Twilio ends calls and delivers.
MCSpec ==
    /\ MCInit /\ [][MCNext]_mcVars
    /\ WF_mcVars(Repeats(Worker))
    /\ \A h \in Handlers : WF_mcVars(Repeats(Handling(h)))
    /\ \A c \in Calls : /\ WF_mcVars(Repeats(EndCall(c) /\ phone[c] = "ringing"))
                        /\ WF_mcVars(Repeats(Reported(c)))

\* As long as Twilio reports the end of a call once: a customer is called at most
\* once per attempt and webhook, and the WhatsApp fallback is queued only after
\* each of the max_attempts calls was made, however workers and handlers fail.
OncePerAttempt == ~repeated => CallsWithinTriggers /\ FallbackAfterAllCalls

\* The WhatsApp fallbacks pushed so far, each with its number within its call.
Fallbacks == UNION {{c} \X (1 .. sent[c].fallback) : c \in Calls}

Chain == INSTANCE CallChain
         WITH LastAttempt <- MaxAttempts, webhooks <- triggers, calls <- made,
              messages <- Cardinality(Fallbacks)

\* ... and more: no two calls follow up the same webhook or the same call of the
\* attempt before, no two fallbacks the same last call. Tasks, records and
\* callbacks then implement CallChain.
CallsInChain ==
    /\ ~repeated => Chain!Init
    /\ [][~repeated => [Chain!Next]_(Chain!chain)]_mcVars

\* A call stored as not answered has its retry or its fallback queued, a cancelled
\* order its save-the-sale message, if Redis takes every push.
NextStepIsQueued == repeated => FailedIsFollowed /\ CancelledIsSaved

\* Retries end, however often callbacks are repeated: from some point on no task
\* is queued or in work.
ChainsEndRepeated == <>[](~repeated \/ (queue = <<>> /\ worker[w1].pc = "idle"))
=============================================================================
