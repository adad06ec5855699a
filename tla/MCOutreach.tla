----------------------------- MODULE MCOutreach -----------------------------
(* Two overlapping requests; histories of whether two of a kind ever overlapped. *)
EXTENDS Outreach

VARIABLES
    overlapped   \* kinds of request of which two have been in flight at once

CONSTANTS vip, troubled

MCProfile == [c \in {vip, troubled} |->
    IF c = vip THEN [tier |-> "vip", revenue |-> 300, escalations |-> 0]
    ELSE [tier |-> "at_risk", revenue |-> 700, escalations |-> 3]]

InFlight(kind) == {r \in Calls : call'[r].pc = kind}

MCInit == Init /\ overlapped = {}
MCNext ==
    /\ Next
    /\ overlapped' = overlapped \cup
          {kind \in {"winback", "process"} : Cardinality(InFlight(kind)) > 1}
MCSpec == MCInit /\ [][MCNext]_<<vars, overlapped>>

\* While no two win-back requests overlap, a customer never has two follow-ups
\* pending (schedule_winback_for_at_risk: "Don't double-schedule").
QueuedOnce ==
    "winback" \in overlapped \/ \A c \in Customers : Cardinality(PendingOf(c)) <= 1

\* Rows that are sent and that no answer has listed: their request is about to, or
\* ended between its commit and its answer.
Unreported(i) ==
    \/ i \in unlisted
    \/ \E r \in Calls : call[r].pc = "answering" /\ i \in call[r].rows

\* While no two process requests overlap before their commits, a row that became
\* sent is listed by one answer exactly, never twice, unless the request that marked
\* it was lost between its commit and its answer (process_due_followups,
\* process_followups).
SentIsReportedOnce ==
    \/ "process" \in overlapped
    \/ \A i \in DOMAIN queue :
          reports[i] = IF queue[i].status = "sent" /\ ~Unreported(i) THEN 1 ELSE 0

\* A customer is followed up once: queued once, and told to a caller once at most.
FollowedUpOnce == QueuedOnce /\ SentIsReportedOnce
=============================================================================
