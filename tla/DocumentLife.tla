----------------------------- MODULE DocumentLife -----------------------------
(***************************************************************************)
(* The life of a knowledge base document as the staff and the customers see *)
(* it: draft, review, approved, archived (Execution Pack 3.3), its          *)
(* revisions, and the revision that answers are drawn from. Rows as loaded, *)
(* chunks, points and runs of the indexer are left out. KnowledgeBase       *)
(* implements this as long as requests and runs do not overlap.             *)
(***************************************************************************)
EXTENDS Naturals

CONSTANT FirstStage    \* where a new document starts

VARIABLES
    stage,         \* draft, review, approved or archived
    text,          \* its revision, counted from 0
    version,       \* edits of the staff, counted from 1
    served         \* the revision customers are answered from, none or one

life == <<stage, text, version, served>>

\* An edit by the staff takes the approval away.
Edit(s) ==
    /\ stage # "archived"
    /\ stage' = s
    /\ text' = text + 1 /\ version' = version + 1
    /\ UNCHANGED served

\* The shop's own content needs no approval and is no version of the staff's.
Deliver ==
    /\ stage # "archived"
    /\ text' = text + 1
    /\ UNCHANGED <<stage, version, served>>

Review ==
    /\ stage # "archived"
    /\ stage' = "review"
    /\ UNCHANGED <<text, version, served>>

Approve ==
    /\ stage \in {"draft", "review"}
    /\ stage' = "approved"
    /\ UNCHANGED <<text, version, served>>

Archive ==
    /\ stage # "archived"
    /\ stage' = "archived"
    /\ served' = {}
    /\ UNCHANGED <<text, version>>

\* One revision replaces another, and never a later one. It need not be the last
\* one, or approved, and the document may be archived.
Publish(t) ==
    /\ \A s \in served : s <= t
    /\ served' = {t}
    /\ UNCHANGED <<stage, text, version>>

Init == stage = FirstStage /\ text = 0 /\ version = 1 /\ served = {}

Next ==
    \/ \E s \in {"draft", "review"} : Edit(s)
    \/ Deliver \/ Review \/ Approve \/ Archive
    \/ \E t \in 0 .. text : Publish(t)

Spec == Init /\ [][Next]_life
===============================================================================
