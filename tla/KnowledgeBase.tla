---------------------------- MODULE KnowledgeBase ----------------------------
(***************************************************************************)
(* One document of a merchant's knowledge base: its row, edited, approved   *)
(* and deleted by requests of the staff and by store syncs, and its chunks  *)
(* in PostgreSQL and points in Qdrant, written by runs of the indexer.      *)
(*                                                                          *)
(* Every request is one transaction: it loads the row, then writes the      *)
(* columns whose value it changed (the unit of work of SQLAlchemy), under   *)
(* READ COMMITTED.  Contents are numbered in the order they were submitted. *)
(*                                                                          *)
(* Approving imports the indexer by a name that does not exist, after the   *)
(* commit; the indexer therefore runs only by hand, from its command line,  *)
(* at any time and for any document.                                        *)
(***************************************************************************)
EXTENDS Naturals

CONSTANTS
    Requests,      \* concurrent requests, each of its own user
    Indexers,      \* concurrent runs of kb_indexer
    None,          \* approved_by_user_id NULL
    Patches,       \* statuses the staff set by PATCH
    Synced,        \* TRUE: a document a store sync created and keeps up to date
    Blank,         \* contents without any chunk
    Faults,        \* Qdrant and the embedding service fail, indexers die
    MaxEdits,      \* bound: contents submitted after the first
    MaxRuns        \* bound: runs of the indexer

Statuses == {"draft", "review", "approved", "archived"}

ASSUME KnowledgeBaseAssumption ==
    /\ None \notin Requests /\ Patches \subseteq Statuses
    /\ Synced \in BOOLEAN /\ Faults \in BOOLEAN
    /\ MaxEdits \in Nat /\ MaxRuns \in Nat

VARIABLES
    doc,           \* the row of kb_documents
    chunks,        \* [Runs -> the chunks this run stored]
    points,        \* runs whose points are in Qdrant
    request,       \* [Requests -> row as loaded, row as to be written]
    indexer,       \* [Indexers -> locals of index_document]
    edits,         \* contents submitted so far
    runs,          \* runs of the indexer so far
    vetted         \* contents an admin saw when approving, or a sync delivered

vars == <<doc, chunks, points, request, indexer, edits, runs, vetted>>

Runs     == 1 .. MaxRuns
Contents == 0 .. MaxEdits

NoChunks == [state |-> "none", content |-> 0]
Active   == {n \in Runs : chunks[n].state = "active"}
Stored   == {n \in Runs : chunks[n].state # "none"}

\* create_document of the router, or of KBService for a sync.
NewDocument == [content |-> 0, version |-> 1,
                status |-> IF Synced THEN "approved" ELSE "draft",
                approver |-> None, deleted |-> FALSE]

NoRequest == [op |-> "none", seen |-> NewDocument, row |-> NewDocument]

-----------------------------------------------------------------------------
(* Requests                                                                *)

\* Variant: deleted documents are found as well.
FoundAnyway == doc = doc

\* get_document, find_by_salla_id, find_by_title.
Found == ~doc.deleted

Read(r, op, row) ==
    /\ request[r].op = "none" /\ Found
    /\ request' = [request EXCEPT ![r] = [op |-> op, seen |-> doc, row |-> row]]
    /\ UNCHANGED <<doc, chunks, points, indexer, runs, vetted>>

\* Variant: the document stays approved.
ReadForUpdateApproved(r, status) ==
    /\ edits < MaxEdits /\ edits' = edits + 1
    /\ Read(r, "update", [doc EXCEPT !.content = edits + 1, !.approver = None,
                                     !.version = @ + 1])

\* PATCH with a content: back to draft, unless the body names a status.
ReadForUpdate(r, status) ==
    /\ edits < MaxEdits /\ edits' = edits + 1
    /\ Read(r, "update", [doc EXCEPT !.content = edits + 1, !.status = status,
                                     !.approver = None, !.version = @ + 1])

\* PATCH with a status only.
ReadForPatch(r, status) ==
    Read(r, "patch", [doc EXCEPT !.status = status]) /\ UNCHANGED edits

\* POST approve: 400 unless draft or review.
ReadForApprove(r) ==
    /\ doc.status \in {"draft", "review"}
    /\ Read(r, "approve", [doc EXCEPT !.status = "approved", !.approver = r])
    /\ UNCHANGED edits

\* DELETE: soft delete.
ReadForDelete(r) ==
    /\ Read(r, "delete", [doc EXCEPT !.deleted = TRUE, !.status = "archived"])
    /\ UNCHANGED edits

\* A store sync updates the content only.
ReadForSync(r) ==
    /\ Synced /\ edits < MaxEdits /\ edits' = edits + 1
    /\ Read(r, "sync", [doc EXCEPT !.content = edits + 1])

\* Columns that differ from the loaded row are written.
Written(seen, row) ==
    [column \in DOMAIN doc |-> IF row[column] # seen[column] THEN row[column] ELSE doc[column]]

Deactivated(these) ==
    [n \in Runs |-> IF n \in these THEN [chunks[n] EXCEPT !.state = "inactive"] ELSE chunks[n]]

Commit(r) ==
    LET q == request[r] IN
    /\ q.op # "none"
    /\ doc' = Written(q.seen, q.row)
    /\ chunks' = IF q.op = "delete" THEN Deactivated(Active) ELSE chunks
    /\ vetted' = vetted \cup CASE q.op = "approve" -> {q.seen.content}
                               [] q.op = "sync" -> {q.row.content}
                               [] OTHER -> {}
    /\ request' = [request EXCEPT ![r] = NoRequest]
    /\ UNCHANGED <<points, indexer, edits, runs>>

-----------------------------------------------------------------------------
(* The indexer                                                             *)

Idle == [pc |-> "idle", run |-> 0, content |-> 0, old |-> {}]

\* Load the content; neither the status nor deleted_at is looked at.
StartIndexing(i) ==
    /\ indexer[i].pc = "idle" /\ runs < MaxRuns
    /\ runs' = runs + 1
    /\ indexer' = [indexer EXCEPT ![i] = [pc |-> "loaded", run |-> runs + 1,
                                          content |-> doc.content, old |-> {}]]
    /\ UNCHANGED <<doc, chunks, points, request, edits, vetted>>

Goto(i, pc) == indexer' = [indexer EXCEPT ![i].pc = pc]
Finish(i)   == indexer' = [indexer EXCEPT ![i] = Idle]

\* delete_document_chunks; a failure is logged.
DeletePoints(i) ==
    /\ indexer[i].pc = "loaded"
    /\ points' = {} \/ (Faults /\ UNCHANGED points)
    /\ IF indexer[i].content \in Blank THEN Finish(i) ELSE Goto(i, "cleared")
    /\ UNCHANGED <<doc, chunks, request, edits, runs, vetted>>

\* Variant: committed on its own.
DeactivateAtOnce(i) ==
    /\ indexer[i].pc = "cleared"
    /\ chunks' = Deactivated(Active)
    /\ Goto(i, "deactivated")
    /\ UNCHANGED <<doc, points, request, edits, runs, vetted>>

\* UPDATE kb_chunks: the chunks committed by now. Uncommitted until StoreChunks.
Deactivate(i) ==
    /\ indexer[i].pc = "cleared"
    /\ indexer' = [indexer EXCEPT ![i] = [@ EXCEPT !.pc = "deactivated", !.old = Active]]
    /\ UNCHANGED <<doc, chunks, points, request, edits, runs, vetted>>

\* INSERT and commit.
StoreChunks(i) ==
    /\ indexer[i].pc = "deactivated"
    /\ chunks' = [Deactivated(indexer[i].old) EXCEPT ![indexer[i].run] =
                     [state |-> "active", content |-> indexer[i].content]]
    /\ Goto(i, "stored")
    /\ UNCHANGED <<doc, points, request, edits, runs, vetted>>

\* upsert_chunks, then embedding_id on the chunks, which is nowhere read.
Upsert(i) ==
    /\ indexer[i].pc = "stored"
    /\ points' = points \cup {indexer[i].run}
    /\ Finish(i)
    /\ UNCHANGED <<doc, chunks, request, edits, runs, vetted>>

\* Embedding or upsert fails (or the embedding_id, with the points upserted).
UpsertFails(i) ==
    /\ Faults /\ indexer[i].pc = "stored"
    /\ points' \in {points, points \cup {indexer[i].run}}
    /\ Goto(i, "failed")
    /\ UNCHANGED <<doc, chunks, request, edits, runs, vetted>>

\* "Mark document back to review", whatever its status is.
MarkReview(i) ==
    /\ indexer[i].pc = "failed"
    /\ doc' = [doc EXCEPT !.status = "review"]
    /\ Finish(i)
    /\ UNCHANGED <<chunks, points, request, edits, runs, vetted>>

Die(i) ==
    /\ Faults /\ indexer[i].pc # "idle"
    /\ Finish(i)
    /\ UNCHANGED <<doc, chunks, points, request, edits, runs, vetted>>

-----------------------------------------------------------------------------
Init ==
    /\ doc = NewDocument
    /\ chunks = [n \in Runs |-> NoChunks]
    /\ points = {}
    /\ request = [r \in Requests |-> NoRequest]
    /\ indexer = [i \in Indexers |-> Idle]
    /\ edits = 0 /\ runs = 0
    /\ vetted = IF Synced THEN {0} ELSE {}

RequestStep(r) ==
    \/ \E status \in Patches \cup {"draft"} : ReadForUpdate(r, status)
    \/ \E status \in Patches : ReadForPatch(r, status)
    \/ ReadForApprove(r) \/ ReadForDelete(r) \/ ReadForSync(r) \/ Commit(r)

IndexerStep(i) ==
    \/ DeletePoints(i) \/ Deactivate(i) \/ StoreChunks(i) \/ Upsert(i)
    \/ UpsertFails(i) \/ MarkReview(i) \/ Die(i)

Next ==
    \/ \E r \in Requests : RequestStep(r)
    \/ \E i \in Indexers : StartIndexing(i) \/ IndexerStep(i)

Spec == Init /\ [][Next]_vars

\* Requests and runs of the indexer come to their end; none has to be started.
FairSpec ==
    /\ Spec
    /\ \A r \in Requests : WF_vars(Commit(r))
    /\ \A i \in Indexers : WF_vars(IndexerStep(i))

-----------------------------------------------------------------------------
(* Properties                                                              *)

Row == [content : Contents, version : Nat, status : Statuses,
        approver : Requests \cup {None}, deleted : BOOLEAN]

TypeOK ==
    /\ doc \in Row
    /\ chunks \in [Runs -> [state : {"none", "active", "inactive"}, content : Contents]]
    /\ points \subseteq Runs
    /\ request \in [Requests -> [op : {"none", "update", "patch", "approve", "delete", "sync"},
                                 seen : Row, row : Row]]
    /\ indexer \in [Indexers -> [pc : {"idle", "loaded", "cleared", "deactivated", "stored",
                                       "failed"},
                                 run : 0 .. MaxRuns, content : Contents, old : SUBSET Runs]]
    /\ \A i \in Indexers : indexer[i].pc # "idle" => indexer[i].run \in Runs
    /\ edits \in Contents /\ runs \in 0 .. MaxRuns /\ vetted \subseteq Contents

\* Comment in update_document: a changed content requires re-approval. What is
\* approved is what an admin saw when approving, or what the store delivered.
ApprovedIsReviewed == doc.status = "approved" => doc.content \in vetted

\* Old chunks are deactivated when a document is indexed again: answers never
\* mix two contents.
OneGeneration == \A m, n \in Active : m = n

\* Archived is the end of a document's life.
ArchivedStays == [][doc.status = "archived" => doc'.status = "archived"]_vars

\* A document that was indexed is served without a gap while it is indexed
\* again and when that fails half way, until it is deleted.
ServedThroughout == Stored # {} /\ ~doc.deleted => Active # {}

\* A vector hit always has its chunk in the database.
PointsAreStored == points \subseteq Stored

\* What is served is stored and stays served: neither side of an indexing run is
\* ever ahead of the other.
ServedFromStored == ServedThroughout /\ PointsAreStored

\* Lost updates of the version can only make it too small.
VersionWithinEdits == doc.version <= 1 + edits

\* Every edit creates a new version.
VersionNeverFalls == [][doc'.version >= doc.version]_vars

\* Approving triggers the indexing: what stays approved comes to be served.
ApprovedIsIndexed ==
    \A c \in Contents :
        doc.status = "approved" /\ doc.content = c ~>
            \/ \E n \in Active : chunks[n].content = c
            \/ doc.content # c \/ doc.status # "approved"
=============================================================================
