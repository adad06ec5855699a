------------------------ MODULE KnowledgeBase_proofs ------------------------
(***************************************************************************)
(* What holds of a document, its chunks and its points for any number of    *)
(* requests, indexers, contents and runs.                                   *)
(***************************************************************************)
EXTENDS MCKnowledgeBase, TLAPS

-----------------------------------------------------------------------------
(* Types                                                                   *)

LEMMA WrittenType ==
    ASSUME doc \in Row, NEW seen \in Row, NEW row \in Row
    PROVE  Written(seen, row) \in Row
  <1>1. DOMAIN doc = {"content", "version", "status", "approver", "deleted"}  BY DEF Row
  <1> DEFINE W == Written(seen, row)
             R == [content |-> W["content"], version |-> W["version"], status |-> W["status"],
                   approver |-> W["approver"], deleted |-> W["deleted"]]
  <1>2. /\ W["content"] \in Contents /\ W["version"] \in Nat /\ W["status"] \in Statuses
        /\ W["approver"] \in Requests \cup {None} /\ W["deleted"] \in BOOLEAN
    BY <1>1 DEF Row, Written
  <1>3. W = R  BY <1>1 DEF Written
  <1>4. R \in Row  BY <1>2 DEF Row
  <1>5. QED  BY <1>3, <1>4

LEMMA NewType == NewDocument \in Row
  BY KnowledgeBaseAssumption DEF NewDocument, Row, Contents, Statuses

LEMMA TypeInit == Init => TypeOK
  BY KnowledgeBaseAssumption, NewType
     DEF Init, TypeOK, NoChunks, NoRequest, Idle, Runs, Contents

ChunkType == [state : {"none", "active", "inactive"}, content : Contents]

RequestType == [op : {"none", "update", "patch", "approve", "delete", "sync"},
                seen : Row, row : Row]

IndexerType == [pc : {"idle", "loaded", "cleared", "deactivated", "stored", "failed"},
                run : 0 .. MaxRuns, content : Contents, old : SUBSET Runs]

LEMMA ReadType ==
    ASSUME TypeOK, NEW r \in Requests,
           NEW op \in {"update", "patch", "approve", "delete", "sync"},
           NEW row \in Row, Read(r, op, row), edits' \in Contents
    PROVE  TypeOK'
  <1>1. [op |-> op, seen |-> doc, row |-> row] \in RequestType  BY DEF TypeOK, RequestType
  <1>2. request' \in [Requests -> RequestType]  BY <1>1 DEF TypeOK, Read, RequestType
  <1>3. UNCHANGED <<doc, chunks, points, indexer, runs, vetted>>  BY DEF Read
  <1>4. QED  BY <1>2, <1>3 DEF TypeOK, RequestType

\* A step of an indexer.
LEMMA IndexerKeepsType ==
    ASSUME TypeOK, NEW i \in Indexers, NEW l \in IndexerType,
           indexer' = [indexer EXCEPT ![i] = l],
           l.pc # "idle" => l.run \in Runs,
           doc' \in Row, chunks' \in [Runs -> ChunkType], points' \subseteq Runs,
           runs' \in 0 .. MaxRuns, UNCHANGED <<request, edits, vetted>>
    PROVE  TypeOK'
  <1>1. indexer' \in [Indexers -> IndexerType]  BY DEF TypeOK, IndexerType
  <1>2. QED  BY <1>1 DEF TypeOK, IndexerType, ChunkType

LEMMA DeactivatedType ==
    ASSUME chunks \in [Runs -> ChunkType], NEW these
    PROVE  Deactivated(these) \in [Runs -> ChunkType]
  BY DEF Deactivated, ChunkType

LEMMA IdleType == Idle \in IndexerType
  BY KnowledgeBaseAssumption DEF Idle, IndexerType, Contents, Runs

\* A step of a request whose user may patch to any status.
AnyRequestStep(r) ==
    \/ \E status \in Statuses : ReadForUpdate(r, status) \/ ReadForPatch(r, status)
    \/ ReadForApprove(r) \/ ReadForDelete(r) \/ ReadForSync(r) \/ Commit(r)

AnyNext ==
    \/ \E r \in Requests : AnyRequestStep(r)
    \/ \E i \in Indexers : StartIndexing(i) \/ IndexerStep(i)

LEMMA NextIsAny == Next => AnyNext
  BY KnowledgeBaseAssumption DEF Next, AnyNext, RequestStep, AnyRequestStep, Statuses

LEMMA AnyTypeStep == TypeOK /\ [AnyNext]_vars => TypeOK'
  <1> SUFFICES ASSUME TypeOK, [AnyNext]_vars PROVE TypeOK'  OBVIOUS
  <1>t. /\ doc \in Row /\ chunks \in [Runs -> ChunkType] /\ points \subseteq Runs
        /\ request \in [Requests -> RequestType] /\ indexer \in [Indexers -> IndexerType]
        /\ edits \in Contents /\ runs \in 0 .. MaxRuns /\ vetted \subseteq Contents
        /\ \A i \in Indexers : indexer[i].pc # "idle" => indexer[i].run \in Runs
    BY DEF TypeOK, ChunkType, RequestType, IndexerType
  <1>e. edits < MaxEdits => edits + 1 \in Contents
    BY <1>t, KnowledgeBaseAssumption DEF Contents
  <1>1. ASSUME NEW r \in Requests, NEW s \in Statuses, ReadForUpdate(r, s) PROVE TypeOK'
    <2>2. [doc EXCEPT !.content = edits + 1, !.status = s, !.approver = None,
                      !.version = @ + 1] \in Row
      <3>1. edits + 1 \in Contents  BY <1>1, <1>e DEF ReadForUpdate
      <3>2. doc.version + 1 \in Nat /\ doc.deleted \in BOOLEAN  BY <1>t DEF Row
      <3>3. QED  BY <1>t, <3>1, <3>2 DEF Row
    <2>3. QED  BY <1>1, <1>e, <2>2, ReadType DEF ReadForUpdate
  <1>2. ASSUME NEW r \in Requests, NEW s \in Statuses, ReadForPatch(r, s) PROVE TypeOK'
    <2>1. [doc EXCEPT !.status = s] \in Row  BY <1>t DEF Row
    <2>2. QED  BY <1>2, <1>t, <2>1, ReadType DEF ReadForPatch
  <1>3. ASSUME NEW r \in Requests, ReadForApprove(r) PROVE TypeOK'
    <2>1. [doc EXCEPT !.status = "approved", !.approver = r] \in Row
      BY <1>t DEF Row, Statuses
    <2>2. QED  BY <1>3, <1>t, <2>1, ReadType DEF ReadForApprove
  <1>4. ASSUME NEW r \in Requests, ReadForDelete(r) PROVE TypeOK'
    <2>1. [doc EXCEPT !.deleted = TRUE, !.status = "archived"] \in Row
      BY <1>t DEF Row, Statuses
    <2>2. QED  BY <1>4, <1>t, <2>1, ReadType DEF ReadForDelete
  <1>5. ASSUME NEW r \in Requests, ReadForSync(r) PROVE TypeOK'
    <2>1. [doc EXCEPT !.content = edits + 1] \in Row
      BY <1>5, <1>t, <1>e DEF Row, ReadForSync
    <2>2. QED  BY <1>5, <1>e, <2>1, ReadType DEF ReadForSync
  <1>6. ASSUME NEW r \in Requests, Commit(r) PROVE TypeOK'
    <2>1. request[r].seen \in Row /\ request[r].row \in Row  BY <1>t DEF RequestType
    <2>2. doc' \in Row  BY <1>6, <1>t, <2>1, WrittenType DEF Commit
    <2>3. chunks' \in [Runs -> ChunkType]  BY <1>6, <1>t, DeactivatedType DEF Commit
    <2>4. vetted' \subseteq Contents
      <3>1. request[r].seen.content \in Contents /\ request[r].row.content \in Contents
        BY <2>1 DEF Row
      <3>2. QED  BY <1>6, <1>t, <3>1 DEF Commit
    <2>5. request' \in [Requests -> RequestType]
      <3>1. NoRequest \in RequestType  BY NewType DEF NoRequest, RequestType
      <3>2. QED  BY <1>6, <1>t, <3>1 DEF Commit
    <2>6. UNCHANGED <<points, indexer, edits, runs>>  BY <1>6 DEF Commit
    <2>7. QED  BY <2>2, <2>3, <2>4, <2>5, <2>6 DEF TypeOK, ChunkType, RequestType
  <1>7. ASSUME NEW i \in Indexers, StartIndexing(i) PROVE TypeOK'
    <2> DEFINE l == [pc |-> "loaded", run |-> runs + 1, content |-> doc.content, old |-> {}]
    <2>1. l \in IndexerType /\ runs + 1 \in 0 .. MaxRuns /\ l.run \in Runs
      BY <1>7, <1>t, KnowledgeBaseAssumption DEF IndexerType, Row, Runs, StartIndexing
    <2> HIDE DEF l
    <2>2. indexer' = [indexer EXCEPT ![i] = l] /\ runs' = runs + 1
          /\ UNCHANGED <<doc, chunks, points, request, edits, vetted>>
      BY <1>7 DEF StartIndexing, l
    <2>3. QED  BY <1>t, <2>1, <2>2, IndexerKeepsType
  <1>g. ASSUME NEW i \in Indexers, indexer[i].pc # "idle",
               NEW pc \in {"cleared", "stored", "failed"}, Goto(i, pc)
        PROVE  \E l \in IndexerType : /\ indexer' = [indexer EXCEPT ![i] = l]
                                      /\ l.pc # "idle" => l.run \in Runs
    <2> DEFINE l == [indexer[i] EXCEPT !.pc = pc]
    <2>1. l \in IndexerType /\ l.run \in Runs  BY <1>g, <1>t DEF IndexerType
    <2>2. indexer' = [indexer EXCEPT ![i] = l]  BY <1>g, <1>t DEF Goto
    <2>3. QED  BY <2>1, <2>2
  <1>f. ASSUME NEW i \in Indexers, Finish(i)
        PROVE  \E l \in IndexerType : /\ indexer' = [indexer EXCEPT ![i] = l]
                                      /\ l.pc # "idle" => l.run \in Runs
    BY <1>f, IdleType DEF Finish, Idle
  <1>r. ASSUME NEW i \in Indexers
        PROVE  indexer[i].content \in Contents
    BY <1>t DEF IndexerType
  <1>8. ASSUME NEW i \in Indexers, DeletePoints(i) PROVE TypeOK'
    <2>1. PICK l \in IndexerType : /\ indexer' = [indexer EXCEPT ![i] = l]
                                   /\ l.pc # "idle" => l.run \in Runs
      BY <1>8, <1>g, <1>f DEF DeletePoints
    <2>2. points' \subseteq Runs /\ UNCHANGED <<doc, chunks, request, edits, runs, vetted>>
      BY <1>8, <1>t DEF DeletePoints
    <2>3. QED  BY <1>t, <2>1, <2>2, IndexerKeepsType
  <1>9. ASSUME NEW i \in Indexers, Deactivate(i) PROVE TypeOK'
    <2> DEFINE l == [indexer[i] EXCEPT !.pc = "deactivated", !.old = Active]
    <2>1. l \in IndexerType /\ l.run \in Runs
      BY <1>9, <1>t DEF IndexerType, Active, Deactivate
    <2>2. indexer' = [indexer EXCEPT ![i] = l]  BY <1>9, <1>t DEF Deactivate
    <2> HIDE DEF l
    <2>3. UNCHANGED <<doc, chunks, points, request, edits, runs, vetted>>
      BY <1>9 DEF Deactivate
    <2>4. QED  BY <1>t, <2>1, <2>2, <2>3, IndexerKeepsType
  <1>10. ASSUME NEW i \in Indexers, StoreChunks(i) PROVE TypeOK'
    <2>1. PICK l \in IndexerType : /\ indexer' = [indexer EXCEPT ![i] = l]
                                   /\ l.pc # "idle" => l.run \in Runs
      BY <1>10, <1>g DEF StoreChunks
    <2>2. [state |-> "active", content |-> indexer[i].content] \in ChunkType
      BY <1>r DEF ChunkType
    <2>3. chunks' \in [Runs -> ChunkType]
      BY <1>10, <1>t, <2>2, DeactivatedType DEF StoreChunks
    <2>4. UNCHANGED <<doc, points, request, edits, runs, vetted>>  BY <1>10 DEF StoreChunks
    <2>5. QED  BY <1>t, <2>1, <2>3, <2>4, IndexerKeepsType
  <1>11. ASSUME NEW i \in Indexers, Upsert(i) \/ UpsertFails(i) PROVE TypeOK'
    <2>1. PICK l \in IndexerType : /\ indexer' = [indexer EXCEPT ![i] = l]
                                   /\ l.pc # "idle" => l.run \in Runs
      BY <1>11, <1>g, <1>f DEF Upsert, UpsertFails
    <2>2. points' \subseteq Runs  BY <1>11, <1>t DEF Upsert, UpsertFails
    <2>3. UNCHANGED <<doc, chunks, request, edits, runs, vetted>>
      BY <1>11 DEF Upsert, UpsertFails
    <2>4. QED  BY <1>t, <2>1, <2>2, <2>3, IndexerKeepsType
  <1>12. ASSUME NEW i \in Indexers, MarkReview(i) \/ Die(i) PROVE TypeOK'
    <2>1. PICK l \in IndexerType : /\ indexer' = [indexer EXCEPT ![i] = l]
                                   /\ l.pc # "idle" => l.run \in Runs
      BY <1>12, <1>f DEF MarkReview, Die
    <2>2. doc' \in Row  BY <1>12, <1>t DEF MarkReview, Die, Row, Statuses
    <2>3. UNCHANGED <<chunks, points, request, edits, runs, vetted>>
      BY <1>12 DEF MarkReview, Die
    <2>4. QED  BY <1>t, <2>1, <2>2, <2>3, IndexerKeepsType
  <1>13. CASE UNCHANGED vars  BY <1>13 DEF vars, TypeOK
  <1>14. QED
    BY <1>1, <1>2, <1>3, <1>4, <1>5, <1>6, <1>7, <1>8, <1>9, <1>10, <1>11, <1>12, <1>13
       DEF AnyNext, AnyRequestStep, IndexerStep

LEMMA TypeStep == TypeOK /\ [Next]_vars => TypeOK'
  BY AnyTypeStep, NextIsAny

\* Every reachable state of every instance is well typed; in particular a run
\* of the indexer in work has a number of its own to store its chunks under.
THEOREM TypeCorrect == Spec => []TypeOK
  BY TypeInit, TypeStep, PTL DEF Spec

-----------------------------------------------------------------------------
(* Chunks and points                                                       *)

\* A run that comes to its points has stored its chunks.
StoredFirst ==
    \A i \in Indexers : indexer[i].pc \in {"stored", "failed"} => indexer[i].run \in Stored

PointInv == StoredFirst /\ PointsAreStored

\* Deactivating leaves a run's chunks in the database.
LEMMA DeactivatedStored ==
    ASSUME NEW these, NEW n \in Runs
    PROVE  Deactivated(these)[n].state # "none" <=> chunks[n].state # "none" \/ n \in these
  BY DEF Deactivated

LEMMA PointInit == Init => PointInv
  BY DEF Init, PointInv, StoredFirst, PointsAreStored, Idle

\* Where no chunk disappears and no point comes, only the indexer that moved
\* has to be looked at.
LEMMA PointKeeps ==
    ASSUME PointInv, Stored \subseteq Stored', points' \subseteq points,
           NEW i \in Indexers, \A j \in Indexers \ {i} : indexer'[j] = indexer[j],
           indexer'[i].pc \in {"stored", "failed"} => indexer'[i].run \in Stored'
    PROVE  PointInv'
  BY DEF PointInv, StoredFirst, PointsAreStored

LEMMA PointStep == TypeOK /\ TypeOK' /\ PointInv /\ [Next]_vars => PointInv'
  <1> SUFFICES ASSUME TypeOK, TypeOK', PointInv, [Next]_vars PROVE PointInv'  OBVIOUS
  <1>t. /\ chunks \in [Runs -> ChunkType] /\ indexer \in [Indexers -> IndexerType]
        /\ \A i \in Indexers : indexer[i].pc # "idle" => indexer[i].run \in Runs
    BY DEF TypeOK, ChunkType, IndexerType
  <1>1. ASSUME UNCHANGED <<chunks, points, indexer>> PROVE PointInv'
    BY <1>1 DEF PointInv, StoredFirst, PointsAreStored, Stored
  <1>2. ASSUME NEW r \in Requests, RequestStep(r) PROVE PointInv'
    <2>1. CASE Commit(r)
      <3>1. UNCHANGED <<points, indexer>>  BY <2>1 DEF Commit
      <3>2. Stored \subseteq Stored'
        BY <2>1, DeactivatedStored DEF Commit, Stored
      <3>3. QED  BY <3>1, <3>2 DEF PointInv, StoredFirst, PointsAreStored
    <2>2. CASE ~Commit(r)
      BY <1>1, <1>2, <2>2
         DEF RequestStep, ReadForUpdate, ReadForPatch, ReadForApprove, ReadForDelete,
             ReadForSync, Read
    <2>3. QED  BY <2>1, <2>2
  <1>3. ASSUME NEW i \in Indexers, StartIndexing(i) \/ DeletePoints(i) \/ Deactivate(i)
        PROVE  PointInv'
    <2>1. chunks' = chunks /\ points' \subseteq points
      BY <1>3 DEF StartIndexing, DeletePoints, Deactivate
    <2>2. \A j \in Indexers \ {i} : indexer'[j] = indexer[j]
      BY <1>3, <1>t DEF StartIndexing, DeletePoints, Deactivate, Goto, Finish
    <2>3. indexer'[i].pc \notin {"stored", "failed"}
      <3>1. CASE StartIndexing(i)  BY <3>1, <1>t DEF StartIndexing
      <3>2. CASE DeletePoints(i)
        BY <3>2, <1>t DEF DeletePoints, Goto, Finish, Idle, IndexerType
      <3>3. CASE Deactivate(i)  BY <3>3, <1>t DEF Deactivate, IndexerType
      <3>4. QED  BY <1>3, <3>1, <3>2, <3>3
    <2>4. QED  BY <2>1, <2>2, <2>3, PointKeeps DEF Stored
  <1>4. ASSUME NEW i \in Indexers, StoreChunks(i) PROVE PointInv'
    <2>1. /\ indexer'[i].run = indexer[i].run /\ indexer[i].run \in Runs
          /\ \A j \in Indexers \ {i} : indexer'[j] = indexer[j]
          /\ points' = points
      BY <1>4, <1>t DEF StoreChunks, Goto, IndexerType
    <2>2. /\ chunks'[indexer[i].run].state = "active"
          /\ \A n \in Runs \ {indexer[i].run} : chunks'[n] = Deactivated(indexer[i].old)[n]
      BY <1>4, <2>1 DEF StoreChunks, Deactivated
    <2>3. Stored \subseteq Stored' /\ indexer[i].run \in Stored'
      BY <2>1, <2>2, DeactivatedStored DEF Stored
    <2>4. QED  BY <2>1, <2>3, PointKeeps
  <1>5. ASSUME NEW i \in Indexers, Upsert(i) \/ UpsertFails(i) PROVE PointInv'
    <2>1. indexer[i].pc = "stored" /\ indexer[i].run \in Stored
      BY <1>5 DEF Upsert, UpsertFails, PointInv, StoredFirst
    <2>2. chunks' = chunks /\ points' \subseteq points \cup {indexer[i].run}
      BY <1>5 DEF Upsert, UpsertFails
    <2>3. \A j \in Indexers : \/ indexer'[j] = indexer[j]
                              \/ j = i /\ indexer'[j].pc = "idle"
                              \/ j = i /\ indexer'[j].run = indexer[i].run
      BY <1>5, <1>t DEF Upsert, UpsertFails, Goto, Finish, Idle, IndexerType
    <2>4. QED  BY <2>1, <2>2, <2>3 DEF PointInv, StoredFirst, PointsAreStored, Stored
  <1>6. ASSUME NEW i \in Indexers, MarkReview(i) \/ Die(i) PROVE PointInv'
    <2>1. chunks' = chunks /\ points' = points  BY <1>6 DEF MarkReview, Die
    <2>2. /\ \A j \in Indexers \ {i} : indexer'[j] = indexer[j]
          /\ indexer'[i].pc = "idle"
      BY <1>6, <1>t DEF MarkReview, Die, Finish, Idle
    <2>3. QED  BY <2>1, <2>2, PointKeeps DEF Stored
  <1>7. CASE UNCHANGED vars  BY <1>1, <1>7 DEF vars
  <1>8. QED
    BY <1>2, <1>3, <1>4, <1>5, <1>6, <1>7 DEF Next, IndexerStep

\* The points are written after the commit of the chunks: whatever fails or
\* overlaps, a hit in Qdrant finds its chunk in the database.
THEOREM HitsFindChunks == Spec => []PointsAreStored
  <1>1. PointInv => PointsAreStored  BY DEF PointInv
  <1>2. QED  BY <1>1, TypeInit, TypeStep, PointInit, PointStep, PTL DEF Spec

-----------------------------------------------------------------------------
(* Service without a gap                                                   *)

\* A request deletes a document that was not deleted, or leaves deleted alone.
OnlyDeletes ==
    \A r \in Requests : request[r].op # "none" =>
       IF request[r].op = "delete"
         THEN request[r].row.deleted /\ ~request[r].seen.deleted
         ELSE request[r].row.deleted = request[r].seen.deleted

ServiceInv == OnlyDeletes /\ ServedThroughout

LEMMA ServiceInit == Init => ServiceInv
  BY DEF Init, ServiceInv, OnlyDeletes, ServedThroughout, NoRequest, NoChunks, Stored

LEMMA ServiceStep == TypeOK /\ TypeOK' /\ ServiceInv /\ [Next]_vars => ServiceInv'
  <1> SUFFICES ASSUME TypeOK, TypeOK', ServiceInv, [Next]_vars PROVE ServiceInv'  OBVIOUS
  <1>t. /\ doc \in Row /\ chunks \in [Runs -> ChunkType]
        /\ request \in [Requests -> RequestType] /\ indexer \in [Indexers -> IndexerType]
        /\ \A i \in Indexers : indexer[i].pc # "idle" => indexer[i].run \in Runs
    BY DEF TypeOK, ChunkType, RequestType, IndexerType
  <1>1. ASSUME UNCHANGED <<chunks, request>>, doc'.deleted = doc.deleted PROVE ServiceInv'
    BY <1>1 DEF ServiceInv, OnlyDeletes, ServedThroughout, Stored, Active
  <1>2. ASSUME NEW r \in Requests, NEW op, NEW row, Read(r, op, row), op # "none",
               row.deleted = IF op = "delete" THEN TRUE ELSE doc.deleted
        PROVE  ServiceInv'
    <2>1. request' = [request EXCEPT ![r] = [op |-> op, seen |-> doc, row |-> row]]
          /\ ~doc.deleted /\ UNCHANGED <<doc, chunks>>
      BY <1>2 DEF Read, Found
    <2>2. OnlyDeletes'  BY <1>2, <1>t, <2>1 DEF ServiceInv, OnlyDeletes
    <2>3. QED  BY <2>1, <2>2 DEF ServiceInv, ServedThroughout, Stored, Active
  <1>3. ASSUME NEW r \in Requests, RequestStep(r), ~Commit(r) PROVE ServiceInv'
    BY <1>2, <1>3, <1>t
       DEF RequestStep, ReadForUpdate, ReadForPatch, ReadForApprove, ReadForDelete,
           ReadForSync, Row
  <1>4. ASSUME NEW r \in Requests, Commit(r) PROVE ServiceInv'
    <2>1. OnlyDeletes'  BY <1>4, <1>t DEF ServiceInv, OnlyDeletes, Commit, NoRequest
    <2>2. doc'.deleted = IF request[r].op = "delete" THEN TRUE ELSE doc.deleted
      BY <1>4, <1>t DEF ServiceInv, OnlyDeletes, Commit, Written, Row
    <2>3. request[r].op # "delete" => chunks' = chunks  BY <1>4 DEF Commit
    <2>4. QED  BY <2>1, <2>2, <2>3 DEF ServiceInv, ServedThroughout, Stored, Active
  <1>5. ASSUME NEW i \in Indexers, StoreChunks(i) PROVE ServiceInv'
    <2>1. indexer[i].run \in Runs /\ UNCHANGED <<doc, request>>
      BY <1>5, <1>t DEF StoreChunks
    <2>2. chunks'[indexer[i].run].state = "active"
      BY <1>5, <2>1 DEF StoreChunks, Deactivated
    <2>3. QED  BY <2>1, <2>2 DEF ServiceInv, OnlyDeletes, ServedThroughout, Active
  <1>6. ASSUME NEW i \in Indexers, StartIndexing(i) \/ (IndexerStep(i) /\ ~StoreChunks(i))
        PROVE  ServiceInv'
    <2>1. UNCHANGED <<chunks, request>>
      BY <1>6 DEF StartIndexing, IndexerStep, DeletePoints, Deactivate, Upsert, UpsertFails,
                  MarkReview, Die
    <2>2. doc'.deleted = doc.deleted
      BY <1>6, <1>t DEF StartIndexing, IndexerStep, DeletePoints, Deactivate, Upsert,
                        UpsertFails, MarkReview, Die, Row
    <2>3. QED  BY <1>1, <2>1, <2>2
  <1>7. CASE UNCHANGED vars  BY <1>1, <1>7 DEF vars
  <1>8. QED  BY <1>3, <1>4, <1>5, <1>6, <1>7 DEF Next

\* Old chunks leave in the transaction that brings the new ones: a document that
\* was indexed is served until it is deleted, however many indexers and requests
\* overlap, fail or die.
THEOREM NoGapInService == Spec => []ServedThroughout
  <1>1. ServiceInv => ServedThroughout  BY DEF ServiceInv
  <1>2. QED  BY <1>1, TypeInit, TypeStep, ServiceInit, ServiceStep, PTL DEF Spec

\* An indexed document is served without a gap, and only from chunks that were
\* committed.
THEOREM ServiceIsBacked == Spec => []ServedFromStored
  BY NoGapInService, HitsFindChunks, PTL DEF ServedFromStored


-----------------------------------------------------------------------------
(* Versions                                                                *)

VersionInv ==
    /\ VersionWithinEdits
    /\ \A r \in Requests : request[r].op # "none" => request[r].row.version <= 1 + edits

LEMMA VersionInit == Init => VersionInv
  BY DEF Init, VersionInv, VersionWithinEdits, NewDocument, NoRequest

LEMMA VersionStep == TypeOK /\ TypeOK' /\ VersionInv /\ [Next]_vars => VersionInv'
  <1> SUFFICES ASSUME TypeOK, TypeOK', VersionInv, [Next]_vars PROVE VersionInv'  OBVIOUS
  <1>t. /\ doc \in Row /\ request \in [Requests -> RequestType] /\ edits \in Nat
        /\ doc.version \in Nat /\ \A r \in Requests : request[r].row.version \in Nat
    BY KnowledgeBaseAssumption DEF TypeOK, RequestType, Row, Contents
  <1>1. ASSUME UNCHANGED <<request, edits>>, doc'.version = doc.version PROVE VersionInv'
    BY <1>1 DEF VersionInv, VersionWithinEdits
  <1>2. ASSUME NEW r \in Requests, NEW op, NEW row, Read(r, op, row),
               edits' \in {edits, edits + 1}, row.version <= 1 + edits'
        PROVE  VersionInv'
    <2>1. request' = [request EXCEPT ![r] = [op |-> op, seen |-> doc, row |-> row]]
          /\ UNCHANGED doc
      BY <1>2 DEF Read
    <2>2. ASSUME NEW q \in Requests, request'[q].op # "none"
          PROVE  request'[q].row.version <= 1 + edits'
      BY <1>2, <1>t, <2>1, <2>2 DEF VersionInv
    <2>3. QED  BY <1>2, <1>t, <2>1, <2>2 DEF VersionInv, VersionWithinEdits
  <1>3. ASSUME NEW r \in Requests, RequestStep(r), ~Commit(r) PROVE VersionInv'
    <2>1. doc.version <= 1 + edits  BY DEF VersionInv, VersionWithinEdits
    <2>2. ASSUME NEW s \in Patches \cup {"draft"}, ReadForUpdate(r, s) PROVE VersionInv'
      <3>1. [doc EXCEPT !.content = edits + 1, !.status = s, !.approver = None,
                        !.version = @ + 1].version = doc.version + 1
        BY <1>t DEF Row
      <3>2. doc.version + 1 <= 1 + (edits + 1)  BY <1>t, <2>1
      <3>3. QED  BY <1>2, <2>2, <3>1, <3>2 DEF ReadForUpdate
    <2>3. ASSUME NEW s \in Patches, ReadForPatch(r, s) PROVE VersionInv'
      BY <1>2, <1>t, <2>1, <2>3 DEF ReadForPatch, Row
    <2>4. CASE ReadForApprove(r)  BY <1>2, <1>t, <2>1, <2>4 DEF ReadForApprove, Row
    <2>5. CASE ReadForDelete(r)  BY <1>2, <1>t, <2>1, <2>5 DEF ReadForDelete, Row
    <2>6. CASE ReadForSync(r)
      <3>1. [doc EXCEPT !.content = edits + 1].version <= 1 + (edits + 1)
        BY <1>t, <2>1 DEF Row
      <3>2. QED  BY <1>2, <2>6, <3>1 DEF ReadForSync
    <2>7. QED  BY <1>3, <2>2, <2>3, <2>4, <2>5, <2>6 DEF RequestStep
  <1>4. ASSUME NEW r \in Requests, Commit(r) PROVE VersionInv'
    <2>1. doc'.version \in {doc.version, request[r].row.version} /\ edits' = edits
          /\ request[r].op # "none"
      BY <1>4, <1>t DEF Commit, Written, Row
    <2>2. \A q \in Requests : request'[q] = request[q] \/ request'[q].op = "none"
      BY <1>4, <1>t DEF Commit, NoRequest
    <2>3. QED  BY <2>1, <2>2 DEF VersionInv, VersionWithinEdits
  <1>5. ASSUME NEW i \in Indexers, StartIndexing(i) \/ IndexerStep(i) PROVE VersionInv'
    <2>1. UNCHANGED <<request, edits>>
      BY <1>5 DEF StartIndexing, IndexerStep, DeletePoints, Deactivate, StoreChunks, Upsert,
                  UpsertFails, MarkReview, Die
    <2>2. doc'.version = doc.version
      BY <1>5, <1>t DEF StartIndexing, IndexerStep, DeletePoints, Deactivate, StoreChunks,
                        Upsert, UpsertFails, MarkReview, Die, Row
    <2>3. QED  BY <1>1, <2>1, <2>2
  <1>6. CASE UNCHANGED vars  BY <1>1, <1>6 DEF vars
  <1>7. QED  BY <1>3, <1>4, <1>5, <1>6 DEF Next

\* Edits that load the same version write the same or a smaller one: the
\* version may lag behind the number of edits, it never runs ahead of it.
THEOREM VersionsNeverRunAhead == Spec => []VersionWithinEdits
  <1>1. VersionInv => VersionWithinEdits  BY DEF VersionInv
  <1>2. QED  BY <1>1, TypeInit, TypeStep, VersionInit, VersionStep, PTL DEF Spec

-----------------------------------------------------------------------------
(* One request and one run of the indexer at a time                        *)

\* Nobody else is at work; what a request read is what it finds at its commit.
ApartInv ==
    /\ \A q, r \in Requests : request[q].op # "none" /\ request[r].op # "none" => q = r
    /\ \A i, j \in Indexers : indexer[i].pc # "idle" /\ indexer[j].pc # "idle" => i = j
    /\ \A i \in Indexers : indexer[i].pc # "failed"

\* What a request is about to write, by its kind.
IntentInv ==
    \A r \in Requests : request[r].op # "none" =>
        LET q == request[r] IN
        /\ q.seen = doc /\ ~doc.deleted
        /\ q.op \in {"update", "patch"} => q.row.status \in {"draft", "review"}
        /\ q.op = "approve" => q.row.status = "approved" /\ q.row.content = doc.content
        /\ q.op = "sync" => q.row.status = doc.status
        /\ q.op = "delete" => q.row.status = "archived" /\ q.row.deleted
        /\ q.op # "delete" => q.row.status # "archived"

\* An indexer that deactivated has deactivated every generation there is.
GenerationInv ==
    /\ OneGeneration
    /\ \A i \in Indexers : indexer[i].pc = "deactivated" => Active \subseteq indexer[i].old

AloneInv ==
    /\ ApartInv /\ IntentInv /\ GenerationInv
    /\ ApprovedIsReviewed
    /\ doc.status = "archived" => doc.deleted

LEMMA AloneInit == Init => AloneInv
  BY DEF Init, AloneInv, ApartInv, IntentInv, GenerationInv, OneGeneration, Active,
         ApprovedIsReviewed, NewDocument, NoRequest, NoChunks, Idle

\* A transaction that loaded what it finds writes its row.
LEMMA WrittenAsRead ==
    ASSUME doc \in Row, NEW row \in Row
    PROVE  Written(doc, row) = row
  <1>1. DOMAIN doc = {"content", "version", "status", "approver", "deleted"}  BY DEF Row
  <1> DEFINE W == Written(doc, row)
  <1>2. W = [column \in DOMAIN doc |-> row[column]]
    BY DEF Written
  <1>3. row = [column \in {"content", "version", "status", "approver", "deleted"} |-> row[column]]
    BY DEF Row
  <1>4. QED  BY <1>1, <1>2, <1>3

\* A request alone reads the document.
LEMMA ReadAlone ==
    ASSUME TypeOK, AloneInv, NEW r \in Requests, \A q \in Requests \ {r} : request[q].op = "none",
           NEW op \in {"update", "patch", "approve", "delete", "sync"}, NEW row \in Row,
           Read(r, op, row),
           op \in {"update", "patch"} => row.status \in {"draft", "review"},
           op = "approve" => row.status = "approved" /\ row.content = doc.content,
           op = "sync" => row.status = doc.status,
           op = "delete" => row.status = "archived" /\ row.deleted
    PROVE  AloneInv'
  <1>1. /\ doc' = doc /\ chunks' = chunks /\ indexer' = indexer /\ vetted' = vetted
        /\ request' = [request EXCEPT ![r] = [op |-> op, seen |-> doc, row |-> row]]
        /\ ~doc.deleted
    BY DEF Read, Found
  <1>2. /\ request'[r] = [op |-> op, seen |-> doc, row |-> row]
        /\ \A q \in Requests \ {r} : request'[q] = request[q]
    BY <1>1 DEF TypeOK
  <1>3. ApartInv'  BY <1>1, <1>2 DEF AloneInv, ApartInv
  <1>4. doc.status # "archived"  BY <1>1 DEF AloneInv
  <1>5. IntentInv'
    <2> SUFFICES ASSUME NEW q \in Requests, request'[q].op # "none"
                 PROVE  /\ request'[q].seen = doc' /\ ~doc'.deleted
                        /\ request'[q].op \in {"update", "patch"} =>
                              request'[q].row.status \in {"draft", "review"}
                        /\ request'[q].op = "approve" =>
                              /\ request'[q].row.status = "approved"
                              /\ request'[q].row.content = doc'.content
                        /\ request'[q].op = "sync" => request'[q].row.status = doc'.status
                        /\ request'[q].op = "delete" =>
                              request'[q].row.status = "archived" /\ request'[q].row.deleted
                        /\ request'[q].op # "delete" => request'[q].row.status # "archived"
      BY DEF IntentInv
    <2>1. q = r  BY <1>2
    <2>2. /\ request'[q].op = op /\ request'[q].seen = doc /\ request'[q].row = row
      BY <1>2, <2>1
    <2>3. QED  BY <1>1, <1>4, <2>2
  <1>6. QED
    BY <1>1, <1>3, <1>5
       DEF AloneInv, GenerationInv, OneGeneration, Active, ApprovedIsReviewed

LEMMA CommitAlone ==
    ASSUME TypeOK, AloneInv, NEW r \in Requests, Commit(r)
    PROVE  AloneInv' /\ doc.status # "archived"
  <1> DEFINE q == request[r]
  <1>1. /\ q.op \in {"update", "patch", "approve", "delete", "sync"} /\ q.row \in Row
        /\ doc \in Row /\ chunks \in [Runs -> ChunkType] /\ request \in [Requests -> RequestType]
    BY DEF TypeOK, RequestType, ChunkType, Commit
  <1>2. /\ q.seen = doc /\ ~doc.deleted
        /\ q.op \in {"update", "patch"} => q.row.status \in {"draft", "review"}
        /\ q.op = "approve" => q.row.status = "approved" /\ q.row.content = doc.content
        /\ q.op = "sync" => q.row.status = doc.status
        /\ q.op = "delete" => q.row.status = "archived" /\ q.row.deleted
        /\ q.op # "delete" => q.row.status # "archived"
    BY <1>1 DEF AloneInv, IntentInv
  <1>3. /\ doc' = q.row /\ indexer' = indexer
        /\ chunks' = IF q.op = "delete" THEN Deactivated(Active) ELSE chunks
        /\ request' = [request EXCEPT ![r] = NoRequest]
        /\ vetted \subseteq vetted'
        /\ q.op = "approve" => doc.content \in vetted'
        /\ q.op = "sync" => q.row.content \in vetted'
    BY <1>1, <1>2, WrittenAsRead DEF Commit
  <1>4. \A p \in Requests : request'[p].op = "none"
    BY <1>1, <1>3 DEF AloneInv, ApartInv, NoRequest
  <1>5. ApartInv' /\ IntentInv'  BY <1>3, <1>4 DEF AloneInv, ApartInv, IntentInv
  <1>6. Active' \subseteq Active  BY <1>1, <1>3 DEF Active, Deactivated
  <1>7. GenerationInv'  BY <1>3, <1>6 DEF AloneInv, GenerationInv, OneGeneration
  <1>8. ApprovedIsReviewed'  BY <1>1, <1>2, <1>3 DEF AloneInv, ApprovedIsReviewed
  <1>9. doc'.status = "archived" => doc'.deleted  BY <1>1, <1>2, <1>3
  <1>10. QED  BY <1>2, <1>5, <1>7, <1>8, <1>9 DEF AloneInv

LEMMA IndexerAlone ==
    ASSUME TypeOK, AloneInv, NEW i \in Indexers, \A j \in Indexers \ {i} : indexer[j].pc = "idle",
           \/ StartIndexing(i) \/ DeletePoints(i) \/ Deactivate(i) \/ StoreChunks(i) \/ Upsert(i)
    PROVE  AloneInv' /\ doc' = doc
  <1>t. /\ chunks \in [Runs -> ChunkType] /\ indexer \in [Indexers -> IndexerType]
        /\ \A j \in Indexers : indexer[j].pc # "idle" => indexer[j].run \in Runs
    BY DEF TypeOK, ChunkType, IndexerType
  <1>1. doc' = doc /\ request' = request /\ vetted' = vetted
    BY DEF StartIndexing, DeletePoints, Deactivate, StoreChunks, Upsert
  <1>2. /\ \A j \in Indexers \ {i} : indexer'[j].pc = "idle"
        /\ indexer'[i].pc # "failed"
        /\ indexer'[i].pc = "deactivated" => Deactivate(i) /\ indexer'[i].old = Active
    <2>1. CASE StartIndexing(i)  BY <1>t, <2>1 DEF StartIndexing
    <2>2. CASE DeletePoints(i)
      BY <1>t, <2>2 DEF DeletePoints, Goto, Finish, Idle, IndexerType
    <2>3. CASE Deactivate(i)  BY <1>t, <2>3 DEF Deactivate, IndexerType
    <2>4. CASE StoreChunks(i)  BY <1>t, <2>4 DEF StoreChunks, Goto, IndexerType
    <2>5. CASE Upsert(i)  BY <1>t, <2>5 DEF Upsert, Finish, Idle
    <2>6. QED  BY <2>1, <2>2, <2>3, <2>4, <2>5
  <1>3. ApartInv'  BY <1>1, <1>2 DEF AloneInv, ApartInv
  <1>4. IntentInv'  BY <1>1 DEF AloneInv, IntentInv
  <1>5. GenerationInv'
    <2>1. CASE StoreChunks(i)
      <3>1. /\ Active \subseteq indexer[i].old /\ indexer[i].run \in Runs
            /\ indexer'[i].pc # "deactivated"
        BY <1>t, <2>1 DEF StoreChunks, AloneInv, GenerationInv, Goto, IndexerType
      <3>2. \A n \in Runs \ {indexer[i].run} : chunks'[n] = Deactivated(indexer[i].old)[n]
        BY <2>1 DEF StoreChunks, Deactivated
      <3>3. ASSUME NEW n \in Runs \ {indexer[i].run} PROVE chunks'[n].state # "active"
        <4>1. CASE n \in indexer[i].old
          <5>1. chunks'[n] = [chunks[n] EXCEPT !.state = "inactive"]
            BY <3>2, <4>1 DEF Deactivated
          <5>2. chunks[n] \in ChunkType  BY <1>t
          <5>3. QED  BY <5>1, <5>2 DEF ChunkType
        <4>2. CASE n \notin indexer[i].old
          <5>1. chunks'[n] = chunks[n]  BY <3>2, <4>2 DEF Deactivated
          <5>2. n \notin Active  BY <3>1, <4>2
          <5>3. QED  BY <5>1, <5>2 DEF Active
        <4>3. QED  BY <4>1, <4>2
      <3>4. Active' \subseteq {indexer[i].run}  BY <3>3 DEF Active
      <3>5. QED  BY <1>2, <3>1, <3>4 DEF GenerationInv, OneGeneration
    <2>2. CASE ~StoreChunks(i)
      <3>1. chunks' = chunks /\ Active' = Active
        BY <2>2 DEF StartIndexing, DeletePoints, Deactivate, Upsert, Active
      <3>2. QED  BY <1>2, <3>1 DEF AloneInv, GenerationInv, OneGeneration
    <2>3. QED  BY <2>1, <2>2
  <1>6. QED  BY <1>1, <1>3, <1>4, <1>5 DEF AloneInv, ApprovedIsReviewed

\* A step of a request alone, by what it reads.
LEMMA RequestAlone ==
    ASSUME TypeOK, AloneInv, NEW r \in Requests, \A q \in Requests \ {r} : request[q].op = "none",
           \/ \E status \in {"draft", "review"} : ReadForUpdate(r, status)
           \/ ReadForPatch(r, "review")
           \/ ReadForApprove(r) \/ ReadForDelete(r) \/ ReadForSync(r) \/ Commit(r)
    PROVE  AloneInv'
  <1>t. doc \in Row /\ doc.version + 1 \in Nat /\ edits \in Nat
    BY KnowledgeBaseAssumption DEF TypeOK, Row, Contents
  <1>e. edits < MaxEdits => edits + 1 \in Contents
    BY <1>t, KnowledgeBaseAssumption DEF Contents
  <1>r. ASSUME NEW op, NEW row, Read(r, op, row) PROVE doc' = doc  BY <1>r DEF Read
  <1>1. ASSUME NEW s \in {"draft", "review"}, ReadForUpdate(r, s) PROVE AloneInv' /\ doc' = doc
    <2> DEFINE row == [doc EXCEPT !.content = edits + 1, !.status = s, !.approver = None,
                                  !.version = @ + 1]
    <2>1. Read(r, "update", row) /\ edits + 1 \in Contents  BY <1>1, <1>e DEF ReadForUpdate
    <2>2. row.status = s /\ row \in Row  BY <1>t, <2>1 DEF Row, Statuses
    <2> HIDE DEF row
    <2>3. QED  BY <1>r, <2>1, <2>2, ReadAlone
  <1>2. CASE ReadForPatch(r, "review")
    <2> DEFINE row == [doc EXCEPT !.status = "review"]
    <2>1. row.status = "review" /\ row \in Row  BY <1>t DEF Row, Statuses
    <2>2. Read(r, "patch", row)  BY <1>2 DEF ReadForPatch
    <2> HIDE DEF row
    <2>3. QED  BY <1>r, <2>1, <2>2, ReadAlone
  <1>3. CASE ReadForApprove(r)
    <2> DEFINE row == [doc EXCEPT !.status = "approved", !.approver = r]
    <2>1. row.status = "approved" /\ row.content = doc.content /\ row \in Row
      BY <1>t DEF Row, Statuses
    <2>2. Read(r, "approve", row)  BY <1>3 DEF ReadForApprove
    <2> HIDE DEF row
    <2>3. QED  BY <1>r, <2>1, <2>2, ReadAlone
  <1>4. CASE ReadForDelete(r)
    <2> DEFINE row == [doc EXCEPT !.deleted = TRUE, !.status = "archived"]
    <2>1. row.status = "archived" /\ row.deleted /\ row \in Row  BY <1>t DEF Row, Statuses
    <2>2. Read(r, "delete", row)  BY <1>4 DEF ReadForDelete
    <2> HIDE DEF row
    <2>3. QED  BY <1>r, <2>1, <2>2, ReadAlone
  <1>5. CASE ReadForSync(r)
    <2> DEFINE row == [doc EXCEPT !.content = edits + 1]
    <2>1. Read(r, "sync", row) /\ edits + 1 \in Contents  BY <1>5, <1>e DEF ReadForSync
    <2>2. row.status = doc.status /\ row \in Row  BY <1>t, <2>1 DEF Row
    <2> HIDE DEF row
    <2>3. QED  BY <1>r, <2>1, <2>2, ReadAlone
  <1>6. CASE Commit(r)  BY <1>6, CommitAlone
  <1>7. QED  BY <1>1, <1>2, <1>3, <1>4, <1>5, <1>6

-----------------------------------------------------------------------------
(* The life of the document                                                *)

Writes == {"update", "sync"}

\* What a request alone is about to write, down to the revision and the version.
StepInv ==
    \A r \in Requests : request[r].op # "none" =>
        LET q == request[r] IN
        /\ q.op \in Writes => q.row.content = doc.content + 1 /\ edits = doc.content + 1
        /\ q.op \notin Writes => q.row.content = doc.content
        /\ q.row.version = IF q.op = "update" THEN doc.version + 1 ELSE doc.version
        /\ q.op = "patch" => q.row.status = "review"
        /\ q.op = "approve" => doc.status \in {"draft", "review"}

\* Revisions are submitted one after the other, and indexed in their order.
OrderInv ==
    /\ (\A r \in Requests : request[r].op \notin Writes) => edits = doc.content
    /\ \A n \in Active : chunks[n].content <= doc.content
    /\ \A i \in Indexers : indexer[i].pc \in {"loaded", "cleared", "deactivated"} =>
          /\ indexer[i].content <= doc.content
          /\ \A n \in Active : chunks[n].content <= indexer[i].content

Served == {chunks[n].content : n \in Active}

LEMMA LifeStarts == Init => StepInv /\ OrderInv /\ Life!Init
  <1> SUFFICES ASSUME Init PROVE StepInv /\ OrderInv /\ Life!Init  OBVIOUS
  <1>1. Active = {}  BY DEF Init, Active, NoChunks
  <1>2. StepInv  BY DEF Init, StepInv, NoRequest
  <1>3. OrderInv  BY <1>1 DEF Init, OrderInv, NewDocument, Idle, NoRequest, Writes
  <1>4. QED  BY <1>1, <1>2, <1>3 DEF Life!Init, Init, NewDocument

LEMMA LifeRests ==
    ASSUME doc' = doc, Served' = Served
    PROVE  UNCHANGED Life!life
  BY DEF Life!life, Served

\* A request alone reads the document.
LEMMA ReadLife ==
    ASSUME TypeOK, StepInv, OrderInv, NEW r \in Requests,
           \A q \in Requests \ {r} : request[q].op = "none",
           NEW op, NEW row, Read(r, op, row),
           op \in Writes => row.content = edits + 1 /\ edits' = edits + 1,
           op \notin Writes => row.content = doc.content /\ edits' = edits,
           row.version = IF op = "update" THEN doc.version + 1 ELSE doc.version,
           op = "patch" => row.status = "review",
           op = "approve" => doc.status \in {"draft", "review"}
    PROVE  StepInv' /\ OrderInv' /\ UNCHANGED Life!life
  <1>1. /\ doc' = doc /\ chunks' = chunks /\ indexer' = indexer /\ request[r].op = "none"
        /\ request' = [request EXCEPT ![r] = [op |-> op, seen |-> doc, row |-> row]]
    BY DEF Read
  <1>2. /\ request'[r].op = op /\ request'[r].row = row
        /\ \A q \in Requests \ {r} : request'[q].op = "none"
    BY <1>1 DEF TypeOK
  <1>3. edits = doc.content  BY <1>1 DEF OrderInv, Writes
  <1>4. StepInv'  BY <1>1, <1>2, <1>3 DEF StepInv
  <1>5. Active' = Active /\ Served' = Served  BY <1>1 DEF Active, Served
  <1>6. OrderInv'  BY <1>1, <1>2, <1>3, <1>5 DEF OrderInv
  <1>7. QED  BY <1>1, <1>4, <1>5, <1>6, LifeRests

\* Its commit is the step of the document's life it was sent for.
LEMMA CommitLife ==
    ASSUME TypeOK, AloneInv, StepInv, OrderInv, NEW r \in Requests, Commit(r)
    PROVE  StepInv' /\ OrderInv' /\ Life!Next
  <1> DEFINE q == request[r]
  <1>1. /\ q.op \in {"update", "patch", "approve", "delete", "sync"} /\ q.row \in Row
        /\ doc \in Row /\ chunks \in [Runs -> ChunkType] /\ request \in [Requests -> RequestType]
    BY DEF TypeOK, RequestType, ChunkType, Commit
  <1>2. /\ q.seen = doc /\ doc.status # "archived"
        /\ q.op = "update" => q.row.status \in {"draft", "review"}
        /\ q.op = "approve" => q.row.status = "approved"
        /\ q.op = "sync" => q.row.status = doc.status
        /\ q.op = "delete" => q.row.status = "archived"
    BY <1>1 DEF AloneInv, IntentInv
  <1>3. /\ q.op \in Writes => q.row.content = doc.content + 1 /\ edits = doc.content + 1
        /\ q.op \notin Writes => q.row.content = doc.content
        /\ q.row.version = IF q.op = "update" THEN doc.version + 1 ELSE doc.version
        /\ q.op = "patch" => q.row.status = "review"
        /\ q.op = "approve" => doc.status \in {"draft", "review"}
    BY <1>1 DEF StepInv
  <1>4. /\ doc' = q.row /\ indexer' = indexer /\ edits' = edits
        /\ chunks' = IF q.op = "delete" THEN Deactivated(Active) ELSE chunks
        /\ request' = [request EXCEPT ![r] = NoRequest]
    BY <1>1, <1>2, WrittenAsRead DEF Commit
  <1>5. \A p \in Requests \ {r} : request[p].op = "none"
    BY <1>1 DEF AloneInv, ApartInv
  <1>6. \A p \in Requests : request'[p].op = "none"
    BY <1>1, <1>4, <1>5 DEF NoRequest
  <1>7. StepInv'  BY <1>6 DEF StepInv
  <1>8. /\ q.op # "delete" => Active' = Active /\ Served' = Served
        /\ q.op = "delete" => Active' = {} /\ Served' = {}
    BY <1>1, <1>4 DEF Active, Served, Deactivated, ChunkType
  <1>9. \A n \in Active' : n \in Active /\ chunks'[n] = chunks[n]  BY <1>4, <1>8
  <1>10. doc.content \in Nat /\ doc'.content \in Nat /\ doc.content <= doc'.content
         /\ edits = doc'.content
    <2>1. doc.content \in Nat /\ q.row.content \in Nat  BY <1>1 DEF Row, Contents
    <2>2. q.op \notin Writes => edits = doc.content  BY <1>5 DEF OrderInv, Writes
    <2>3. QED  BY <1>3, <1>4, <2>1, <2>2
  <1>11. OrderInv'
    <2>1. \A n \in Runs : chunks[n].content \in Nat  BY <1>1 DEF ChunkType, Contents
    <2>2. \A i \in Indexers : indexer[i].content \in Nat  BY DEF TypeOK, Contents
    <2>3. \A n \in Active : n \in Runs  BY DEF Active
    <2>4. QED  BY <1>4, <1>9, <1>10, <2>1, <2>2, <2>3 DEF OrderInv
  <1>12. Life!Next
    <2>1. CASE q.op = "update"
      <3>1. \E s \in {"draft", "review"} : Life!Edit(s)
        BY <1>2, <1>3, <1>4, <1>8, <2>1 DEF Life!Edit, Writes, Served
      <3>2. QED  BY <3>1 DEF Life!Next
    <2>2. CASE q.op = "sync"
      BY <1>2, <1>3, <1>4, <1>8, <2>2 DEF Life!Next, Life!Deliver, Writes, Served
    <2>3. CASE q.op = "patch"
      BY <1>2, <1>3, <1>4, <1>8, <2>3 DEF Life!Next, Life!Review, Writes, Served
    <2>4. CASE q.op = "approve"
      BY <1>2, <1>3, <1>4, <1>8, <2>4 DEF Life!Next, Life!Approve, Writes, Served
    <2>5. CASE q.op = "delete"
      BY <1>2, <1>3, <1>4, <1>8, <2>5 DEF Life!Next, Life!Archive, Writes, Served
    <2>6. QED  BY <1>1, <2>1, <2>2, <2>3, <2>4, <2>5
  <1>13. QED  BY <1>7, <1>11, <1>12

\* A run of the indexer alone publishes the revision it loaded when it stores its
\* chunks, and until then shows nobody anything.
LEMMA IndexerLife ==
    ASSUME TypeOK, AloneInv, StepInv, OrderInv, NEW i \in Indexers,
           \A j \in Indexers \ {i} : indexer[j].pc = "idle",
           \/ StartIndexing(i) \/ DeletePoints(i) \/ Deactivate(i) \/ StoreChunks(i) \/ Upsert(i)
    PROVE  StepInv' /\ OrderInv' /\ [Life!Next]_(Life!life)
  <1>t. /\ chunks \in [Runs -> ChunkType] /\ indexer \in [Indexers -> IndexerType]
        /\ \A j \in Indexers : indexer[j].pc # "idle" => indexer[j].run \in Runs
        /\ doc.content \in Nat
    BY DEF TypeOK, ChunkType, IndexerType, Row, Contents
  <1>1. doc' = doc /\ request' = request /\ edits' = edits
    BY DEF StartIndexing, DeletePoints, Deactivate, StoreChunks, Upsert
  <1>2. StepInv'  BY <1>1 DEF StepInv
  <1>3. CASE StoreChunks(i)
    <2>0. PICK m \in Runs, t \in Nat : m = indexer[i].run /\ t = indexer[i].content
      BY <1>t, <1>3 DEF StoreChunks, IndexerType, Contents
    <2>1. /\ Active \subseteq indexer[i].old /\ m \in Runs /\ indexer[i].pc = "deactivated"
          /\ chunks' = [Deactivated(indexer[i].old) EXCEPT
                           ![m] = [state |-> "active", content |-> t]]
          /\ t <= doc.content /\ \A n \in Active : chunks[n].content <= t
      BY <1>t, <1>3, <2>0 DEF StoreChunks, AloneInv, GenerationInv, OrderInv, IndexerType, Contents
    <2>2. chunks'[m].state = "active" /\ chunks'[m].content = t
      BY <2>1 DEF Deactivated
    <2>3. ASSUME NEW n \in Runs \ {m} PROVE chunks'[n].state # "active"
      <3>1. chunks'[n] = Deactivated(indexer[i].old)[n]  BY <2>1 DEF Deactivated
      <3>2. CASE n \in indexer[i].old
        <4>1. chunks'[n] = [chunks[n] EXCEPT !.state = "inactive"]
          BY <3>1, <3>2 DEF Deactivated
        <4>2. chunks[n] \in ChunkType  BY <1>t
        <4>3. QED  BY <4>1, <4>2 DEF ChunkType
      <3>3. CASE n \notin indexer[i].old
        <4>1. chunks'[n] = chunks[n]  BY <3>1, <3>3 DEF Deactivated
        <4>2. n \notin Active  BY <2>1, <3>3
        <4>3. QED  BY <4>1, <4>2 DEF Active
      <3>4. QED  BY <3>2, <3>3
    <2>4. Active' = {m} /\ Served' = {t}  BY <2>1, <2>2, <2>3 DEF Active, Served
    <2>5. \A s \in Served : s <= t  BY <2>1 DEF Served
    <2>6. Life!Publish(t)
      BY <1>1, <2>4, <2>5 DEF Life!Publish, Served
    <2>7. t \in 0 .. doc.content  BY <1>t, <2>1
    <2>8. Life!Next
      <3>1. \E s \in 0 .. doc.content : Life!Publish(s)  BY <2>6, <2>7
      <3>2. QED  BY <3>1 DEF Life!Next
    <2>9. \A j \in Indexers : indexer'[j].pc \notin {"loaded", "cleared", "deactivated"}
      BY <1>t, <1>3 DEF StoreChunks, Goto, IndexerType
    <2>10. OrderInv'  BY <1>1, <2>1, <2>2, <2>4, <2>9 DEF OrderInv
    <2>11. QED  BY <1>2, <2>8, <2>10
  <1>4. CASE ~StoreChunks(i)
    <2>1. chunks' = chunks  BY <1>4 DEF StartIndexing, DeletePoints, Deactivate, Upsert
    <2>2. Active' = Active /\ Served' = Served  BY <2>1 DEF Active, Served
    <2>3. /\ \A j \in Indexers \ {i} : indexer'[j].pc = "idle"
          /\ indexer'[i].pc \in {"loaded", "cleared", "deactivated"} =>
                \/ indexer'[i].content = doc.content
                \/ /\ indexer[i].pc \in {"loaded", "cleared", "deactivated"}
                   /\ indexer'[i].content = indexer[i].content
      <3>1. CASE StartIndexing(i)  BY <1>t, <3>1 DEF StartIndexing
      <3>2. CASE DeletePoints(i)
        BY <1>t, <3>2 DEF DeletePoints, Goto, Finish, Idle, IndexerType
      <3>3. CASE Deactivate(i)  BY <1>t, <3>3 DEF Deactivate, IndexerType
      <3>4. CASE Upsert(i)  BY <1>t, <3>4 DEF Upsert, Finish, Idle
      <3>5. QED  BY <1>4, <3>1, <3>2, <3>3, <3>4
    <2>4. OrderInv'  BY <1>1, <1>t, <2>1, <2>2, <2>3 DEF OrderInv
    <2>5. QED  BY <1>1, <1>2, <2>2, <2>4, LifeRests
  <1>5. QED  BY <1>3, <1>4

\* A step of a request alone, by what it reads.
LEMMA RequestLife ==
    ASSUME TypeOK, AloneInv, StepInv, OrderInv, NEW r \in Requests,
           \A q \in Requests \ {r} : request[q].op = "none",
           \/ \E status \in {"draft", "review"} : ReadForUpdate(r, status)
           \/ ReadForPatch(r, "review")
           \/ ReadForApprove(r) \/ ReadForDelete(r) \/ ReadForSync(r) \/ Commit(r)
    PROVE  StepInv' /\ OrderInv' /\ [Life!Next]_(Life!life)
  <1>t. doc \in Row  BY DEF TypeOK
  <1>1. ASSUME NEW s \in {"draft", "review"}, ReadForUpdate(r, s)
        PROVE  StepInv' /\ OrderInv' /\ UNCHANGED Life!life
    <2> DEFINE row == [doc EXCEPT !.content = edits + 1, !.status = s, !.approver = None,
                                  !.version = @ + 1]
    <2>1. Read(r, "update", row) /\ edits' = edits + 1  BY <1>1 DEF ReadForUpdate
    <2>2. row.content = edits + 1 /\ row.version = doc.version + 1  BY <1>t DEF Row
    <2> HIDE DEF row
    <2>3. QED  BY <2>1, <2>2, ReadLife DEF Writes
  <1>2. CASE ReadForPatch(r, "review")
    <2> DEFINE row == [doc EXCEPT !.status = "review"]
    <2>1. row.content = doc.content /\ row.version = doc.version /\ row.status = "review"
      BY <1>t DEF Row
    <2>2. Read(r, "patch", row) /\ edits' = edits  BY <1>2 DEF ReadForPatch
    <2> HIDE DEF row
    <2>3. QED  BY <2>1, <2>2, ReadLife DEF Writes
  <1>3. CASE ReadForApprove(r)
    <2> DEFINE row == [doc EXCEPT !.status = "approved", !.approver = r]
    <2>1. row.content = doc.content /\ row.version = doc.version  BY <1>t DEF Row
    <2>2. /\ Read(r, "approve", row) /\ edits' = edits /\ doc.status \in {"draft", "review"}
      BY <1>3 DEF ReadForApprove
    <2> HIDE DEF row
    <2>3. QED  BY <2>1, <2>2, ReadLife DEF Writes
  <1>4. CASE ReadForDelete(r)
    <2> DEFINE row == [doc EXCEPT !.deleted = TRUE, !.status = "archived"]
    <2>1. row.content = doc.content /\ row.version = doc.version  BY <1>t DEF Row
    <2>2. Read(r, "delete", row) /\ edits' = edits  BY <1>4 DEF ReadForDelete
    <2> HIDE DEF row
    <2>3. QED  BY <2>1, <2>2, ReadLife DEF Writes
  <1>5. CASE ReadForSync(r)
    <2> DEFINE row == [doc EXCEPT !.content = edits + 1]
    <2>1. Read(r, "sync", row) /\ edits' = edits + 1  BY <1>5 DEF ReadForSync
    <2>2. row.content = edits + 1 /\ row.version = doc.version  BY <1>t DEF Row
    <2> HIDE DEF row
    <2>3. QED  BY <2>1, <2>2, ReadLife DEF Writes
  <1>6. CASE Commit(r)  BY <1>6, CommitLife
  <1>7. QED  BY <1>1, <1>2, <1>3, <1>4, <1>5, <1>6

-----------------------------------------------------------------------------
(* Both ways requests come                                                 *)

MCInv == TypeOK /\ (alone => AloneInv /\ StepInv /\ OrderInv)

LEMMA MCStepInv ==
    MCInv /\ [MCNext]_mcVars => MCInv' /\ (alone => [Life!Next]_(Life!life))
  <1> SUFFICES ASSUME MCInv, [MCNext]_mcVars
               PROVE  MCInv' /\ (alone => [Life!Next]_(Life!life))
    OBVIOUS
  <1>1. CASE alone /\ MCNext
    <2>1. OneAtATime /\ alone' = alone  BY <1>1 DEF MCNext
    <2>2. [AnyNext]_vars
      BY <2>1 DEF OneAtATime, AnyNext, AnyRequestStep, IndexerStep, Statuses
    <2>3. TypeOK'  BY <2>2, AnyTypeStep DEF MCInv
    <2>4. TypeOK /\ AloneInv /\ StepInv /\ OrderInv  BY <1>1 DEF MCInv
    <2>5. AloneInv'  BY <2>1, <2>4, RequestAlone, IndexerAlone DEF OneAtATime
    <2>6. StepInv' /\ OrderInv' /\ [Life!Next]_(Life!life)
      BY <2>1, <2>4, RequestLife, IndexerLife DEF OneAtATime
    <2>7. QED  BY <2>1, <2>3, <2>5, <2>6 DEF MCInv
  <1>2. CASE ~alone /\ MCNext
    <2>1. [Next]_vars /\ alone' = alone  BY <1>2 DEF MCNext, Race
    <2>2. QED  BY <1>2, <2>1, TypeStep DEF MCInv
  <1>3. CASE UNCHANGED mcVars
    <2>1. [Next]_vars /\ alone' = alone /\ UNCHANGED vars  BY <1>3 DEF mcVars
    <2>2. TypeOK'  BY <2>1, TypeStep DEF MCInv
    <2>3. AloneInv => AloneInv'
      BY <2>1 DEF vars, AloneInv, ApartInv, IntentInv, GenerationInv, OneGeneration, Active,
                  ApprovedIsReviewed
    <2>4. StepInv /\ OrderInv => StepInv' /\ OrderInv'
      BY <2>1 DEF vars, StepInv, OrderInv, Active
    <2>5. UNCHANGED Life!life
      <3>1. doc' = doc /\ Served' = Served  BY <2>1 DEF vars, Served, Active
      <3>2. QED  BY <3>1, LifeRests
    <2>6. QED  BY <2>1, <2>2, <2>3, <2>4, <2>5 DEF MCInv
  <1>4. QED  BY <1>1, <1>2, <1>3

LEMMA MCInitInv == MCInit => MCInv /\ (alone => Life!Init)
  BY TypeInit, AloneInit, LifeStarts DEF MCInit, MCInv

\* As long as requests and runs of the indexer do not overlap, what is approved
\* is what an admin saw or the store delivered, and answers never mix two
\* contents: for any number of users, edits, syncs and runs.
THEOREM ReviewedWhenAlone == MCSpec => []ReviewedAlone
  <1>1. MCInv => ReviewedAlone  BY DEF MCInv, AloneInv, GenerationInv, ReviewedAlone
  <1>2. QED  BY <1>1, MCInitInv, MCStepInv, PTL DEF MCSpec

\* ... and rows, chunks, requests and runs of the indexer implement DocumentLife:
\* no request and no run brings an archived document back, every edit takes the
\* approval away, and customers are answered from one revision at a time, replaced
\* by later ones only.
THEOREM DocumentsHaveOneLife == MCSpec => LifeAlone
  <1>1. MCInv /\ [MCNext]_mcVars => [alone => [Life!Next]_(Life!life)]_mcVars
    BY MCStepInv
  <1>2. QED  BY <1>1, MCInitInv, MCStepInv, PTL DEF MCSpec, LifeAlone
=============================================================================
