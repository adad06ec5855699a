--------------------------- MODULE MCKnowledgeBase ---------------------------
(* Two requests and two runs of the indexer over a document a store sync      *)
(* keeps up to date: either they race, with statuses patched at will and      *)
(* every fault, or one of each is at work and nobody patches to approved.     *)
EXTENDS KnowledgeBase, TLC

CONSTANTS
    r1, r2, i1, i2,
    RaceEdits,      \* bound: contents submitted when they race
    RaceRuns        \* bound: runs of the indexer when they race

VARIABLE alone      \* one request and one run of the indexer at a time

mcVars == <<vars, alone>>

MCSymmetry == Permutations(Requests) \cup Permutations(Indexers)

Race == Next /\ edits' <= RaceEdits /\ runs' <= RaceRuns

OneAtATime ==
    \/ \E r \in Requests :
          /\ \A q \in Requests \ {r} : request[q].op = "none"
          /\ \/ \E status \in {"draft", "review"} : ReadForUpdate(r, status)
             \/ ReadForPatch(r, "review")
             \/ ReadForApprove(r) \/ ReadForDelete(r) \/ ReadForSync(r) \/ Commit(r)
    \/ \E i \in Indexers :
          /\ \A j \in Indexers \ {i} : indexer[j].pc = "idle"
          /\ \/ StartIndexing(i) \/ DeletePoints(i) \/ Deactivate(i)
             \/ StoreChunks(i) \/ Upsert(i)

MCInit == Init /\ alone \in BOOLEAN
MCNext == (IF alone THEN OneAtATime ELSE Race) /\ UNCHANGED alone
MCSpec == MCInit /\ [][MCNext]_mcVars

\* With one request and one run of the indexer at a time: what is approved is
\* what an admin saw or the store delivered (comment in update_document), and
\* answers never mix two contents.
ReviewedAlone == alone => ApprovedIsReviewed /\ OneGeneration

\* The row and the chunks, as staff and customers see them.
Life == INSTANCE DocumentLife
        WITH FirstStage <- NewDocument.status,
             stage <- doc.status, text <- doc.content, version <- doc.version,
             served <- {chunks[n].content : n \in Active}

\* ... and the document has the life of DocumentLife: an edit takes its approval
\* away and makes a version, archived is its end, and what customers are answered
\* from is one revision, replaced by a later one only.
LifeAlone ==
    /\ alone => Life!Init
    /\ [][alone => [Life!Next]_(Life!life)]_mcVars
=============================================================================
