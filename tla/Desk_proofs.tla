---------------------------- MODULE Desk_proofs ----------------------------
(***************************************************************************)
(* The agents' desk.  First the conversations: message counts and the       *)
(* escalation queue, for any number of concurrent turns and agents, and      *)
(* what one turn and one agent at a time keep of them.  Then the agents'     *)
(* sockets: who is told, for any tabs, requests and order of awaits.         *)
(***************************************************************************)
EXTENDS MCConversations, AgentSockets, FiniteSetTheorems, SequenceTheorems, TLAPS

ConvType == [status : {"none", "active", "waiting_agent", "resolved"},
             count : Nat, at : Nat, recent : BOOLEAN]

EventType == [status : {"none", "pending", "accepted", "resolved"},
              conv : Ids \cup {0}, by : Agents \cup {NoOne}]

-----------------------------------------------------------------------------
(* Type correctness                                                        *)

LEMMA TypeInit == Init => TypeOK
  BY ConversationsAssumption
     DEF Init, TypeOK, NoConv, NoEvent, NoTurn, NoRequest, Ids

\* What a turn is about to write is a conversation.
LEMMA WrittenType ==
    ASSUME TypeOK, NEW w \in Workers, turn[w].pc = "answering",
           NEW s \in {"active", "waiting_agent"}, NEW k \in {0, 2}
    PROVE  Written(w, s, k) \in ConvType
  <1>1. turn[w].conv \in Ids /\ turn[w].count \in Nat /\ clock \in Nat
    BY DEF TypeOK
  <1>2. conv[turn[w].conv].status \in {"none", "active", "waiting_agent", "resolved"}
    BY <1>1 DEF TypeOK
  <1>3. QED  BY <1>1, <1>2 DEF Written, ConvType

LEMMA CommitType ==
    ASSUME TypeOK, NEW w \in Workers, NEW c, NEW k \in {0, 2},
           turn[w].pc = "answering" =>
              c \in ConvType,
           Commit(w, c, k),
           customer' \in [present : BOOLEAN, total : Nat],
           textTurns' \in Nat,
           event' \in [Ids -> EventType]
    PROVE  TypeOK'
  <1>1. turn[w].conv \in Ids /\ turn[w].pc = "answering"  BY DEF TypeOK, Commit
  <1>2. conv' \in [Ids -> ConvType]
    BY <1>1 DEF TypeOK, Commit, ConvType
  <1>3. rows' \in [Ids -> Nat]  BY <1>1 DEF TypeOK, Commit
  <1>4. turn' \in [Workers -> [pc : {"idle", "new", "known", "loaded", "answering"},
                               id : Ids \cup {0}, total : Nat,
                               conv : Ids \cup {0}, count : Nat]]
        /\ \A v \in Workers : /\ turn'[v].pc # "idle" => turn'[v].id \in Ids
                              /\ turn'[v].pc \in {"loaded", "answering"} => turn'[v].conv \in Ids
    BY DEF TypeOK, Commit, NoTurn
  <1>5. lock' \in Workers \cup {NoOne} /\ clock' \in Nat
        /\ UNCHANGED <<agent, assignee, accepted, started>>
    BY DEF TypeOK, Commit
  <1>6. QED  BY <1>2, <1>3, <1>4, <1>5 DEF TypeOK, ConvType, EventType

TurnType == [pc : {"idle", "new", "known", "loaded", "answering"},
             id : Ids \cup {0}, total : Nat, conv : Ids \cup {0}, count : Nat]

\* A step that only moves one turn, and perhaps the lock.
LEMMA TurnKeepsType ==
    ASSUME TypeOK, NEW w \in Workers, NEW r \in TurnType,
           r.pc # "idle" => r.id \in Ids,
           r.pc \in {"loaded", "answering"} => r.conv \in Ids,
           turn' = [turn EXCEPT ![w] = r], lock' \in Workers \cup {NoOne},
           UNCHANGED <<dbVars, agent, textTurns, accepted, clock>>,
           started' \in [turns : 0 .. MaxTurns, requests : 0 .. MaxRequests]
    PROVE  TypeOK'
  BY DEF TypeOK, TurnType, dbVars

\* A step of an agent that ends its request.
LEMMA FinishKeepsType ==
    ASSUME TypeOK, NEW a \in Agents, Finish(a),
           conv' \in [Ids -> ConvType],
           event' \in [Ids -> EventType],
           assignee' \in [Ids -> Agents \cup {NoOne}],
           rows' \in [Ids -> Nat], accepted' \in [Ids -> Nat], clock' \in Nat
    PROVE  TypeOK'
  BY DEF TypeOK, Finish, NoRequest, ConvType, EventType

LEMMA BeginType ==
    ASSUME TypeOK, NEW a \in Agents,
           NEW r \in [op : {"none", "accept", "resolve", "reply"}, target : Ids,
                      status : {"none", "active", "waiting_agent", "resolved"}, count : Nat],
           Begin(a, r)
    PROVE  TypeOK'
  BY ConversationsAssumption DEF TypeOK, Begin, dbVars

LEMMA TypeStep == TypeOK /\ [Next]_vars => TypeOK'
  <1> SUFFICES ASSUME TypeOK, [Next]_vars PROVE TypeOK'  OBVIOUS
  <1> USE DEF dbVars
  <1>0. /\ conv \in [Ids -> ConvType] /\ event \in [Ids -> EventType]
        /\ assignee \in [Ids -> Agents \cup {NoOne}]
        /\ rows \in [Ids -> Nat] /\ accepted \in [Ids -> Nat] /\ clock \in Nat
    BY DEF TypeOK, ConvType, EventType
  <1>1. ASSUME NEW w \in Workers, SelectCustomer(w) PROVE TypeOK'
    <2>1. started.turns \in 0 .. MaxTurns /\ started.turns < MaxTurns
          /\ customer.present \in BOOLEAN /\ customer.total \in Nat
      BY <1>1 DEF SelectCustomer, TypeOK
    <2>2. started.turns + 1 \in Ids /\ started.turns + 1 \in 0 .. MaxTurns
      BY <2>1, ConversationsAssumption DEF Ids
    <2>3. started' \in [turns : 0 .. MaxTurns, requests : 0 .. MaxRequests]
      BY <1>1, <2>2 DEF SelectCustomer, TypeOK
    <2> DEFINE r == [NoTurn EXCEPT !.pc = IF customer.present THEN "known" ELSE "new",
                                   !.id = started.turns + 1, !.total = customer.total]
    <2>4. r \in TurnType /\ r.id \in Ids /\ r.pc \in {"known", "new"}
      BY <2>1, <2>2 DEF NoTurn, TurnType
    <2>5. /\ turn' = [turn EXCEPT ![w] = r] /\ lock' \in Workers \cup {NoOne}
          /\ UNCHANGED <<dbVars, agent, textTurns, accepted, clock>>
      BY <1>1 DEF SelectCustomer, TypeOK
    <2> HIDE DEF r
    <2>6. QED  BY <2>3, <2>4, <2>5, TurnKeepsType
  <1>2. ASSUME NEW w \in Workers, InsertCustomer(w) \/ LockCustomer(w) PROVE TypeOK'
    <2>1. turn[w] \in TurnType /\ started \in [turns : 0 .. MaxTurns, requests : 0 .. MaxRequests]
      BY DEF TypeOK, TurnType
    <2>2. PICK l \in {"known", "answering"} :
             /\ turn' = [turn EXCEPT ![w] = [turn[w] EXCEPT !.pc = l]]
             /\ l = "answering" => turn[w].pc = "loaded"
             /\ turn[w].pc # "idle" /\ lock' = w
             /\ UNCHANGED <<dbVars, agent, textTurns, accepted, started, clock>>
      BY <1>2 DEF InsertCustomer, LockCustomer
    <2> DEFINE r == [turn[w] EXCEPT !.pc = l]
    <2>3. r \in TurnType /\ r.id = turn[w].id /\ r.conv = turn[w].conv /\ r.pc = l
      BY <2>1 DEF TurnType
    <2>4. turn[w].id \in Ids /\ (l = "answering" => turn[w].conv \in Ids)
      BY <2>2 DEF TypeOK
    <2>5. turn' = [turn EXCEPT ![w] = r]  BY <2>2
    <2> HIDE DEF r
    <2>6. QED  BY <2>1, <2>2, <2>3, <2>4, <2>5, TurnKeepsType
  <1>17. ASSUME NEW w \in Workers, CustomerExists(w) \/ FailTurn(w) PROVE TypeOK'
    <2>1. NoTurn \in TurnType /\ NoTurn.pc = "idle"  BY DEF NoTurn, TurnType
    <2>2. /\ turn' = [turn EXCEPT ![w] = NoTurn] /\ lock' \in Workers \cup {NoOne}
          /\ UNCHANGED <<dbVars, agent, textTurns, accepted, started, clock>>
          /\ started' \in [turns : 0 .. MaxTurns, requests : 0 .. MaxRequests]
      BY <1>17 DEF CustomerExists, FailTurn, TypeOK
    <2>3. QED  BY <2>1, <2>2, TurnKeepsType
  <1>3. ASSUME NEW w \in Workers, SelectConversation(w) PROVE TypeOK'
    <2>1. PICK c \in Ids :
             turn' = [turn EXCEPT ![w] =
                         [turn[w] EXCEPT !.pc = "loaded", !.conv = c, !.count = conv[c].count]]
      BY <1>3 DEF SelectConversation
    <2> DEFINE r == [turn[w] EXCEPT !.pc = "loaded", !.conv = c, !.count = conv[c].count]
    <2>2. turn[w] \in TurnType /\ conv[c].count \in Nat /\ turn[w].id \in Ids
      BY <1>3 DEF TypeOK, SelectConversation, TurnType
    <2>3. r \in TurnType /\ r.id = turn[w].id /\ r.conv = c
      BY <2>2 DEF TurnType
    <2>4. /\ turn' = [turn EXCEPT ![w] = r] /\ lock' \in Workers \cup {NoOne}
          /\ UNCHANGED <<dbVars, agent, textTurns, accepted, clock>>
          /\ started' \in [turns : 0 .. MaxTurns, requests : 0 .. MaxRequests]
      BY <1>3, <2>1 DEF SelectConversation, TypeOK
    <2> HIDE DEF r
    <2>5. QED  BY <2>2, <2>3, <2>4, TurnKeepsType
  <1>4. ASSUME NEW w \in Workers, CommitAnswer(w) PROVE TypeOK'
    <2>1. turn[w].total \in Nat /\ textTurns \in Nat  BY DEF TypeOK
    <2>2. customer' \in [present : BOOLEAN, total : Nat] /\ textTurns' \in Nat
      BY <1>4, <2>1 DEF CommitAnswer
    <2>3. event' \in [Ids -> EventType]  BY <1>0, <1>4 DEF CommitAnswer
    <2>4. Commit(w, Written(w, "active", 2), 2)  BY <1>4 DEF CommitAnswer
    <2>5. QED  BY <2>2, <2>3, <2>4, WrittenType, CommitType
  <1>5. ASSUME NEW w \in Workers, CommitEscalation(w) PROVE TypeOK'
    <2>1. turn[w].total \in Nat /\ textTurns \in Nat /\ turn[w].conv \in Ids \cup {0}
      BY DEF TypeOK
    <2>2. customer' \in [present : BOOLEAN, total : Nat] /\ textTurns' \in Nat
      BY <1>5, <2>1 DEF CommitEscalation
    <2>3. [status |-> "pending", conv |-> turn[w].conv, by |-> NoOne] \in EventType
      BY <2>1 DEF EventType
    <2>4. event' \in [Ids -> EventType]  BY <1>0, <1>5, <2>3 DEF CommitEscalation
    <2>5. Commit(w, Written(w, "waiting_agent", 2), 2)  BY <1>5 DEF CommitEscalation
    <2>6. QED  BY <2>2, <2>4, <2>5, WrittenType, CommitType
  <1>6. ASSUME NEW w \in Workers, CommitImage(w) PROVE TypeOK'
    <2>1. customer' \in [present : BOOLEAN, total : Nat] /\ textTurns' \in Nat
      BY <1>6 DEF CommitImage, TypeOK
    <2>2. event' \in [Ids -> EventType]  BY <1>0, <1>6 DEF CommitImage
    <2>3. Commit(w, Written(w, "active", 2), 2)  BY <1>6 DEF CommitImage
    <2>4. QED  BY <2>1, <2>2, <2>3, WrittenType, CommitType
  <1>7. ASSUME NEW w \in Workers, CommitFallback(w) PROVE TypeOK'
    <2>1. customer' \in [present : BOOLEAN, total : Nat] /\ textTurns' \in Nat
      BY <1>7 DEF CommitFallback, TypeOK
    <2>2. event' \in [Ids -> EventType]  BY <1>0, <1>7 DEF CommitFallback
    <2>3. turn[w].pc = "answering" =>
             conv[turn[w].conv] \in ConvType /\ Written(w, "active", 0) \in ConvType
      BY <1>0, WrittenType DEF TypeOK
    <2> DEFINE c == IF turn[w].conv = turn[w].id THEN Written(w, "active", 0)
                    ELSE conv[turn[w].conv]
    <2>4. Commit(w, c, 2)  BY <1>7 DEF CommitFallback
    <2>5. turn[w].pc = "answering" => c \in ConvType  BY <2>3
    <2> HIDE DEF c
    <2>6. QED  BY <2>1, <2>2, <2>4, <2>5, CommitType
  <1>9. ASSUME NEW a \in Agents, NEW id \in Ids,
               ReadForAccept(a, id) \/ ReadForResolve(a, id) \/ ReadForReply(a, id)
        PROVE  TypeOK'
    BY <1>9, BeginType DEF ReadForAccept, ReadForResolve, ReadForReply, NoRequest, TypeOK
  <1>10. ASSUME NEW a \in Agents, Accept(a) PROVE TypeOK'
    <2> DEFINE t == agent[a].target
               r == [event[t] EXCEPT !.status = "accepted", !.by = a]
    <2>1. t \in Ids  BY <1>10 DEF Accept, TypeOK
    <2>2. event[t] \in EventType  BY <1>0, <2>1
    <2>3. r \in EventType  BY <2>2 DEF EventType
    <2>4. event' = [event EXCEPT ![t] = r] /\ accepted' = [accepted EXCEPT ![t] = @ + 1]
      BY <1>10 DEF Accept
    <2> HIDE DEF r
    <2>5. event' \in [Ids -> EventType]  BY <1>0, <2>3, <2>4
    <2>6. accepted' \in [Ids -> Nat]  BY <1>0, <2>1, <2>4
    <2>7. assignee' \in [Ids -> Agents \cup {NoOne}]  BY <1>0, <1>10 DEF Accept
    <2>8. QED  BY <1>0, <1>10, <2>5, <2>6, <2>7, FinishKeepsType DEF Accept
  <1>11. ASSUME NEW a \in Agents, Resolve(a) PROVE TypeOK'
    <2>1. \A e \in Ids : [event[e] EXCEPT !.status = "resolved"] \in EventType
      BY <1>0 DEF EventType
    <2>2. \A c \in Ids : [conv[c] EXCEPT !.status = "resolved"] \in ConvType
      BY <1>0 DEF ConvType
    <2>3. event' \in [Ids -> EventType]  BY <1>0, <1>11, <2>1 DEF Resolve
    <2>4. conv' \in [Ids -> ConvType]  BY <1>0, <1>11, <2>2 DEF Resolve
    <2>5. QED  BY <1>0, <1>11, <2>3, <2>4, FinishKeepsType DEF Resolve
  <1>12. ASSUME NEW a \in Agents, Reply(a) PROVE TypeOK'
    <2>1. agent[a].target \in Ids /\ agent[a].count \in Nat /\ clock \in Nat
      BY <1>12 DEF Reply, TypeOK
    <2>2. conv[agent[a].target].status \in {"none", "active", "waiting_agent", "resolved"}
      BY <1>0, <2>1 DEF ConvType
    <2>3. PICK s \in {"none", "active", "waiting_agent", "resolved"} :
             conv' = [conv EXCEPT ![agent[a].target] =
                         [status |-> s, count |-> agent[a].count + 1,
                          at |-> clock + 1, recent |-> TRUE]]
      BY <1>12, <2>2 DEF Reply
    <2>4. [status |-> s, count |-> agent[a].count + 1, at |-> clock + 1, recent |-> TRUE]
             \in ConvType
      BY <2>1 DEF ConvType
    <2>5. conv' \in [Ids -> ConvType]  BY <1>0, <2>3, <2>4
    <2>6. rows' \in [Ids -> Nat]  BY <1>0, <1>12, <2>1 DEF Reply
    <2>7. clock' \in Nat /\ UNCHANGED <<assignee, event, accepted>>  BY <1>0, <1>12 DEF Reply
    <2>8. Finish(a)  BY <1>12 DEF Reply
    <2>9. QED  BY <1>0, <2>5, <2>6, <2>7, <2>8, FinishKeepsType
  <1>13. ASSUME NEW a \in Agents, NEW c \in Ids, Patch(a, c) PROVE TypeOK'
    <2>1. \A s \in PatchTo : s \in {"none", "active", "waiting_agent", "resolved"}
      BY ConversationsAssumption
    <2>2. \A s \in PatchTo : [conv[c] EXCEPT !.status = s] \in ConvType
      BY <1>0, <2>1 DEF ConvType
    <2>3. \/ assignee' = assignee /\ \E s \in PatchTo :
                conv' = [conv EXCEPT ![c] = [conv[c] EXCEPT !.status = s]]
          \/ conv' = conv /\ \E b \in Agents : assignee' = [assignee EXCEPT ![c] = b]
      BY <1>13 DEF Patch
    <2>4. conv' \in [Ids -> ConvType] /\ assignee' \in [Ids -> Agents \cup {NoOne}]
      BY <1>0, <2>2, <2>3
    <2>5. started' \in [turns : 0 .. MaxTurns, requests : 0 .. MaxRequests]
      BY <1>13, ConversationsAssumption DEF Patch, TypeOK
    <2>6. QED  BY <1>13, <2>4, <2>5 DEF Patch, TypeOK, ConvType
  <1>14. ASSUME NEW c \in Ids, LeaveWindow(c) PROVE TypeOK'
    <2>1. \A d \in Ids : [conv[d] EXCEPT !.recent = FALSE] \in ConvType
      BY <1>0 DEF ConvType
    <2>2. conv' \in [Ids -> ConvType]  BY <1>0, <1>14, <2>1 DEF LeaveWindow
    <2>3. QED  BY <1>14, <2>2 DEF LeaveWindow, TypeOK, ConvType
  <1>15. CASE UNCHANGED vars  BY <1>15 DEF vars, TypeOK
  <1>16. QED
    BY <1>1, <1>2, <1>3, <1>4, <1>5, <1>6, <1>7, <1>17, <1>9, <1>10, <1>11, <1>12,
       <1>13, <1>14, <1>15 DEF Next, WorkerStep, AgentStep

\* Every reachable state is well typed.
THEOREM TypeCorrect == Spec => []TypeOK
  BY TypeInit, TypeStep, PTL DEF Spec

-----------------------------------------------------------------------------
(* Counters                                                                *)

\* What a transaction has loaded was true when it was loaded, and rows and turns
\* only grow.
LoadedInv ==
    /\ \A w \in Workers :
          /\ turn[w].pc # "idle" => turn[w].total <= textTurns
          /\ turn[w].pc \in {"loaded", "answering"} => turn[w].count <= rows[turn[w].conv]
    /\ \A a \in Agents : agent[a].op = "reply" => agent[a].count <= rows[agent[a].target]

CounterInv == LoadedInv /\ CountWithinRows /\ TotalWithinTurns

LEMMA CounterInit == Init => CounterInv
  BY DEF Init, CounterInv, LoadedInv, CountWithinRows, TotalWithinTurns,
         NoConv, NoTurn, NoRequest

\* Loaded values stay behind growing rows and turns.
LEMMA LoadedKeeps ==
    ASSUME TypeOK, TypeOK', CounterInv,
           \A c \in Ids : rows[c] <= rows'[c], textTurns <= textTurns',
           NEW w, \A v \in Workers \ {w} : turn'[v] = turn[v],
           w \in Workers => turn'[w] = NoTurn \/ turn'[w] = turn[w],
           NEW a, \A b \in Agents \ {a} : agent'[b] = agent[b],
           a \in Agents => agent'[a] = NoRequest \/ agent'[a] = agent[a]
    PROVE  LoadedInv'
  <1>1. ASSUME NEW v \in Workers, turn'[v].pc # "idle"
        PROVE  turn'[v].total <= textTurns'
    <2>1. turn'[v] = turn[v]  BY <1>1 DEF NoTurn
    <2>2. turn[v].total <= textTurns  BY <1>1, <2>1 DEF CounterInv, LoadedInv
    <2>3. QED  BY <2>1, <2>2 DEF TypeOK
  <1>2. ASSUME NEW v \in Workers, turn'[v].pc \in {"loaded", "answering"}
        PROVE  turn'[v].count <= rows'[turn'[v].conv]
    <2>1. turn'[v] = turn[v]  BY <1>2 DEF NoTurn
    <2>2. turn[v].count <= rows[turn[v].conv] /\ turn[v].conv \in Ids
      BY <1>2, <2>1 DEF CounterInv, LoadedInv, TypeOK
    <2>3. rows[turn[v].conv] \in Nat /\ rows'[turn[v].conv] \in Nat /\ turn[v].count \in Nat
      BY <2>2 DEF TypeOK
    <2>4. QED  BY <2>1, <2>2, <2>3
  <1>3. ASSUME NEW b \in Agents, agent'[b].op = "reply"
        PROVE  agent'[b].count <= rows'[agent'[b].target]
    <2>1. agent'[b] = agent[b]  BY <1>3 DEF NoRequest
    <2>2. agent[b].count <= rows[agent[b].target] /\ agent[b].target \in Ids
      BY <1>3, <2>1 DEF CounterInv, LoadedInv, TypeOK
    <2>3. rows[agent[b].target] \in Nat /\ rows'[agent[b].target] \in Nat /\ agent[b].count \in Nat
      BY <2>2 DEF TypeOK
    <2>4. QED  BY <2>1, <2>2, <2>3
  <1>4. QED  BY <1>1, <1>2, <1>3 DEF LoadedInv

\* The commit of a turn: two rows more, and a count of at most two more.
LEMMA CommitCounts ==
    ASSUME TypeOK, TypeOK', CounterInv, NEW w \in Workers, NEW c, Commit(w, c, 2),
           c.count <= rows[turn[w].conv] + 2,
           customer'.total <= textTurns', textTurns <= textTurns'
    PROVE  CounterInv'
  <1>1. turn[w].conv \in Ids /\ turn'[w] = NoTurn
        /\ \A v \in Workers \ {w} : turn'[v] = turn[v]
    BY DEF Commit, TypeOK
  <1>2. rows' = [rows EXCEPT ![turn[w].conv] = @ + 2] /\ rows \in [Ids -> Nat]
        /\ conv' = [conv EXCEPT ![turn[w].conv] = c] /\ UNCHANGED agent
    BY DEF Commit, TypeOK
  <1>3. \A d \in Ids : rows[d] <= rows'[d]  BY <1>1, <1>2
  <1>4. LoadedInv'
    BY <1>1, <1>2, <1>3, LoadedKeeps
  <1>5. CountWithinRows'
    BY <1>1, <1>2 DEF CounterInv, CountWithinRows, TypeOK
  <1>6. TotalWithinTurns'  BY DEF TotalWithinTurns
  <1>7. QED  BY <1>4, <1>5, <1>6 DEF CounterInv

LEMMA CounterStep == TypeOK /\ TypeOK' /\ CounterInv /\ [Next]_vars => CounterInv'
  <1> SUFFICES ASSUME TypeOK, TypeOK', CounterInv, [Next]_vars PROVE CounterInv'  OBVIOUS
  <1> USE DEF dbVars
  <1>0. rows \in [Ids -> Nat] /\ textTurns \in Nat  BY DEF TypeOK
  <1>1. ASSUME NEW w \in Workers, SelectCustomer(w) PROVE CounterInv'
    <2>1. /\ \A v \in Workers \ {w} : turn'[v] = turn[v]
          /\ turn'[w].total = customer.total /\ turn'[w].pc \in {"known", "new"}
          /\ UNCHANGED <<customer, conv, rows, agent, textTurns>>
      BY <1>1 DEF SelectCustomer, TypeOK, NoTurn
    <2>2. LoadedInv'  BY <2>1 DEF CounterInv, LoadedInv, TotalWithinTurns
    <2>3. QED  BY <2>1, <2>2 DEF CounterInv, CountWithinRows, TotalWithinTurns
  <1>2. ASSUME NEW w \in Workers,
               InsertCustomer(w) \/ CustomerExists(w) \/ LockCustomer(w) \/ FailTurn(w)
        PROVE  CounterInv'
    <2>1. /\ \A v \in Workers \ {w} : turn'[v] = turn[v]
          /\ UNCHANGED <<customer, conv, rows, agent, textTurns>>
          /\ \/ turn'[w] = NoTurn
             \/ /\ turn'[w].total = turn[w].total /\ turn'[w].count = turn[w].count
                /\ turn'[w].conv = turn[w].conv /\ turn[w].pc # "idle"
                /\ turn'[w].pc = "answering" => turn[w].pc = "loaded"
                /\ turn'[w].pc \in {"known", "answering"}
      BY <1>2 DEF InsertCustomer, CustomerExists, LockCustomer, FailTurn, TypeOK
    <2>2. LoadedInv'  BY <2>1 DEF CounterInv, LoadedInv, NoTurn
    <2>3. QED  BY <2>1, <2>2 DEF CounterInv, CountWithinRows, TotalWithinTurns
  <1>3. ASSUME NEW w \in Workers, SelectConversation(w) PROVE CounterInv'
    <2>1. PICK c \in Ids :
             turn' = [turn EXCEPT ![w] =
                         [turn[w] EXCEPT !.pc = "loaded", !.conv = c, !.count = conv[c].count]]
      BY <1>3 DEF SelectConversation
    <2> DEFINE r == [turn[w] EXCEPT !.pc = "loaded", !.conv = c, !.count = conv[c].count]
    <2>6. turn \in [Workers -> TurnType]  BY DEF TypeOK, TurnType
    <2>7. r.conv = c /\ r.count = conv[c].count /\ r.total = turn[w].total
      BY <2>6 DEF TurnType
    <2>8. turn' = [turn EXCEPT ![w] = r]  BY <2>1
    <2> HIDE DEF r
    <2>2. /\ \A v \in Workers \ {w} : turn'[v] = turn[v]
          /\ turn'[w].conv = c /\ turn'[w].count = conv[c].count
          /\ turn'[w].total = turn[w].total /\ turn[w].pc # "idle"
          /\ UNCHANGED <<customer, conv, rows, agent, textTurns>>
      BY <1>3, <2>6, <2>7, <2>8 DEF SelectConversation
    <2>3. conv[c].count <= rows[c]  BY DEF CounterInv, CountWithinRows
    <2>4. LoadedInv'  BY <2>2, <2>3 DEF CounterInv, LoadedInv
    <2>5. QED  BY <2>2, <2>4 DEF CounterInv, CountWithinRows, TotalWithinTurns
  <1>4. ASSUME NEW w \in Workers,
               CommitAnswer(w) \/ CommitEscalation(w) \/ CommitImage(w) \/ CommitFallback(w)
        PROVE  CounterInv'
    <2>1. turn[w].pc = "answering" /\ turn[w].conv \in Ids
      BY <1>4 DEF CommitAnswer, CommitEscalation, CommitImage, CommitFallback, Commit, TypeOK
    <2>2. /\ turn[w].count \in Nat /\ turn[w].total \in Nat /\ rows[turn[w].conv] \in Nat
          /\ turn[w].count <= rows[turn[w].conv] /\ turn[w].total <= textTurns
          /\ conv[turn[w].conv].count <= rows[turn[w].conv]
          /\ conv[turn[w].conv].count \in Nat
      BY <2>1 DEF CounterInv, LoadedInv, CountWithinRows, TypeOK
    <2>3. \A s, k : Written(w, s, k).count = turn[w].count + k  BY DEF Written
    <2>4. PICK c : Commit(w, c, 2) /\ c.count <= rows[turn[w].conv] + 2
      BY <1>4, <2>2, <2>3 DEF CommitAnswer, CommitEscalation, CommitImage, CommitFallback
    <2>5. customer'.total <= textTurns' /\ textTurns <= textTurns'
      <3>1. customer.total <= textTurns  BY DEF CounterInv, TotalWithinTurns
      <3>2. [customer EXCEPT !.present = TRUE].total = customer.total  BY DEF TypeOK
      <3>3. CASE CommitAnswer(w) \/ CommitEscalation(w)
        BY <1>0, <2>2, <3>3 DEF CommitAnswer, CommitEscalation
      <3>4. CASE CommitImage(w) \/ CommitFallback(w)
        <4>1. customer' = [customer EXCEPT !.present = TRUE] /\ textTurns' = textTurns
          BY <3>4 DEF CommitImage, CommitFallback
        <4>2. customer'.total = customer.total  BY <3>2, <4>1
        <4>3. QED  BY <1>0, <3>1, <4>1, <4>2
      <3>5. QED  BY <1>4, <3>3, <3>4
    <2>6. QED  BY <2>4, <2>5, CommitCounts
  <1>5. ASSUME NEW a \in Agents, NEW id \in Ids,
               ReadForAccept(a, id) \/ ReadForResolve(a, id) \/ ReadForReply(a, id)
        PROVE  CounterInv'
    <2>1. /\ \A b \in Agents \ {a} : agent'[b] = agent[b]
          /\ agent'[a].op = "reply" =>
                agent'[a].target = id /\ agent'[a].count = conv[id].count
          /\ UNCHANGED <<customer, conv, rows, turn, textTurns>>
      <3>1. PICK r : /\ agent' = [agent EXCEPT ![a] = r]
                     /\ r.op = "reply" => r.target = id /\ r.count = conv[id].count
        BY <1>5 DEF ReadForAccept, ReadForResolve, ReadForReply, Begin, NoRequest
      <3>2. UNCHANGED <<customer, conv, rows, turn, textTurns>>
        BY <1>5 DEF ReadForAccept, ReadForResolve, ReadForReply, Begin
      <3>3. QED  BY <3>1, <3>2 DEF TypeOK
    <2>2. LoadedInv'  BY <2>1 DEF CounterInv, LoadedInv, CountWithinRows
    <2>3. QED  BY <2>1, <2>2 DEF CounterInv, CountWithinRows, TotalWithinTurns
  <1>6. ASSUME NEW a \in Agents, Accept(a) \/ Resolve(a) PROVE CounterInv'
    <2>1. /\ \A b \in Agents \ {a} : agent'[b] = agent[b]
          /\ agent'[a] = NoRequest
          /\ UNCHANGED <<customer, rows, turn, textTurns>>
      BY <1>6 DEF Accept, Resolve, Finish, TypeOK
    <2>2. \A c \in Ids : conv'[c].count = conv[c].count
      <3>1. \A c \in Ids : [conv[c] EXCEPT !.status = "resolved"].count = conv[c].count
        BY DEF TypeOK
      <3>2. CASE Accept(a)  BY <3>2 DEF Accept
      <3>3. CASE Resolve(a)
        <4>1. conv \in [Ids -> ConvType]  BY DEF TypeOK, ConvType
        <4>2. conv' = [conv EXCEPT ![event[agent[a].target].conv] =
                          [conv[event[agent[a].target].conv] EXCEPT !.status = "resolved"]]
          BY <3>3 DEF Resolve
        <4>3. QED  BY <3>1, <4>1, <4>2
      <3>4. QED  BY <1>6, <3>2, <3>3
    <2>3. LoadedInv'  BY <2>1 DEF CounterInv, LoadedInv, NoRequest
    <2>4. QED  BY <2>1, <2>2, <2>3 DEF CounterInv, CountWithinRows, TotalWithinTurns
  <1>7. ASSUME NEW a \in Agents, Reply(a) PROVE CounterInv'
    <2>1. /\ \A b \in Agents \ {a} : agent'[b] = agent[b]
          /\ agent'[a] = NoRequest /\ UNCHANGED <<customer, turn, textTurns>>
          /\ agent[a].op = "reply" /\ agent[a].target \in Ids
          /\ rows' = [rows EXCEPT ![agent[a].target] = @ + 1]
      BY <1>7 DEF Reply, Finish, TypeOK
    <2>2. /\ conv'[agent[a].target].count = agent[a].count + 1
          /\ \A c \in Ids \ {agent[a].target} : conv'[c] = conv[c]
      BY <1>7, <2>1 DEF Reply, TypeOK
    <2>3. agent[a].count <= rows[agent[a].target] /\ agent[a].count \in Nat
      BY <2>1 DEF CounterInv, LoadedInv, TypeOK
    <2>4. LoadedInv'
      <3>1. \A c \in Ids : rows[c] <= rows'[c]  BY <1>0, <2>1
      <3>2. \A w \in Workers : turn'[w] = turn[w]  BY <2>1
      <3>3. QED  BY <1>0, <2>1, <3>1, <3>2, LoadedKeeps
    <2>5. CountWithinRows'
      BY <1>0, <2>1, <2>2, <2>3 DEF CounterInv, CountWithinRows
    <2>6. QED  BY <2>1, <2>4, <2>5 DEF CounterInv, TotalWithinTurns
  <1>8. ASSUME NEW c \in Ids, LeaveWindow(c) \/ \E a \in Agents : Patch(a, c)
        PROVE  CounterInv'
    <2>1. /\ UNCHANGED <<customer, rows, turn, agent, textTurns>>
          /\ \A d \in Ids : conv'[d].count = conv[d].count
      BY <1>8 DEF LeaveWindow, Patch, TypeOK
    <2>2. QED  BY <2>1 DEF CounterInv, LoadedInv, CountWithinRows, TotalWithinTurns
  <1>9. CASE UNCHANGED vars
    BY <1>9 DEF vars, CounterInv, LoadedInv, CountWithinRows, TotalWithinTurns
  <1>10. QED
    BY <1>1, <1>2, <1>3, <1>4, <1>5, <1>6, <1>7, <1>8, <1>9 DEF Next, WorkerStep, AgentStep

\* message_count never exceeds the messages of the conversation, for any number
\* of workers and agents that overwrite each other's counts.
THEOREM CountsNeverRunAhead == Spec => []CountWithinRows
  BY TypeInit, TypeStep, CounterInit, CounterStep, PTL DEF Spec, CounterInv

\* total_conversations never exceeds the committed text turns.
THEOREM TotalsNeverRunAhead == Spec => []TotalWithinTurns
  BY TypeInit, TypeStep, CounterInit, CounterStep, PTL DEF Spec, CounterInv

\* Neither count is ever ahead of what it counts.
THEOREM NoCountRunsAhead == Spec => []CountsNeverAhead
  BY CountsNeverRunAhead, TotalsNeverRunAhead, PTL DEF CountsNeverAhead

-----------------------------------------------------------------------------
(* The queue of escalations                                                *)

\* Every turn has an id of its own under which no event is stored yet.
TurnIds ==
    /\ \A w \in Workers : turn[w].pc # "idle" =>
          turn[w].id <= started.turns /\ event[turn[w].id].status = "none"
    /\ \A v, w \in Workers :
          turn[v].pc # "idle" /\ turn[w].pc # "idle" /\ turn[v].id = turn[w].id => v = w

\* Events belong to turns that have started, requests to events that exist.
EventIds ==
    /\ \A e \in Ids : event[e].status # "none" => e <= started.turns
    /\ \A a \in Agents : agent[a].op \in {"accept", "resolve"} =>
                            event[agent[a].target].status # "none"

\* WaitingIsQueued without its condition.
Queued ==
    \A c \in Ids : conv[c].status = "waiting_agent" =>
       \E e \in Ids : event[e].conv = c /\ event[e].status \in {"pending", "accepted"}

QueueInv == TurnIds /\ EventIds /\ Queued

LEMMA QueueInit == Init => QueueInv
  BY DEF Init, QueueInv, TurnIds, EventIds, Queued, NoConv, NoEvent, NoTurn, NoRequest

\* A step that starts no turn and sets no status of an event and none of a
\* conversation to waiting.
LEMMA QuietStep ==
    ASSUME TypeOK, QueueInv, event' = event, started.turns <= started'.turns,
           started'.turns \in Nat, started.turns \in Nat,
           \A w \in Workers : turn'[w].pc # "idle" =>
              turn[w].pc # "idle" /\ turn'[w].id = turn[w].id,
           \A a \in Agents : agent'[a].op \in {"accept", "resolve"} =>
              event[agent'[a].target].status # "none",
           \A c \in Ids : conv'[c].status = "waiting_agent" => conv[c].status = "waiting_agent"
    PROVE  QueueInv'
  <1>1. TurnIds'
    <2>1. ASSUME NEW w \in Workers, turn'[w].pc # "idle"
          PROVE  turn'[w].id <= started'.turns /\ event'[turn'[w].id].status = "none"
      <3>1. turn[w].id \in Ids /\ turn'[w].id = turn[w].id /\ turn[w].id <= started.turns
            /\ event[turn[w].id].status = "none"
        BY <2>1 DEF QueueInv, TurnIds, TypeOK
      <3>2. turn[w].id \in Nat  BY <3>1 DEF Ids
      <3>3. QED  BY <3>1, <3>2
    <2>2. QED  BY <2>1 DEF QueueInv, TurnIds
  <1>2. EventIds'
    <2>1. ASSUME NEW e \in Ids, event'[e].status # "none" PROVE e <= started'.turns
      <3>1. e \in Nat /\ e <= started.turns  BY <2>1 DEF QueueInv, EventIds, Ids
      <3>2. QED  BY <3>1
    <2>2. QED  BY <2>1 DEF EventIds
  <1>3. Queued'  BY DEF QueueInv, Queued
  <1>4. QED  BY <1>1, <1>2, <1>3 DEF QueueInv

\* What a turn that does not escalate writes waits only if it waited.
LEMMA WrittenActive ==
    ASSUME NEW w, NEW k
    PROVE  Written(w, "active", k).status = "waiting_agent" =>
              conv[turn[w].conv].status = "waiting_agent"
  BY DEF Written

LEMMA QueueStep ==
    ASSUME "waiting_agent" \notin PatchTo, TypeOK, TypeOK', QueueInv, [Next]_vars
    PROVE  QueueInv'
  <1> USE DEF dbVars
  <1>0. /\ conv \in [Ids -> ConvType] /\ event \in [Ids -> EventType]
        /\ started.turns \in Nat /\ started'.turns \in Nat
        /\ turn \in [Workers -> TurnType]
    BY ConversationsAssumption DEF TypeOK, ConvType, EventType, TurnType
  <1>a. \A a \in Agents : agent[a].op \in {"accept", "resolve"} =>
           event[agent[a].target].status # "none"
    BY DEF QueueInv, EventIds
  <1>1. ASSUME NEW w \in Workers, SelectCustomer(w) PROVE QueueInv'
    <2>1. /\ \A v \in Workers \ {w} : turn'[v] = turn[v]
          /\ turn'[w].id = started.turns + 1
          /\ UNCHANGED <<conv, event, agent>>
      BY <1>1, <1>0 DEF SelectCustomer, NoTurn
    <2>2. started'.turns = started.turns + 1
      BY <1>1 DEF SelectCustomer, TypeOK
    <2>3. started.turns + 1 \in Ids
      BY <1>1, <1>0, ConversationsAssumption DEF SelectCustomer, Ids
    <2>4. event[started.turns + 1].status = "none"
      BY <1>0, <2>3 DEF QueueInv, EventIds
    <2>5. ASSUME NEW v \in Workers \ {w}, turn'[v].pc # "idle"
          PROVE  /\ turn[v].pc # "idle" /\ turn'[v].id = turn[v].id /\ turn[v].id \in Nat
                 /\ turn[v].id <= started.turns /\ event[turn[v].id].status = "none"
      <3>1. turn'[v] = turn[v] /\ turn[v].pc # "idle"  BY <2>1, <2>5
      <3>2. turn[v].id \in Ids  BY <3>1 DEF TypeOK
      <3>3. turn[v].id <= started.turns /\ event[turn[v].id].status = "none"
        BY <3>1 DEF QueueInv, TurnIds
      <3>4. QED  BY <3>1, <3>2, <3>3 DEF Ids
    <2>6. \A v \in Workers : turn'[v].pc # "idle" =>
             turn'[v].id <= started'.turns /\ event'[turn'[v].id].status = "none"
      BY <1>0, <2>1, <2>2, <2>4, <2>5
    <2>7. \A u, v \in Workers :
             turn'[u].pc # "idle" /\ turn'[v].pc # "idle" /\ turn'[u].id = turn'[v].id => u = v
      BY <1>0, <2>1, <2>5 DEF QueueInv, TurnIds
    <2>8. EventIds'
      BY <1>0, <1>a, <2>1, <2>2 DEF QueueInv, EventIds, Ids
    <2>9. QED  BY <2>1, <2>6, <2>7, <2>8 DEF QueueInv, TurnIds, Queued
  <1>2. ASSUME NEW w \in Workers,
               InsertCustomer(w) \/ CustomerExists(w) \/ LockCustomer(w) \/ FailTurn(w)
               \/ SelectConversation(w)
        PROVE  QueueInv'
    <2>1. PICK r : /\ turn' = [turn EXCEPT ![w] = r]
                   /\ r = NoTurn \/ (r.id = turn[w].id /\ turn[w].pc # "idle")
      <3>1. ASSUME NEW p PROVE [turn[w] EXCEPT !.pc = p].id = turn[w].id
        BY <1>0 DEF TurnType
      <3>2. ASSUME NEW p, NEW c, NEW k
            PROVE  [turn[w] EXCEPT !.pc = p, !.conv = c, !.count = k].id = turn[w].id
        BY <1>0 DEF TurnType
      <3>3. CASE InsertCustomer(w)  BY <3>3, <3>1 DEF InsertCustomer
      <3>4. CASE LockCustomer(w)  BY <3>4, <3>1 DEF LockCustomer
      <3>5. CASE SelectConversation(w)
        <4>1. PICK c \in Ids :
                 turn' = [turn EXCEPT ![w] =
                             [turn[w] EXCEPT !.pc = "loaded", !.conv = c, !.count = conv[c].count]]
          BY <3>5 DEF SelectConversation
        <4>2. turn[w].pc # "idle"  BY <3>5 DEF SelectConversation
        <4> DEFINE q == [turn[w] EXCEPT !.pc = "loaded", !.conv = c, !.count = conv[c].count]
        <4>3. q.id = turn[w].id  BY <3>2
        <4>4. turn' = [turn EXCEPT ![w] = q]  BY <4>1
        <4> HIDE DEF q
        <4>5. QED  BY <4>2, <4>3, <4>4
      <3>6. CASE CustomerExists(w) \/ FailTurn(w)  BY <3>6 DEF CustomerExists, FailTurn
      <3>7. QED  BY <1>2, <3>3, <3>4, <3>5, <3>6
    <2>2. UNCHANGED <<conv, event, agent, started>>
      BY <1>2 DEF InsertCustomer, CustomerExists, LockCustomer, FailTurn, SelectConversation
    <2>3. \A v \in Workers : turn'[v].pc # "idle" =>
             turn[v].pc # "idle" /\ turn'[v].id = turn[v].id
      BY <1>0, <2>1 DEF NoTurn
    <2>4. QED  BY <1>0, <1>a, <2>2, <2>3, QuietStep
  <1>3. ASSUME NEW w \in Workers, CommitAnswer(w) \/ CommitImage(w) \/ CommitFallback(w)
        PROVE  QueueInv'
    <2>1. PICK c : Commit(w, c, 2)
                   /\ (c.status = "waiting_agent" => conv[turn[w].conv].status = "waiting_agent")
      BY <1>3, WrittenActive DEF CommitAnswer, CommitImage, CommitFallback
    <2>2. event' = event  BY <1>3 DEF CommitAnswer, CommitImage, CommitFallback
    <2>3. /\ UNCHANGED <<agent, started>> /\ turn' = [turn EXCEPT ![w] = NoTurn]
          /\ conv' = [conv EXCEPT ![turn[w].conv] = c]
      BY <2>1 DEF Commit
    <2>4. \A v \in Workers : turn'[v].pc # "idle" =>
             turn[v].pc # "idle" /\ turn'[v].id = turn[v].id
      BY <1>0, <2>3 DEF NoTurn
    <2>5. \A d \in Ids : conv'[d].status = "waiting_agent" => conv[d].status = "waiting_agent"
      BY <1>0, <2>1, <2>3
    <2>6. QED  BY <1>0, <1>a, <2>2, <2>3, <2>4, <2>5, QuietStep
  <1>4. ASSUME NEW w \in Workers, CommitEscalation(w) PROVE QueueInv'
    <2> DEFINE i == turn[w].id
               ev == [status |-> "pending", conv |-> turn[w].conv, by |-> NoOne]
    <2>1. /\ turn[w].pc = "answering" /\ turn' = [turn EXCEPT ![w] = NoTurn]
          /\ \A d \in Ids \ {turn[w].conv} : conv'[d] = conv[d]
          /\ UNCHANGED <<agent, started>>
          /\ event' = [event EXCEPT ![i] = ev]
      BY <1>0, <1>4 DEF CommitEscalation, Commit
    <2>2. /\ i \in Ids /\ turn[w].conv \in Ids
          /\ i <= started.turns /\ event[i].status = "none"
      BY <2>1 DEF TypeOK, QueueInv, TurnIds
    <2>3. ev.status = "pending" /\ ev.conv = turn[w].conv  OBVIOUS
    <2> HIDE DEF ev
    <2>4. event'[i] = ev /\ \A e \in Ids \ {i} : event'[e] = event[e]
      BY <1>0, <2>1, <2>2
    <2>5. \A v \in Workers : turn'[v].pc # "idle" => v # w /\ turn'[v] = turn[v]
      BY <1>0, <2>1 DEF NoTurn
    <2>6. \A v \in Workers : turn'[v].pc # "idle" => turn[v].id \in Ids \ {i}
      BY <2>1, <2>5 DEF TypeOK, QueueInv, TurnIds
    <2>7. TurnIds'
      BY <2>1, <2>4, <2>5, <2>6 DEF QueueInv, TurnIds
    <2>8. EventIds'
      BY <1>a, <2>1, <2>2, <2>3, <2>4 DEF QueueInv, EventIds, TypeOK
    <2>9. ASSUME NEW c \in Ids, conv'[c].status = "waiting_agent"
          PROVE  \E e \in Ids : event'[e].conv = c /\ event'[e].status \in {"pending", "accepted"}
      <3>1. CASE c = turn[w].conv  BY <2>2, <2>3, <2>4, <3>1
      <3>2. CASE c # turn[w].conv
        <4>1. conv[c].status = "waiting_agent"  BY <2>1, <2>9, <3>2
        <4>2. PICK e \in Ids : event[e].conv = c /\ event[e].status \in {"pending", "accepted"}
          BY <4>1 DEF QueueInv, Queued
        <4>3. e # i  BY <2>2, <4>2
        <4>4. QED  BY <2>4, <4>2, <4>3
      <3>3. QED  BY <3>1, <3>2
    <2>10. QED  BY <2>7, <2>8, <2>9 DEF QueueInv, Queued
  <1>5. ASSUME NEW a \in Agents, NEW id \in Ids,
               ReadForAccept(a, id) \/ ReadForResolve(a, id) \/ ReadForReply(a, id)
        PROVE  QueueInv'
    <2>1. PICK r : /\ agent' = [agent EXCEPT ![a] = r]
                   /\ r.op \in {"accept", "resolve"} => event[r.target].status # "none"
      <3>1. CASE ReadForAccept(a, id)
        <4> DEFINE r == [NoRequest EXCEPT !.op = "accept", !.target = id]
        <4>1. agent' = [agent EXCEPT ![a] = r] /\ event[id].status # "none"
          BY <3>1 DEF ReadForAccept, Begin
        <4>2. r.target = id  BY DEF NoRequest
        <4> HIDE DEF r
        <4>3. QED  BY <4>1, <4>2
      <3>2. CASE ReadForResolve(a, id)
        <4> DEFINE r == [NoRequest EXCEPT !.op = "resolve", !.target = id]
        <4>1. agent' = [agent EXCEPT ![a] = r] /\ event[id].status # "none"
          BY <3>2 DEF ReadForResolve, Begin
        <4>2. r.target = id  BY DEF NoRequest
        <4> HIDE DEF r
        <4>3. QED  BY <4>1, <4>2
      <3>3. CASE ReadForReply(a, id)
        <4> DEFINE r == [op |-> "reply", target |-> id,
                         status |-> conv[id].status, count |-> conv[id].count]
        <4>1. agent' = [agent EXCEPT ![a] = r]  BY <3>3 DEF ReadForReply, Begin
        <4>2. r.op = "reply"  OBVIOUS
        <4> HIDE DEF r
        <4>3. QED  BY <4>1, <4>2
      <3>4. QED  BY <1>5, <3>1, <3>2, <3>3
    <2>2. UNCHANGED <<conv, event, turn>>
      BY <1>5 DEF ReadForAccept, ReadForResolve, ReadForReply, Begin
    <2>3. started'.turns = started.turns
      BY <1>5 DEF ReadForAccept, ReadForResolve, ReadForReply, Begin, TypeOK
    <2>4. \A b \in Agents : agent'[b].op \in {"accept", "resolve"} =>
             event[agent'[b].target].status # "none"
      BY <1>a, <2>1 DEF TypeOK
    <2>5. QED  BY <1>0, <2>2, <2>3, <2>4, QuietStep
  <1>6. ASSUME NEW a \in Agents, Accept(a) PROVE QueueInv'
    <2> DEFINE t == agent[a].target
               r == [event[t] EXCEPT !.status = "accepted", !.by = a]
    <2>1. /\ t \in Ids /\ event[t].status # "none" /\ UNCHANGED <<conv, turn, started>>
          /\ event' = [event EXCEPT ![t] = r]
          /\ agent' = [agent EXCEPT ![a] = NoRequest]
      BY <1>6, <1>a DEF Accept, Finish, TypeOK
    <2>2. r.status = "accepted" /\ r.conv = event[t].conv  BY <1>0, <2>1 DEF EventType
    <2> HIDE DEF r
    <2>3. \A e \in Ids : /\ event'[e].conv = event[e].conv
                         /\ event'[e].status = IF e = t THEN "accepted" ELSE event[e].status
      BY <1>0, <2>1, <2>2
    <2>4. TurnIds'  BY <2>1, <2>3 DEF QueueInv, TurnIds, TypeOK
    <2>5. EventIds'
      BY <1>a, <2>1, <2>3 DEF QueueInv, EventIds, TypeOK, NoRequest
    <2>6. Queued'
      <3>1. \A e \in Ids : event[e].status \in {"pending", "accepted"} =>
               event'[e].status \in {"pending", "accepted"}
        BY <2>3
      <3>2. QED  BY <2>1, <2>3, <3>1 DEF QueueInv, Queued
    <2>7. QED  BY <2>4, <2>5, <2>6 DEF QueueInv
  <1>7. ASSUME NEW a \in Agents, Resolve(a) PROVE QueueInv'
    <2> DEFINE t == agent[a].target
               d == event[t].conv
               r == [event[t] EXCEPT !.status = "resolved"]
               k == [conv[d] EXCEPT !.status = "resolved"]
    <2>1. /\ t \in Ids /\ event[t].status # "none" /\ UNCHANGED <<turn, started>>
          /\ event' = [event EXCEPT ![t] = r]
          /\ conv' = [conv EXCEPT ![d] = k]
          /\ agent' = [agent EXCEPT ![a] = NoRequest]
      BY <1>7, <1>a DEF Resolve, Finish, TypeOK
    <2>2. r.status = "resolved" /\ r.conv = d  BY <1>0, <2>1 DEF EventType
    <2>3. d \in Ids => k.status = "resolved"  BY <1>0 DEF ConvType
    <2> HIDE DEF r, k
    <2>4. \A e \in Ids : /\ event'[e].conv = event[e].conv
                         /\ event'[e].status = IF e = t THEN "resolved" ELSE event[e].status
      BY <1>0, <2>1, <2>2
    <2>5. TurnIds'  BY <2>1, <2>4 DEF QueueInv, TurnIds, TypeOK
    <2>6. EventIds'
      BY <1>a, <2>1, <2>4 DEF QueueInv, EventIds, TypeOK, NoRequest
    <2>7. ASSUME NEW c \in Ids, conv'[c].status = "waiting_agent"
          PROVE  \E e \in Ids : event'[e].conv = c /\ event'[e].status \in {"pending", "accepted"}
      <3>1. c # d /\ conv[c].status = "waiting_agent"
        BY <1>0, <2>1, <2>3, <2>7
      <3>2. PICK e \in Ids : event[e].conv = c /\ event[e].status \in {"pending", "accepted"}
        BY <3>1 DEF QueueInv, Queued
      <3>3. e # t  BY <3>1, <3>2
      <3>4. QED  BY <2>4, <3>2, <3>3
    <2>8. QED  BY <2>5, <2>6, <2>7 DEF QueueInv, Queued
  <1>8. ASSUME NEW a \in Agents, Reply(a) PROVE QueueInv'
    <2>1. /\ agent[a].target \in Ids /\ UNCHANGED <<event, turn, started>>
          /\ agent' = [agent EXCEPT ![a] = NoRequest]
      BY <1>8 DEF Reply, Finish, TypeOK
    <2>2. PICK s : /\ conv' = [conv EXCEPT ![agent[a].target] =
                                  [status |-> s, count |-> agent[a].count + 1,
                                   at |-> clock + 1, recent |-> TRUE]]
                   /\ s = "waiting_agent" => conv[agent[a].target].status = "waiting_agent"
      BY <1>8 DEF Reply
    <2>3. \A c \in Ids : conv'[c].status = "waiting_agent" => conv[c].status = "waiting_agent"
      BY <1>0, <2>2
    <2>4. \A b \in Agents : agent'[b].op \in {"accept", "resolve"} =>
             event[agent'[b].target].status # "none"
      BY <1>a, <2>1 DEF NoRequest, TypeOK
    <2>5. QED  BY <1>0, <2>1, <2>3, <2>4, QuietStep
  <1>9. ASSUME NEW c \in Ids, LeaveWindow(c) PROVE QueueInv'
    <2>1. conv' = [conv EXCEPT ![c] = [conv[c] EXCEPT !.recent = FALSE]]
          /\ UNCHANGED <<event, turn, agent, started>>
      BY <1>9 DEF LeaveWindow
    <2>2. [conv[c] EXCEPT !.recent = FALSE].status = conv[c].status  BY <1>0 DEF ConvType
    <2>3. \A d \in Ids : conv'[d].status = conv[d].status  BY <1>0, <2>1, <2>2
    <2>4. QED  BY <1>0, <1>a, <2>1, <2>3, QuietStep
  <1>10. CASE UNCHANGED vars  BY <1>10, <1>0, <1>a, QuietStep DEF vars
  <1>11. ASSUME NEW a \in Agents, NEW c \in Ids, Patch(a, c) PROVE QueueInv'
    <2>1. \/ conv' = conv
          \/ \E s \in PatchTo : conv' = [conv EXCEPT ![c] = [conv[c] EXCEPT !.status = s]]
      BY <1>11 DEF Patch
    <2>2. UNCHANGED <<event, turn, agent>> /\ started'.turns = started.turns
      BY <1>11 DEF Patch, TypeOK
    <2>3. \A s \in PatchTo : s # "waiting_agent"  OBVIOUS
    <2>4. \A s \in PatchTo : [conv[c] EXCEPT !.status = s].status = s  BY <1>0 DEF ConvType
    <2>5. \A d \in Ids : conv'[d].status = "waiting_agent" => conv[d].status = "waiting_agent"
      BY <1>0, <2>1, <2>3, <2>4
    <2>6. QED  BY <1>0, <1>a, <2>2, <2>5, QuietStep
  <1>12. QED
    BY <1>1, <1>2, <1>3, <1>4, <1>5, <1>6, <1>7, <1>8, <1>9, <1>10, <1>11
       DEF Next, WorkerStep, AgentStep

\* No customer waits for an agent outside the queue, however many turns and
\* agents race, as long as nobody sets a conversation waiting by PATCH.
THEOREM NobodyWaitsUnseen == Spec => []WaitingIsQueued
  <1>1. CASE "waiting_agent" \in PatchTo
    <2>1. WaitingIsQueued  BY <1>1 DEF WaitingIsQueued
    <2>2. QED  BY <2>1, PTL
  <1>2. CASE "waiting_agent" \notin PatchTo
    <2>1. QueueInv => WaitingIsQueued  BY DEF QueueInv, Queued, WaitingIsQueued
    <2>2. TypeOK /\ TypeOK' /\ QueueInv /\ [Next]_vars => QueueInv'
      BY <1>2, QueueStep
    <2>3. QED  BY <2>1, <2>2, TypeInit, TypeStep, QueueInit, PTL DEF Spec
  <1>3. QED  BY <1>1, <1>2

-----------------------------------------------------------------------------
(* One turn and one request at a time                                      *)

InQueue(e) == event[e].status \in {"pending", "accepted"}

\* Nobody shares the rows: what a turn or a request has loaded stays true.
OneActs ==
    /\ \A v, w \in Workers : turn[v].pc # "idle" /\ turn[w].pc # "idle" => v = w
    /\ \A a, b \in Agents : agent[a].op # "none" /\ agent[b].op # "none" => a = b

\* Nothing is stored yet under the id of a turn that has not committed.
Unwritten(c) == conv[c].status = "none" /\ event[c].status = "none"

UnwrittenIds ==
    /\ \A c \in Ids : started.turns < c => Unwritten(c)
    /\ \A w \in Workers : turn[w].pc # "idle" =>
          turn[w].id <= started.turns /\ Unwritten(turn[w].id)

\* A turn continues the open conversation, which is still active, or opens one
\* because there is none.
OneToContinue ==
    \A w \in Workers : turn[w].pc \in {"loaded", "answering"} =>
       /\ \A d \in Open : d = turn[w].conv
       /\ turn[w].conv # turn[w].id => conv[turn[w].conv].status = "active"

\* An escalation in the queue has a waiting conversation to itself.
OneEscalationEach ==
    \A e \in Ids : InQueue(e) =>
       /\ event[e].conv \in Ids /\ conv[event[e].conv].status = "waiting_agent"
       /\ \A f \in Ids : InQueue(f) /\ event[f].conv = event[e].conv => f = e

\* The status an agent checked is still that of the escalation.
StillAsRead ==
    \A a \in Agents :
       /\ agent[a].op # "reply"
       /\ agent[a].op = "accept" => event[agent[a].target].status = "pending"
       /\ agent[a].op = "resolve" => InQueue(agent[a].target)

\* Only an escalation that left "pending" has been accepted.
AcceptedLeft ==
    \A e \in Ids : accepted[e] <= IF event[e].status \in {"none", "pending"} THEN 0 ELSE 1

AloneInv == /\ OneActs /\ UnwrittenIds /\ OneOpen /\ OneToContinue
            /\ OneEscalationEach /\ StillAsRead /\ AcceptedLeft

LEMMA AloneInit == Init => AloneInv
  BY DEF Init, AloneInv, OneActs, UnwrittenIds, Unwritten, OneOpen, Open, OneToContinue,
         OneEscalationEach, InQueue, StillAsRead, AcceptedLeft, NoConv, NoEvent, NoTurn,
         NoRequest

\* A step of the only turn that writes nothing yet.
LEMMA TurnMoves ==
    ASSUME TypeOK, AloneInv, NEW w \in Workers, NEW r \in TurnType,
           \A v \in Workers \ {w} : turn[v].pc = "idle",
           turn' = [turn EXCEPT ![w] = r],
           conv' = conv, event' = event, agent' = agent, accepted' = accepted,
           started.turns <= started'.turns, started'.turns \in Nat,
           r.pc # "idle" => r.id <= started'.turns /\ Unwritten(r.id),
           r.pc \in {"loaded", "answering"} =>
              /\ \A d \in Open : d = r.conv
              /\ r.conv # r.id => conv[r.conv].status = "active"
    PROVE  AloneInv'
  <1>1. \A v \in Workers : turn'[v] = IF v = w THEN r ELSE turn[v]  BY DEF TypeOK
  <1>2. OneActs'  BY <1>1 DEF AloneInv, OneActs
  <1>3. \A c \in Ids : Unwritten(c)' <=> Unwritten(c)  BY DEF Unwritten
  <1>4. \A c \in Ids : started'.turns < c => started.turns < c
    <2>1. started.turns \in Nat /\ \A c \in Ids : c \in Nat
      BY ConversationsAssumption DEF Ids, TypeOK
    <2>2. QED  BY <2>1
  <1>5. UnwrittenIds'
    <2>1. \A c \in Ids : started'.turns < c => Unwritten(c)'
      BY <1>3, <1>4 DEF AloneInv, UnwrittenIds
    <2>2. ASSUME NEW v \in Workers, turn'[v].pc # "idle"
          PROVE  (turn[v].id <= started.turns /\ Unwritten(turn[v].id))'
      <3>1. turn'[v] = r  BY <1>1, <2>2
      <3>2. QED  BY <3>1, <2>2 DEF Unwritten
    <2>3. QED  BY <2>1, <2>2 DEF UnwrittenIds
  <1>6. Open' = Open /\ OneOpen'  BY DEF AloneInv, OneOpen, Open
  <1>7. OneToContinue'  BY <1>1, <1>6 DEF OneToContinue
  <1>8. OneEscalationEach' /\ StillAsRead' /\ AcceptedLeft'
    BY DEF AloneInv, OneEscalationEach, InQueue, StillAsRead, AcceptedLeft
  <1>9. QED  BY <1>2, <1>5, <1>6, <1>7, <1>8 DEF AloneInv

\* A turn that commits writes to a conversation nobody waits in, and leaves it
\* active or, with an event of its own, waiting.
LEMMA TurnCommits ==
    ASSUME TypeOK, AloneInv, NEW w \in Workers, NEW c \in ConvType,
           \A v \in Workers \ {w} : turn[v].pc = "idle",
           Commit(w, c, 2),
           \/ c.status = "active" /\ event' = event
           \/ /\ c.status = "waiting_agent"
              /\ event' = [event EXCEPT ![turn[w].id] =
                              [status |-> "pending", conv |-> turn[w].conv, by |-> NoOne]]
    PROVE  AloneInv'
  <1> DEFINE i == turn[w].id
             d == turn[w].conv
             ev == [status |-> "pending", conv |-> d, by |-> NoOne]
  <1>1. /\ i \in Ids /\ d \in Ids /\ i <= started.turns /\ Unwritten(i)
        /\ \A o \in Open : o = d
        /\ d # i => conv[d].status = "active"
    BY DEF Commit, TypeOK, AloneInv, UnwrittenIds, OneToContinue
  <1>2. conv[d].status \in {"none", "active"} /\ event[i].status = "none"
    BY <1>1 DEF Unwritten
  <1>3. ~(started.turns < i) /\ ~(started.turns < d)
    <2>1. started.turns \in Nat /\ i \in Nat  BY <1>1, ConversationsAssumption DEF TypeOK, Ids
    <2>2. ~(started.turns < i)  BY <1>1, <2>1
    <2>3. QED  BY <1>1, <2>2 DEF AloneInv, UnwrittenIds, Unwritten
  <1>4. /\ conv' = [conv EXCEPT ![d] = c] /\ turn' = [turn EXCEPT ![w] = NoTurn]
        /\ UNCHANGED <<agent, accepted, started>>
    BY DEF Commit
  <1>5. \A x \in Ids : conv'[x] = IF x = d THEN c ELSE conv[x]  BY <1>4 DEF TypeOK
  <1>6. /\ event' = event \/ (c.status = "waiting_agent" /\ event'[i] = ev)
        /\ \A e \in Ids \ {i} : event'[e] = event[e]
        /\ c.status \in {"active", "waiting_agent"}
    BY <1>1 DEF TypeOK
  <1>7. \A v \in Workers : turn'[v].pc = "idle"  BY <1>4 DEF TypeOK, NoTurn
  <1>8. ev.status = "pending" /\ ev.conv = d  OBVIOUS
  <1> HIDE DEF ev
  <1>9. OneActs' /\ OneToContinue'  BY <1>4, <1>7 DEF AloneInv, OneActs, OneToContinue
  <1>10. UnwrittenIds'
    <2>1. ASSUME NEW x \in Ids, started'.turns < x PROVE Unwritten(x)'
      <3>1. x # i /\ x # d /\ started.turns < x  BY <1>3, <1>4, <2>1
      <3>2. conv'[x] = conv[x] /\ event'[x] = event[x]  BY <1>5, <1>6, <3>1
      <3>3. QED  BY <3>1, <3>2 DEF AloneInv, UnwrittenIds, Unwritten
    <2>2. QED  BY <1>7, <2>1 DEF UnwrittenIds
  <1>11. OneOpen'
    <2>1. \A o \in Open' : o = d  BY <1>1, <1>5 DEF Open
    <2>2. QED  BY <2>1 DEF OneOpen
  <1>12. ASSUME NEW e \in Ids, InQueue(e)'
         PROVE  \/ /\ e # i /\ InQueue(e) /\ event'[e] = event[e] /\ event[e].conv # d
                   /\ event[e].conv \in Ids /\ conv[event[e].conv].status = "waiting_agent"
                \/ e = i /\ event'[e].conv = d /\ conv'[d].status = "waiting_agent"
    <2>1. CASE event'[e] = event[e]
      <3>1. InQueue(e)  BY <1>12, <2>1 DEF InQueue
      <3>2. e # i  BY <1>2, <3>1 DEF InQueue
      <3>3. QED  BY <1>2, <2>1, <3>1, <3>2 DEF AloneInv, OneEscalationEach
    <2>2. CASE event'[e] # event[e]
      BY <1>1, <1>5, <1>6, <1>8, <2>2
    <2>3. QED  BY <2>1, <2>2
  <1>13. OneEscalationEach'
    <2>1. ASSUME NEW e \in Ids, InQueue(e)'
          PROVE  event'[e].conv \in Ids /\ conv'[event'[e].conv].status = "waiting_agent"
      BY <1>1, <1>5, <1>12, <2>1
    <2>2. ASSUME NEW e \in Ids, InQueue(e)', NEW f \in Ids, InQueue(f)',
                 event'[f].conv = event'[e].conv
          PROVE  f = e
      BY <1>12, <2>2 DEF AloneInv, OneEscalationEach
    <2>3. QED  BY <2>1, <2>2 DEF OneEscalationEach
  <1>14. StillAsRead'
    <2>1. ASSUME NEW a \in Agents, agent[a].op \in {"accept", "resolve"}
          PROVE  event'[agent[a].target] = event[agent[a].target]
      <3>1. agent[a].target \in Ids /\ event[agent[a].target].status # "none"
        BY <2>1 DEF TypeOK, AloneInv, StillAsRead, InQueue
      <3>2. QED  BY <1>2, <1>6, <3>1
    <2>2. QED  BY <1>4, <2>1 DEF AloneInv, StillAsRead, InQueue
  <1>15. AcceptedLeft'
    BY <1>2, <1>4, <1>6, <1>8 DEF AloneInv, AcceptedLeft
  <1>16. QED
    BY <1>9, <1>10, <1>11, <1>13, <1>14, <1>15 DEF AloneInv

\* LeaveWindow takes a conversation out of Open and changes no status.
LEMMA WindowPasses ==
    ASSUME TypeOK, AloneInv, NEW c \in Ids, LeaveWindow(c)
    PROVE  AloneInv'
  <1>1. /\ conv' = [conv EXCEPT ![c] = [conv[c] EXCEPT !.recent = FALSE]]
        /\ UNCHANGED <<event, turn, agent, accepted, started>>
    BY DEF LeaveWindow
  <1>2. conv[c] \in ConvType  BY DEF TypeOK, ConvType
  <1>3. \A d \in Ids : /\ conv'[d].status = conv[d].status
                       /\ conv'[d].recent => conv[d].recent
    BY <1>1, <1>2 DEF TypeOK, ConvType
  <1>4. Open' \subseteq Open  BY <1>3 DEF Open
  <1>5. \A d \in Ids : Unwritten(d)' <=> Unwritten(d)  BY <1>1, <1>3 DEF Unwritten
  <1>6. UnwrittenIds'
    <2>1. \A w \in Workers : turn[w].pc # "idle" => turn[w].id \in Ids  BY DEF TypeOK
    <2>2. QED  BY <1>1, <1>5, <2>1 DEF AloneInv, UnwrittenIds, Unwritten
  <1>7. OneActs' /\ OneOpen' /\ StillAsRead' /\ AcceptedLeft'
    BY <1>1, <1>4 DEF AloneInv, OneActs, OneOpen, StillAsRead, InQueue, AcceptedLeft
  <1>8. OneToContinue'
    <2>1. \A w \in Workers : turn[w].pc \in {"loaded", "answering"} => turn[w].conv \in Ids
      BY DEF TypeOK
    <2>2. QED  BY <1>1, <1>3, <1>4, <2>1 DEF AloneInv, OneToContinue
  <1>9. OneEscalationEach'
    BY <1>1, <1>3 DEF AloneInv, OneEscalationEach, InQueue
  <1>10. QED  BY <1>6, <1>7, <1>8, <1>9 DEF AloneInv

\* A request of the only agent that reads an escalation it may accept or resolve.
LEMMA RequestReads ==
    ASSUME TypeOK, AloneInv, NEW a \in Agents, NEW e \in Ids,
           \A b \in Agents \ {a} : agent[b].op = "none",
           ReadForAccept(a, e) \/ ReadForResolve(a, e)
    PROVE  AloneInv'
  <1> USE DEF dbVars
  <1>1. PICK r : /\ agent' = [agent EXCEPT ![a] = r]
                 /\ r.op \in {"accept", "resolve"} /\ r.target = e
                 /\ r.op = "accept" => event[e].status = "pending"
                 /\ InQueue(e)
    <2>1. CASE ReadForAccept(a, e)
      <3> DEFINE r == [NoRequest EXCEPT !.op = "accept", !.target = e]
      <3>1. agent' = [agent EXCEPT ![a] = r] /\ event[e].status = "pending"
        BY <2>1 DEF ReadForAccept, Begin
      <3>2. r.op = "accept" /\ r.target = e  BY DEF NoRequest
      <3> HIDE DEF r
      <3>3. QED  BY <3>1, <3>2 DEF InQueue
    <2>2. CASE ReadForResolve(a, e)
      <3> DEFINE r == [NoRequest EXCEPT !.op = "resolve", !.target = e]
      <3>1. agent' = [agent EXCEPT ![a] = r] /\ InQueue(e)
        BY <2>2 DEF ReadForResolve, Begin, InQueue
      <3>2. r.op = "resolve" /\ r.target = e  BY DEF NoRequest
      <3> HIDE DEF r
      <3>3. QED  BY <3>1, <3>2
    <2>3. QED  BY <2>1, <2>2
  <1>2. UNCHANGED <<conv, event, turn, accepted>> /\ started'.turns = started.turns
    BY DEF ReadForAccept, ReadForResolve, Begin, TypeOK
  <1>3. \A b \in Agents : agent'[b] = IF b = a THEN r ELSE agent[b]  BY <1>1 DEF TypeOK
  <1>4. OneActs'  BY <1>2, <1>3 DEF AloneInv, OneActs
  <1>5. StillAsRead'  BY <1>1, <1>2, <1>3 DEF AloneInv, StillAsRead, InQueue
  <1>6. /\ UnwrittenIds' /\ OneOpen' /\ OneToContinue' /\ OneEscalationEach'
        /\ AcceptedLeft'
    BY <1>2 DEF AloneInv, UnwrittenIds, Unwritten, OneOpen, Open, OneToContinue,
                OneEscalationEach, InQueue, AcceptedLeft
  <1>7. QED  BY <1>4, <1>5, <1>6 DEF AloneInv

\* What ends a request: the escalation it read moves on, and with a resolution
\* its conversation.
LEMMA RequestEnds ==
    ASSUME TypeOK, AloneInv, NEW a \in Agents,
           \A b \in Agents \ {a} : agent[b].op = "none",
           Accept(a) \/ Resolve(a)
    PROVE  AloneInv'
  <1> DEFINE t == agent[a].target
             d == event[t].conv
  <1>1. /\ t \in Ids /\ InQueue(t) /\ d \in Ids /\ conv[d].status = "waiting_agent"
        /\ agent[a].op = "accept" => event[t].status = "pending"
        /\ agent[a].op \in {"accept", "resolve"}
        /\ \A f \in Ids : InQueue(f) /\ event[f].conv = d => f = t
    BY DEF Accept, Resolve, TypeOK, AloneInv, StillAsRead, OneEscalationEach, InQueue
  <1>2. PICK s \in {"accepted", "resolved"}, n \in {0, 1} :
           /\ \A e \in Ids : /\ event'[e].conv = event[e].conv
                             /\ event'[e].status = IF e = t THEN s ELSE event[e].status
                             /\ accepted'[e] = IF e = t THEN accepted[e] + n ELSE accepted[e]
           /\ n = 1 => event[t].status = "pending"
           /\ \A x \in Ids : /\ conv'[x].recent = conv[x].recent
                             /\ conv'[x].status = IF x = d /\ s = "resolved" THEN "resolved"
                                                 ELSE conv[x].status
    <2>1. event[t] \in EventType /\ event \in [Ids -> EventType]
          /\ conv[d] \in ConvType /\ conv \in [Ids -> ConvType]
          /\ accepted \in [Ids -> Nat]
      BY <1>1 DEF TypeOK, EventType, ConvType
    <2>2. CASE Accept(a)
      <3>1. /\ event' = [event EXCEPT ![t] = [event[t] EXCEPT !.status = "accepted", !.by = a]]
            /\ accepted' = [accepted EXCEPT ![t] = @ + 1] /\ conv' = conv
            /\ agent[a].op = "accept"
        BY <2>2 DEF Accept
      <3>2. \A e \in Ids : /\ event'[e].conv = event[e].conv
                           /\ event'[e].status = IF e = t THEN "accepted" ELSE event[e].status
        BY <2>1, <3>1 DEF EventType
      <3>3. \A e \in Ids : accepted'[e] = IF e = t THEN accepted[e] + 1 ELSE accepted[e]
        BY <2>1, <3>1
      <3>4. QED  BY <1>1, <3>1, <3>2, <3>3
    <2>3. CASE Resolve(a)
      <3>1. /\ event' = [event EXCEPT ![t] = [event[t] EXCEPT !.status = "resolved"]]
            /\ conv' = [conv EXCEPT ![d] = [conv[d] EXCEPT !.status = "resolved"]]
            /\ accepted' = accepted
        BY <2>3 DEF Resolve
      <3>2. \A e \in Ids : /\ event'[e].conv = event[e].conv
                           /\ event'[e].status = IF e = t THEN "resolved" ELSE event[e].status
        BY <2>1, <3>1 DEF EventType
      <3>3. \A x \in Ids : /\ conv'[x].recent = conv[x].recent
                           /\ conv'[x].status = IF x = d THEN "resolved" ELSE conv[x].status
        BY <2>1, <3>1 DEF ConvType
      <3>4. \A e \in Ids : accepted'[e] = IF e = t THEN accepted[e] + 0 ELSE accepted[e]
        BY <2>1, <3>1
      <3>5. QED  BY <3>2, <3>3, <3>4
    <2>4. QED  BY <2>2, <2>3
  <1>3. agent' = [agent EXCEPT ![a] = NoRequest] /\ UNCHANGED <<turn, started>>
    BY DEF Accept, Resolve, Finish
  <1>4. \A b \in Agents : agent'[b].op = "none"  BY <1>3 DEF TypeOK, NoRequest
  <1>5. \A x \in Ids : conv[x].status \in {"none", "active"} <=> conv'[x].status \in {"none", "active"}
    BY <1>1, <1>2
  <1>6. \A x \in Ids : /\ conv[x].status = "active" <=> conv'[x].status = "active"
                       /\ Unwritten(x) <=> Unwritten(x)'
    BY <1>1, <1>2 DEF Unwritten, InQueue
  <1>7. OneActs' /\ StillAsRead'  BY <1>3, <1>4 DEF AloneInv, OneActs, StillAsRead
  <1>8. UnwrittenIds'
    <2>1. \A w \in Workers : turn[w].pc # "idle" => turn[w].id \in Ids  BY DEF TypeOK
    <2>2. QED  BY <1>3, <1>6, <2>1 DEF AloneInv, UnwrittenIds, Unwritten
  <1>9. Open' = Open  BY <1>2, <1>6 DEF Open
  <1>10. OneOpen' /\ OneToContinue'
    <2>1. \A w \in Workers : turn[w].pc \in {"loaded", "answering"} => turn[w].conv \in Ids
      BY DEF TypeOK
    <2>2. QED  BY <1>3, <1>6, <1>9, <2>1 DEF AloneInv, OneOpen, OneToContinue
  <1>11. OneEscalationEach'
    <2>1. ASSUME NEW e \in Ids, InQueue(e)'
          PROVE  /\ InQueue(e) /\ event'[e].conv = event[e].conv
                 /\ conv'[event[e].conv].status = "waiting_agent" /\ event[e].conv \in Ids
      <3>1. InQueue(e) /\ event'[e].conv = event[e].conv
        BY <1>1, <1>2, <2>1 DEF InQueue
      <3>2. event[e].conv \in Ids /\ conv[event[e].conv].status = "waiting_agent"
        BY <3>1 DEF AloneInv, OneEscalationEach
      <3>3. CASE s = "resolved"
        <4>1. e # t  BY <1>2, <2>1, <3>3 DEF InQueue
        <4>2. event[e].conv # d  BY <1>1, <3>1, <4>1
        <4>3. QED  BY <1>2, <3>1, <3>2, <4>2
      <3>4. CASE s = "accepted"  BY <1>2, <3>1, <3>2, <3>4
      <3>5. QED  BY <3>3, <3>4
    <2>2. QED  BY <2>1 DEF AloneInv, OneEscalationEach
  <1>12. AcceptedLeft'
    <2>1. accepted \in [Ids -> Nat]  BY DEF TypeOK
    <2>2. ASSUME NEW e \in Ids
          PROVE  accepted'[e] <= IF event'[e].status \in {"none", "pending"} THEN 0 ELSE 1
      <3>1. accepted[e] <= IF event[e].status \in {"none", "pending"} THEN 0 ELSE 1
        BY DEF AloneInv, AcceptedLeft
      <3>2. QED  BY <1>2, <2>1, <3>1
    <2>3. QED  BY <2>2 DEF AcceptedLeft
  <1>13. QED
    BY <1>7, <1>8, <1>10, <1>11, <1>12 DEF AloneInv

\* A step of the only turn.
LEMMA TurnAlone ==
    ASSUME TypeOK, TypeOK', AloneInv, NEW w \in Workers,
           \A v \in Workers \ {w} : turn[v].pc = "idle", WorkerStep(w)
    PROVE  AloneInv'
  <1> USE DEF dbVars
  <1>0. /\ conv \in [Ids -> ConvType] /\ event \in [Ids -> EventType]
        /\ started.turns \in Nat /\ started'.turns \in Nat
        /\ turn \in [Workers -> TurnType]
    BY ConversationsAssumption DEF TypeOK, ConvType, EventType, TurnType
  <1>1. CASE SelectCustomer(w)
    <2> DEFINE r == [NoTurn EXCEPT !.pc = IF customer.present THEN "known" ELSE "new",
                                   !.id = started.turns + 1, !.total = customer.total]
    <2>1. started.turns + 1 \in Ids
      BY <1>0, <1>1, ConversationsAssumption DEF SelectCustomer, Ids
    <2>2. r \in TurnType /\ r.id = started.turns + 1 /\ r.pc \in {"known", "new"}
      BY <2>1 DEF NoTurn, TurnType, TypeOK
    <2>3. Unwritten(started.turns + 1)
      BY <1>0, <2>1 DEF AloneInv, UnwrittenIds
    <2>4. /\ turn' = [turn EXCEPT ![w] = r]
          /\ UNCHANGED <<conv, event, agent, accepted>>
      BY <1>1 DEF SelectCustomer
    <2>5. started'.turns = started.turns + 1 /\ started.turns <= started'.turns
      BY <1>0, <1>1 DEF SelectCustomer, TypeOK
    <2> HIDE DEF r
    <2>6. /\ r.pc # "idle" => r.id <= started'.turns /\ Unwritten(r.id)
          /\ r.pc \notin {"loaded", "answering"}
      BY <1>0, <2>2, <2>3, <2>5
    <2>7. QED  BY <1>0, <2>2, <2>4, <2>5, <2>6, TurnMoves
  <1>2. CASE InsertCustomer(w) \/ LockCustomer(w)
    <2>1. PICK p \in {"known", "answering"} :
             /\ turn' = [turn EXCEPT ![w] = [turn[w] EXCEPT !.pc = p]]
             /\ p = "answering" => turn[w].pc = "loaded"
             /\ turn[w].pc # "idle"
             /\ UNCHANGED <<conv, event, agent, accepted, started>>
      BY <1>2 DEF InsertCustomer, LockCustomer
    <2> DEFINE r == [turn[w] EXCEPT !.pc = p]
    <2>2. r \in TurnType /\ r.id = turn[w].id /\ r.conv = turn[w].conv /\ r.pc = p
      BY <1>0 DEF TurnType
    <2>3. turn[w].id <= started.turns /\ Unwritten(turn[w].id)
      BY <2>1 DEF AloneInv, UnwrittenIds
    <2>4. p = "answering" =>
             /\ \A d \in Open : d = turn[w].conv
             /\ turn[w].conv # turn[w].id => conv[turn[w].conv].status = "active"
      BY <2>1 DEF AloneInv, OneToContinue
    <2>5. turn' = [turn EXCEPT ![w] = r] /\ started.turns <= started'.turns
      BY <1>0, <2>1
    <2> HIDE DEF r
    <2>6. /\ r.pc # "idle" => r.id <= started'.turns /\ Unwritten(r.id)
          /\ r.pc \in {"loaded", "answering"} =>
                /\ \A d \in Open : d = r.conv
                /\ r.conv # r.id => conv[r.conv].status = "active"
      BY <2>1, <2>2, <2>3, <2>4
    <2>7. QED  BY <1>0, <2>1, <2>2, <2>5, <2>6, TurnMoves
  <1>3. CASE CustomerExists(w) \/ FailTurn(w)
    <2>1. /\ turn' = [turn EXCEPT ![w] = NoTurn]
          /\ UNCHANGED <<conv, event, agent, accepted, started>>
      BY <1>3 DEF CustomerExists, FailTurn
    <2>2. NoTurn \in TurnType /\ NoTurn.pc = "idle"  BY DEF NoTurn, TurnType
    <2>3. started.turns <= started'.turns  BY <1>0, <2>1
    <2>4. QED  BY <1>0, <2>1, <2>2, <2>3, TurnMoves
  <1>4. CASE SelectConversation(w)
    <2>1. PICK c \in Ids :
             /\ IF Open = {} THEN c = turn[w].id ELSE Latest(c)
             /\ turn' = [turn EXCEPT ![w] =
                            [turn[w] EXCEPT !.pc = "loaded", !.conv = c, !.count = conv[c].count]]
      BY <1>4 DEF SelectConversation
    <2>2. /\ turn[w].pc = "known" /\ UNCHANGED <<conv, event, agent, accepted, started>>
      BY <1>4 DEF SelectConversation
    <2> DEFINE r == [turn[w] EXCEPT !.pc = "loaded", !.conv = c, !.count = conv[c].count]
    <2>3. conv[c].count \in Nat  BY <1>0 DEF ConvType
    <2>4. r \in TurnType /\ r.id = turn[w].id /\ r.conv = c /\ r.pc = "loaded"
      BY <1>0, <2>3 DEF TurnType
    <2>5. turn[w].id <= started.turns /\ Unwritten(turn[w].id)
      BY <2>2 DEF AloneInv, UnwrittenIds
    <2>6. \A d \in Open : d = c
      BY <2>1 DEF Latest, AloneInv, OneOpen
    <2>7. c # turn[w].id => conv[c].status = "active"
      BY <2>1 DEF Latest, Open
    <2>8. turn' = [turn EXCEPT ![w] = r] /\ started.turns <= started'.turns
      BY <1>0, <2>1, <2>2
    <2> HIDE DEF r
    <2>9. QED  BY <1>0, <2>2, <2>4, <2>5, <2>6, <2>7, <2>8, TurnMoves
  <1>5. CASE CommitAnswer(w) \/ CommitImage(w) \/ CommitFallback(w)
    <2>1. PICK c : /\ Commit(w, c, 2)
                   /\ \/ c = Written(w, "active", 2)
                      \/ c = Written(w, "active", 0) /\ turn[w].conv = turn[w].id
                      \/ c = conv[turn[w].conv] /\ turn[w].conv # turn[w].id
      BY <1>5 DEF CommitAnswer, CommitImage, CommitFallback
    <2>2. turn[w].pc = "answering" /\ turn[w].conv \in Ids
          /\ (turn[w].conv # turn[w].id => conv[turn[w].conv].status = "active")
      BY <2>1 DEF Commit, TypeOK, AloneInv, OneToContinue
    <2>3. /\ Written(w, "active", 0).status = "active"
          /\ Written(w, "active", 2).status = "active"
      BY <2>2 DEF Written
    <2>4. c \in ConvType /\ c.status = "active"
      BY <1>0, <2>1, <2>2, <2>3, WrittenType
    <2>5. event' = event  BY <1>5 DEF CommitAnswer, CommitImage, CommitFallback
    <2>6. QED  BY <2>1, <2>4, <2>5, TurnCommits
  <1>6. CASE CommitEscalation(w)
    <2> DEFINE ev == [status |-> "pending", conv |-> turn[w].conv, by |-> NoOne]
    <2>1. /\ Commit(w, Written(w, "waiting_agent", 2), 2)
          /\ event' = [event EXCEPT ![turn[w].id] = ev]
      BY <1>6 DEF CommitEscalation
    <2>2. turn[w].pc = "answering" /\ turn[w].id \in Ids /\ event[turn[w].id].status = "none"
      BY <2>1 DEF Commit, TypeOK, AloneInv, UnwrittenIds, Unwritten
    <2>3. Written(w, "waiting_agent", 2) \in ConvType
          /\ Written(w, "waiting_agent", 2).status = "waiting_agent"
      BY <2>2, WrittenType DEF Written
    <2>4. QED  BY <2>1, <2>3, TurnCommits
  <1>7. QED  BY <1>1, <1>2, <1>3, <1>4, <1>5, <1>6 DEF WorkerStep

\* One turn at a time and agents that only accept and resolve.
LEMMA AloneStep ==
    ASSUME TypeOK, TypeOK', AloneInv, OneAtATime
    PROVE  AloneInv'
  <1>1. ASSUME NEW w \in Workers, \A v \in Workers \ {w} : turn[v].pc = "idle", WorkerStep(w)
        PROVE  AloneInv'
    BY <1>1, TurnAlone
  <1>2. ASSUME NEW a \in Agents, \A b \in Agents \ {a} : agent[b].op = "none",
               Accept(a) \/ Resolve(a)
        PROVE  AloneInv'
    BY <1>2, RequestEnds
  <1>3. ASSUME NEW a \in Agents, \A b \in Agents \ {a} : agent[b].op = "none",
               NEW id \in Ids, ReadForAccept(a, id) \/ ReadForResolve(a, id)
        PROVE  AloneInv'
    BY <1>3, RequestReads
  <1>4. ASSUME NEW c \in Ids, LeaveWindow(c) PROVE AloneInv'
    BY <1>4, WindowPasses
  <1>5. QED  BY <1>1, <1>2, <1>3, <1>4 DEF OneAtATime

-----------------------------------------------------------------------------
(* What the run checks: racing, or one at a time                           *)

\* An accept gives the conversation to whom it gives the escalation; no other
\* accepted escalation is about that conversation.
LEMMA AssignedStep ==
    ASSUME TypeOK, AloneInv, OwnerIsAssigned, OneAtATime
    PROVE  OwnerIsAssigned'
  <1> USE DEF dbVars
  <1>1. CASE UNCHANGED <<event, assignee>>  BY <1>1 DEF OwnerIsAssigned
  <1>2. ASSUME NEW w \in Workers, CommitEscalation(w) PROVE OwnerIsAssigned'
    <2> DEFINE ev == [status |-> "pending", conv |-> turn[w].conv, by |-> NoOne]
    <2>1. event' = [event EXCEPT ![turn[w].id] = ev] /\ assignee' = assignee
      BY <1>2 DEF CommitEscalation, Commit
    <2>2. ev.status = "pending"  OBVIOUS
    <2> HIDE DEF ev
    <2>3. \A e \in Ids : event'[e] = event[e] \/ event'[e].status = "pending"
      BY <2>1, <2>2 DEF TypeOK
    <2>4. QED  BY <2>1, <2>3 DEF OwnerIsAssigned
  <1>3. ASSUME NEW a \in Agents, Accept(a) PROVE OwnerIsAssigned'
    <2> DEFINE t == agent[a].target
               d == event[t].conv
               r == [event[t] EXCEPT !.status = "accepted", !.by = a]
    <2>1. t \in Ids /\ InQueue(t) /\ d \in Ids
      BY <1>3 DEF Accept, TypeOK, AloneInv, StillAsRead, OneEscalationEach, InQueue
    <2>2. event' = [event EXCEPT ![t] = r] /\ assignee' = [assignee EXCEPT ![d] = a]
      BY <1>3 DEF Accept
    <2>3. event[t] \in EventType  BY <2>1 DEF TypeOK, EventType
    <2>4. r.conv = d /\ r.by = a  BY <2>3 DEF EventType
    <2> HIDE DEF r
    <2>5. event'[t] = r /\ assignee'[d] = a /\ \A e \in Ids \ {t} : event'[e] = event[e]
      BY <2>1, <2>2 DEF TypeOK
    <2>6. ASSUME NEW e \in Ids, event'[e].status = "accepted"
          PROVE  assignee'[event'[e].conv] = event'[e].by
      <3>1. CASE e = t  BY <2>4, <2>5, <3>1
      <3>2. CASE e # t
        <4>1. event'[e] = event[e] /\ InQueue(e)  BY <2>5, <2>6, <3>2 DEF InQueue
        <4>2. event[e].conv # d  BY <2>1, <3>2, <4>1 DEF AloneInv, OneEscalationEach
        <4>3. assignee'[event[e].conv] = assignee[event[e].conv]
          BY <2>2, <4>1, <4>2 DEF AloneInv, OneEscalationEach, TypeOK
        <4>4. QED  BY <2>6, <4>1, <4>3 DEF OwnerIsAssigned
      <3>3. QED  BY <3>1, <3>2
    <2>7. QED  BY <2>6 DEF OwnerIsAssigned
  <1>4. ASSUME NEW a \in Agents, Resolve(a) PROVE OwnerIsAssigned'
    <2> DEFINE t == agent[a].target
               r == [event[t] EXCEPT !.status = "resolved"]
    <2>1. event' = [event EXCEPT ![t] = r] /\ assignee' = assignee /\ t \in Ids
      BY <1>4 DEF Resolve, TypeOK
    <2>2. event[t] \in EventType  BY <2>1 DEF TypeOK, EventType
    <2>3. r.status = "resolved"  BY <2>2 DEF EventType
    <2> HIDE DEF r
    <2>4. \A e \in Ids : event'[e] = event[e] \/ event'[e].status = "resolved"
      BY <2>1, <2>3 DEF TypeOK
    <2>5. QED  BY <2>1, <2>4 DEF OwnerIsAssigned
  <1>5. ASSUME NEW w \in Workers, WorkerStep(w), ~CommitEscalation(w)
        PROVE  UNCHANGED <<event, assignee>>
    BY <1>5 DEF WorkerStep, SelectCustomer, InsertCustomer, CustomerExists,
                SelectConversation, LockCustomer, CommitAnswer, CommitImage,
                CommitFallback, FailTurn, Commit
  <1>6. ASSUME NEW a \in Agents, NEW id \in Ids, ReadForAccept(a, id) \/ ReadForResolve(a, id)
        PROVE  UNCHANGED <<event, assignee>>
    BY <1>6 DEF ReadForAccept, ReadForResolve, Begin
  <1>7. ASSUME NEW c \in Ids, LeaveWindow(c) PROVE UNCHANGED <<event, assignee>>
    BY <1>7 DEF LeaveWindow
  <1>8. QED  BY <1>1, <1>2, <1>3, <1>4, <1>5, <1>6, <1>7 DEF OneAtATime

MCInv == TypeOK /\ (alone => AloneInv /\ OwnerIsAssigned)

LEMMA MCInitInv == MCInit => MCInv
  <1>1. Init => OwnerIsAssigned  BY DEF Init, OwnerIsAssigned, NoEvent
  <1>2. QED  BY <1>1, TypeInit, AloneInit DEF MCInit, MCInv

LEMMA AloneIsNext == OneAtATime => Next
  BY DEF OneAtATime, Next, AgentStep

LEMMA MCStepInv ==
    ASSUME MCInv, [MCNext]_mcVars
    PROVE  MCInv'
  <1>1. [Next]_vars /\ alone' = alone  BY AloneIsNext DEF MCNext, Race, mcVars
  <1>2. TypeOK'  BY <1>1, TypeStep DEF MCInv
  <1>3. CASE alone /\ OneAtATime  BY <1>1, <1>2, <1>3, AloneStep, AssignedStep DEF MCInv
  <1>4. CASE alone /\ UNCHANGED vars
    <2>1. UNCHANGED <<conv, assignee, event, turn, agent, accepted, started>>
      BY <1>4 DEF vars, dbVars
    <2>2. AloneInv /\ OwnerIsAssigned => AloneInv' /\ OwnerIsAssigned'
      BY <2>1 DEF OwnerIsAssigned, AloneInv, OneActs, UnwrittenIds, Unwritten, OneOpen, Open, OneToContinue,
                  OneEscalationEach, InQueue, StillAsRead, AcceptedLeft
    <2>3. QED  BY <1>1, <1>2, <1>4, <2>1, <2>2 DEF MCInv
  <1>5. CASE ~alone  BY <1>1, <1>2, <1>5 DEF MCInv
  <1>6. QED  BY <1>3, <1>4, <1>5 DEF MCNext, mcVars

LEMMA AloneAgrees == TypeOK /\ AloneInv => OneOpen /\ QueuedIsWaiting /\ AcceptedOnce
  <1> SUFFICES ASSUME TypeOK, AloneInv PROVE OneOpen /\ QueuedIsWaiting /\ AcceptedOnce
    OBVIOUS
  <1>1. OneOpen /\ QueuedIsWaiting
    BY DEF AloneInv, OneEscalationEach, InQueue, QueuedIsWaiting
  <1>2. ASSUME NEW e \in Ids PROVE accepted[e] <= 1
    <2>1. accepted[e] \in Nat  BY DEF TypeOK
    <2>2. QED  BY <2>1 DEF AloneInv, AcceptedLeft
  <1>3. QED  BY <1>1, <1>2 DEF AcceptedOnce

\* When turns and requests come one at a time, a customer has one open
\* conversation, what is in the queue waits, nothing is accepted twice, and the
\* agent who accepted has the conversation; for any number of workers, agents,
\* turns and requests.
THEOREM DeskAgreesAlone == MCSpec => []QueueAgreesAlone
  <1>1. MCInv => QueueAgreesAlone  BY AloneAgrees DEF MCInv, QueueAgreesAlone
  <1>2. QED  BY <1>1, MCInitInv, MCStepInv, PTL DEF MCSpec

-----------------------------------------------------------------------------
(* The desk: statuses and owner take the steps of EscalationDesk           *)

LEMMA DeskStarts == Init => Desk!Init
  BY DEF Init, Desk!Init, NoConv, NoEvent

\* What changes no status is no step of the desk.
LEMMA DeskRests ==
    ASSUME \A c \in Ids : conv'[c].status = conv[c].status, event' = event
    PROVE  UNCHANGED Desk!desk
  BY DEF Desk!desk

\* A turn that answers goes on with an active conversation or begins one.
LEMMA DeskAnswers ==
    ASSUME TypeOK, NEW d \in Ids, NEW c, c.status = "active",
           conv' = [conv EXCEPT ![d] = c], event' = event,
           conv[d].status \in {"none", "active"}
    PROVE  [Desk!Next]_(Desk!desk)
  <1>1. \A x \in Ids : conv'[x].status = IF x = d THEN "active" ELSE conv[x].status
    BY DEF TypeOK
  <1>2. CASE conv[d].status = "active"  BY <1>1, <1>2, DeskRests
  <1>3. CASE conv[d].status = "none"
    <2>1. Desk!Begin(d)  BY <1>1, <1>3 DEF Desk!Begin
    <2>2. QED  BY <2>1 DEF Desk!Next
  <1>4. QED  BY <1>2, <1>3

LEMMA DeskEscalates ==
    ASSUME TypeOK, NEW d \in Ids, NEW i \in Ids, NEW c, c.status = "waiting_agent",
           conv' = [conv EXCEPT ![d] = c],
           event' = [event EXCEPT ![i] = [status |-> "pending", conv |-> d, by |-> NoOne]],
           conv[d].status \in {"none", "active"}, event[i].status = "none"
    PROVE  Desk!Next
  <1>1. \A x \in Ids : conv'[x].status = IF x = d THEN "waiting_agent" ELSE conv[x].status
    BY DEF TypeOK
  <1>2. \A e \in Ids : /\ event'[e].status = IF e = i THEN "pending" ELSE event[e].status
                       /\ event'[e].conv = IF e = i THEN d ELSE event[e].conv
                       /\ event'[e].by = IF e = i THEN NoOne ELSE event[e].by
    BY DEF TypeOK
  <1>3. Desk!Escalate(i, d)  BY <1>1, <1>2 DEF Desk!Escalate
  <1>4. QED  BY <1>3 DEF Desk!Next

\* Every step of a turn.
LEMMA TurnFollows ==
    ASSUME TypeOK, AloneInv, NEW w \in Workers, WorkerStep(w)
    PROVE  [Desk!Next]_(Desk!desk)
  <1> USE DEF dbVars
  <1> DEFINE i == turn[w].id
             d == turn[w].conv
  <1>1. turn[w].pc = "answering" =>
           /\ i \in Ids /\ d \in Ids /\ event[i].status = "none"
           /\ conv[d].status \in {"none", "active"}
           /\ d # i => conv[d].status = "active"
    BY DEF TypeOK, AloneInv, UnwrittenIds, Unwritten, OneToContinue
  <1>2. CASE SelectCustomer(w) \/ InsertCustomer(w) \/ CustomerExists(w)
             \/ SelectConversation(w) \/ LockCustomer(w) \/ FailTurn(w)
    <2>1. UNCHANGED <<conv, event>>
      BY <1>2 DEF SelectCustomer, InsertCustomer, CustomerExists, SelectConversation,
                  LockCustomer, FailTurn
    <2>2. QED  BY <2>1, DeskRests
  <1>3. CASE CommitAnswer(w) \/ CommitImage(w) \/ CommitFallback(w)
    <2>1. PICK c : /\ Commit(w, c, 2)
                   /\ \/ c = Written(w, "active", 2)
                      \/ c = Written(w, "active", 0) /\ d = i
                      \/ c = conv[d] /\ d # i
      BY <1>3 DEF CommitAnswer, CommitImage, CommitFallback
    <2>2. turn[w].pc = "answering" /\ conv' = [conv EXCEPT ![d] = c] /\ event' = event
      BY <1>3, <2>1 DEF Commit, CommitAnswer, CommitImage, CommitFallback
    <2>3. c.status = "active"  BY <1>1, <2>1, <2>2 DEF Written
    <2>4. QED  BY <1>1, <2>2, <2>3, DeskAnswers
  <1>4. CASE CommitEscalation(w)
    <2> DEFINE c == Written(w, "waiting_agent", 2)
    <2>1. /\ turn[w].pc = "answering" /\ conv' = [conv EXCEPT ![d] = c]
          /\ event' = [event EXCEPT ![i] = [status |-> "pending", conv |-> d, by |-> NoOne]]
      BY <1>4 DEF CommitEscalation, Commit
    <2>2. c.status = "waiting_agent"  BY DEF Written
    <2>3. QED  BY <1>1, <2>1, <2>2, DeskEscalates
  <1>5. QED  BY <1>2, <1>3, <1>4 DEF WorkerStep

\* What an agent read is still so when the request writes.
LEMMA AcceptFollows ==
    ASSUME TypeOK, AloneInv, NEW a \in Agents, Accept(a)
    PROVE  Desk!Next
  <1> DEFINE t == agent[a].target
  <1>1. t \in Ids /\ event[t].status = "pending"
    BY DEF Accept, TypeOK, AloneInv, StillAsRead
  <1>2. /\ event' = [event EXCEPT ![t] = [event[t] EXCEPT !.status = "accepted", !.by = a]]
        /\ conv' = conv
    BY DEF Accept
  <1>3. event \in [Ids -> EventType]  BY DEF TypeOK, EventType
  <1>4. \A e \in Ids : /\ event'[e].status = IF e = t THEN "accepted" ELSE event[e].status
                       /\ event'[e].conv = event[e].conv
                       /\ event'[e].by = IF e = t THEN a ELSE event[e].by
    BY <1>1, <1>2, <1>3 DEF EventType
  <1>5. Desk!Accept(t, a)  BY <1>1, <1>2, <1>4 DEF Desk!Accept
  <1>6. QED  BY <1>1, <1>5 DEF Desk!Next

LEMMA ResolveFollows ==
    ASSUME TypeOK, AloneInv, NEW a \in Agents, Resolve(a)
    PROVE  Desk!Next
  <1>1. PICK t \in Ids, d \in Ids :
           /\ t = agent[a].target /\ d = event[t].conv
           /\ InQueue(t) /\ conv[d].status = "waiting_agent"
    BY DEF Resolve, TypeOK, AloneInv, StillAsRead, OneEscalationEach
  <1>2. /\ event' = [event EXCEPT ![t] = [event[t] EXCEPT !.status = "resolved"]]
        /\ conv' = [conv EXCEPT ![d] = [conv[d] EXCEPT !.status = "resolved"]]
    BY <1>1 DEF Resolve
  <1>3. event \in [Ids -> EventType] /\ conv \in [Ids -> ConvType]
    BY DEF TypeOK, EventType, ConvType
  <1>4. \A e \in Ids : /\ event'[e].status = IF e = t THEN "resolved" ELSE event[e].status
                       /\ event'[e].conv = event[e].conv
                       /\ event'[e].by = event[e].by
    BY <1>1, <1>2, <1>3 DEF EventType
  <1>5. \A c \in Ids : conv'[c].status = IF c = d THEN "resolved" ELSE conv[c].status
    BY <1>1, <1>2, <1>3 DEF ConvType
  <1>6. Desk!Resolve(t)  BY <1>1, <1>4, <1>5 DEF Desk!Resolve, InQueue
  <1>7. QED  BY <1>6 DEF Desk!Next

LEMMA DeskFollows ==
    ASSUME TypeOK, AloneInv, OneAtATime
    PROVE  [Desk!Next]_(Desk!desk)
  <1>1. ASSUME NEW w \in Workers, WorkerStep(w) PROVE [Desk!Next]_(Desk!desk)
    BY <1>1, TurnFollows
  <1>2. ASSUME NEW a \in Agents, Accept(a) \/ Resolve(a) PROVE Desk!Next
    BY <1>2, AcceptFollows, ResolveFollows
  <1>3. ASSUME NEW a \in Agents, NEW id \in Ids, ReadForAccept(a, id) \/ ReadForResolve(a, id)
        PROVE  UNCHANGED Desk!desk
    <2>1. conv' = conv /\ event' = event
      BY <1>3 DEF ReadForAccept, ReadForResolve, Begin, dbVars
    <2>2. QED  BY <2>1, DeskRests
  <1>4. ASSUME NEW c \in Ids, LeaveWindow(c) PROVE UNCHANGED Desk!desk
    <2>1. /\ conv' = [conv EXCEPT ![c] = [conv[c] EXCEPT !.recent = FALSE]]
          /\ event' = event
      BY <1>4 DEF LeaveWindow
    <2>2. conv \in [Ids -> ConvType]  BY DEF TypeOK, ConvType
    <2>3. \A x \in Ids : conv'[x].status = conv[x].status  BY <2>1, <2>2 DEF ConvType
    <2>4. QED  BY <2>1, <2>3, DeskRests
  <1>5. QED  BY <1>1, <1>2, <1>3, <1>4 DEF OneAtATime

\* When turns and requests come one at a time, the tables implement EscalationDesk:
\* an escalation starts with its conversation's wait, has one owner, and ends once
\* and with the conversation.
THEOREM DeskIsOneProtocol == MCSpec => DeskAlone
  <1>1. MCInit => (alone => Desk!Init)  BY DeskStarts DEF MCInit
  <1>2. MCInv /\ [MCNext]_mcVars => [alone => [Desk!Next]_(Desk!desk)]_mcVars
    BY DeskFollows DEF MCInv, MCNext
  <1>3. QED  BY <1>1, <1>2, MCInitInv, MCStepInv, PTL DEF MCSpec, DeskAlone

-----------------------------------------------------------------------------
(* The sockets: the inductive invariant                                    *)

\* A tab that has not connected is in nobody's list, audience or past.
Visited(b) == {t \in Tabs : cast[b].copies[t] > 0 \/ t \in cast[b].dead}

FreshTabs ==
    \A t \in Tabs :
        /\ pc[t] = "closed" <=> net[t] = "none"
        /\ pc[t] = "closed" =>
              /\ t \notin Listed
              /\ \A b \in Broadcasters : t \notin Visited(b) /\ t \notin cast[b].audience

\* Sends fail only to browsers that have gone.
DeadAreGone == \A b \in Broadcasters : \A t \in cast[b].dead : net[t] = "gone"

\* What a broadcast has tried is at the cursor or before it, however the list has
\* changed, and was tried once.
Behind(b) == \A i \in DOMAIN conns : conns[i] \in Visited(b) => i <= cast[b].cursor

VisitedIsBehind == \A b \in Broadcasters : Casting(b) => Behind(b)

\* Those a broadcast is meant for and has passed over.
Missed(b) ==
    {t \in cast[b].audience \cap Listed :
        /\ t \notin cast[b].dead /\ cast[b].copies[t] = 0
        /\ \E i \in DOMAIN conns : conns[i] = t /\ i <= cast[b].cursor}

\* Each of them for a connection that was removed.
Bounded(b) == Cardinality(Missed(b)) <= cast[b].removed

MissedIsBounded == \A b \in Broadcasters : Casting(b) => Bounded(b)

\* A broadcast of a tab is not for the tabs of its own user.
AudienceIsOthers ==
    \A b \in Broadcasters : \A t \in cast[b].audience :
        b \in Requests \/ UserOf[t] # UserOf[b]

SocketInv == /\ SocketTypeOK /\ FreshTabs /\ DeadAreGone /\ VisitedIsBehind /\ MissedIsBounded
             /\ AudienceIsOthers /\ LiveAreToldOnce

CastType == [cursor : Nat, dead : SUBSET Tabs, copies : [Tabs -> Nat],
             audience : SUBSET Tabs, removed : Nat]

-----------------------------------------------------------------------------
(* Removal from a list                                                     *)

LEMMA RankGrows ==
    ASSUME NEW K \in SUBSET Nat, IsFiniteSet(K), NEW i \in K, NEW k \in K, i < k
    PROVE  Rank(K, i) < Rank(K, k)
  <1> DEFINE below(n) == {j \in K : j <= n}
  <1>1. IsFiniteSet(below(k)) /\ Cardinality(below(k)) \in Nat
    BY FS_Subset, FS_CardinalityType
  <1>2. below(i) \subseteq below(k) /\ k \notin below(i) /\ k \in below(k)
    <2>1. \A j \in K : j \in Nat  OBVIOUS
    <2>2. \A j \in K : j <= i => j <= k  BY <2>1
    <2>3. ~(k <= i) /\ k <= k  BY <2>1
    <2>4. QED  BY <2>2, <2>3
  <1>3. /\ IsFiniteSet(below(i)) /\ Cardinality(below(i)) \in Nat
        /\ Cardinality(below(i)) <= Cardinality(below(k))
        /\ Cardinality(below(k)) = Cardinality(below(i)) => below(k) = below(i)
    BY <1>1, <1>2, FS_Subset, FS_CardinalityType
  <1>4. Cardinality(below(i)) # Cardinality(below(k))  BY <1>2, <1>3
  <1>5. QED  BY <1>1, <1>3, <1>4 DEF Rank

LEMMA RankRange ==
    ASSUME NEW K \in SUBSET Nat, IsFiniteSet(K), NEW i \in K
    PROVE  Cardinality(K) \in Nat /\ Rank(K, i) \in 1 .. Cardinality(K)
  <1> DEFINE below == {j \in K : j <= i}
  <1>1. below \subseteq K /\ i \in below /\ below # {}  OBVIOUS
  <1>2. /\ IsFiniteSet(below) /\ Cardinality(below) \in Nat /\ Cardinality(K) \in Nat
        /\ Cardinality(below) <= Cardinality(K)
    BY <1>1, FS_Subset, FS_CardinalityType
  <1>3. Cardinality(below) # 0  BY <1>1, <1>2, FS_EmptySet
  <1>4. QED  BY <1>2, <1>3 DEF Rank

\* Every place up to the number of those kept is taken.
LEMMA RankOnto ==
    ASSUME NEW K \in SUBSET Nat, IsFiniteSet(K), NEW n \in 1 .. Cardinality(K)
    PROVE  \E i \in K : Rank(K, i) = n
  <1> DEFINE f == [i \in K |-> Rank(K, i)]
             T == 1 .. Cardinality(K)
  <1>1. Cardinality(K) \in Nat  BY FS_CardinalityType
  <1>2. IsFiniteSet(T) /\ Cardinality(T) = Cardinality(K)  BY <1>1, FS_Interval
  <1>3. f \in [K -> T]  BY RankRange
  <1>4. \A i, k \in K : f[i] = f[k] => i = k
    <2>1. SUFFICES ASSUME NEW i \in K, NEW k \in K, i < k PROVE Rank(K, i) # Rank(K, k)
      OBVIOUS
    <2>2. Rank(K, i) \in Nat /\ Rank(K, k) \in Nat  BY <1>1, RankRange
    <2>3. QED  BY <2>1, <2>2, RankGrows
  <1> HIDE DEF f, T
  <1>5. f \in Injection(K, T)  BY <1>3, <1>4 DEF Injection, IsInjective
  <1>6. f \in Surjection(K, T)  BY <1>2, <1>5, FS_Injection
  <1>7. \A t \in T : \E i \in K : f[i] = t  BY <1>6 DEF Surjection
  <1>8. QED  BY <1>7 DEF f, T

\* It moves to the front by no more than was removed before it.
LEMMA RankShift ==
    ASSUME NEW m \in Nat, NEW K \in SUBSET (1 .. m), NEW i \in K
    PROVE  /\ Cardinality((1 .. m) \ K) \in Nat /\ Rank(K, i) \in Nat
           /\ Rank(K, i) <= i /\ i <= Rank(K, i) + Cardinality((1 .. m) \ K)
  <1> DEFINE below == {j \in K : j <= i}
             others == {j \in (1 .. m) \ K : j <= i}
             gone == (1 .. m) \ K
  <1>1. IsFiniteSet(1 .. m) /\ IsFiniteSet(1 .. i) /\ Cardinality(1 .. i) = i
    BY FS_Interval
  <1>2. /\ IsFiniteSet(below) /\ Cardinality(below) \in Nat /\ Cardinality(below) <= i
        /\ IsFiniteSet(others) /\ Cardinality(others) \in Nat
        /\ IsFiniteSet(gone) /\ Cardinality(gone) \in Nat
        /\ Cardinality(others) <= Cardinality(gone)
    <2>1. below \subseteq 1 .. i /\ others \subseteq 1 .. i
      <3>1. i \in Nat /\ \A j \in 1 .. m : j \in Nat /\ 1 <= j  OBVIOUS
      <3>2. \A j \in 1 .. m : j <= i => j \in 1 .. i  BY <3>1
      <3>3. QED  BY <3>2
    <2>2. others \subseteq gone /\ gone \subseteq 1 .. m  OBVIOUS
    <2> HIDE DEF below, others, gone
    <2>3. QED  BY <1>1, <2>1, <2>2, FS_Subset, FS_CardinalityType
  <1>3. below \cup others = 1 .. i /\ below \cap others = {}
    <2>1. i \in 1 .. m  OBVIOUS
    <2>2. \A j : j \in 1 .. i <=> j \in 1 .. m /\ j <= i  BY <2>1
    <2>3. QED  BY <2>2
  <1>4. Cardinality(1 .. i) = Cardinality(below) + Cardinality(others)
    <2> HIDE DEF below, others
    <2>1. Cardinality(below \cap others) = 0  BY <1>3, FS_EmptySet
    <2>2. Cardinality(below \cup others) =
             Cardinality(below) + Cardinality(others) - Cardinality(below \cap others)
      BY <1>2, FS_Union
    <2>3. Cardinality(below \cup others) = Cardinality(below) + Cardinality(others)
      BY <1>2, <2>1, <2>2
    <2>4. below \cup others = 1 .. i  BY <1>3
    <2>5. QED  BY <2>3, <2>4
  <1>5. QED  BY <1>1, <1>2, <1>4 DEF Rank

\* The list that remains: every kept entry at its place, and no other.
LEMMA WithoutIs ==
    ASSUME NEW S, NEW list \in Seq(S), NEW gone
    PROVE  /\ Without(list, gone) \in Seq(S)
           /\ DOMAIN Without(list, gone) = 1 .. Cardinality(Kept(list, gone))
           /\ \A i \in Kept(list, gone) :
                 /\ Rank(Kept(list, gone), i) \in DOMAIN Without(list, gone)
                 /\ Without(list, gone)[Rank(Kept(list, gone), i)] = list[i]
           /\ \A n \in DOMAIN Without(list, gone) :
                 \E i \in Kept(list, gone) : Rank(Kept(list, gone), i) = n
  <1> DEFINE K == Kept(list, gone)
  <1>1. Len(list) \in Nat /\ DOMAIN list = 1 .. Len(list) /\ \A i \in DOMAIN list : list[i] \in S
    BY LenProperties
  <1>2. K \in SUBSET Nat /\ K \subseteq 1 .. Len(list)  BY <1>1 DEF Kept
  <1> HIDE DEF K
  <1>3. IsFiniteSet(K) /\ Cardinality(K) \in Nat
    <2>1. IsFiniteSet(1 .. Len(list))  BY <1>1, FS_Interval
    <2>2. IsFiniteSet(K)  BY <1>2, <2>1, FS_Subset
    <2>3. QED  BY <2>2, FS_CardinalityType
  <1>4. ASSUME NEW i \in K PROVE (CHOOSE k \in K : Rank(K, k) = Rank(K, i)) = i
    <2>1. \A k \in K : k # i => Rank(K, k) # Rank(K, i)
      <3>1. SUFFICES ASSUME NEW k \in K, k # i PROVE Rank(K, k) # Rank(K, i)  OBVIOUS
      <3>2. Rank(K, i) \in Nat /\ Rank(K, k) \in Nat  BY <1>2, <1>3, RankRange
      <3>3. k < i \/ i < k  BY <1>2, <3>1
      <3>4. QED  BY <1>2, <1>3, <3>2, <3>3, RankGrows
    <2>2. QED  BY <2>1
  <1>5. Without(list, gone) =
            [n \in 1 .. Cardinality(K) |-> list[CHOOSE i \in K : Rank(K, i) = n]]
    BY DEF Without, K
  <1>6. ASSUME NEW i \in K
        PROVE  /\ Rank(K, i) \in DOMAIN Without(list, gone)
               /\ Without(list, gone)[Rank(K, i)] = list[i]
    <2>1. Rank(K, i) \in 1 .. Cardinality(K)  BY <1>2, <1>3, RankRange
    <2>2. Without(list, gone)[Rank(K, i)] = list[CHOOSE k \in K : Rank(K, k) = Rank(K, i)]
      BY <1>5, <2>1
    <2>3. QED  BY <1>4, <1>5, <2>1, <2>2
  <1>7. ASSUME NEW n \in 1 .. Cardinality(K) PROVE \E i \in K : Rank(K, i) = n
    BY <1>2, <1>3, RankOnto
  <1>8. \A n \in 1 .. Cardinality(K) : Without(list, gone)[n] \in S
    <2>1. TAKE n \in 1 .. Cardinality(K)
    <2>2. PICK i \in K : Rank(K, i) = n  BY <1>7
    <2>3. Without(list, gone)[n] = list[i]  BY <1>6, <2>2
    <2>4. QED  BY <1>1, <1>2, <2>3
  <1>9. Without(list, gone) \in Seq(S)
    <2>1. Without(list, gone) \in [1 .. Cardinality(K) -> S]  BY <1>5, <1>8
    <2>2. QED  BY <1>3, <2>1, SeqDef
  <1>10. QED  BY <1>5, <1>6, <1>7, <1>9 DEF K

-----------------------------------------------------------------------------
(* The list of connections                                                 *)

LEMMA SocketTyped ==
    ASSUME SocketInv
    PROVE  /\ conns \in Seq(Tabs) /\ Len(conns) \in Nat /\ DOMAIN conns = 1 .. Len(conns)
           /\ \A i \in DOMAIN conns : conns[i] \in Tabs /\ i \in Nat /\ 1 <= i
           /\ \A i, j \in DOMAIN conns : conns[i] = conns[j] => i = j
           /\ Listed \subseteq Tabs /\ IsFiniteSet(Listed)
           /\ cast \in [Broadcasters -> CastType]
  <1>1. conns \in Seq(Tabs) /\ cast \in [Broadcasters -> CastType]
    BY DEF SocketInv, SocketTypeOK, CastType
  <1>2. /\ Len(conns) \in Nat /\ DOMAIN conns = 1 .. Len(conns)
        /\ \A i \in DOMAIN conns : conns[i] \in Tabs /\ i \in Nat /\ 1 <= i
    BY <1>1, LenProperties
  <1>3. Listed \subseteq Tabs  BY <1>2 DEF Listed
  <1>4. IsFiniteSet(Listed)
    <2> DEFINE f == [i \in DOMAIN conns |-> conns[i]]
    <2>1. f \in Surjection(DOMAIN conns, Listed)  BY DEF Surjection, Listed
    <2>2. IsFiniteSet(DOMAIN conns)  BY <1>2, FS_Interval
    <2> HIDE DEF f
    <2>3. QED  BY <2>1, <2>2, FS_Surjection
  <1>5. QED  BY <1>1, <1>2, <1>3, <1>4 DEF SocketInv, SocketTypeOK

LEMMA CastFields ==
    ASSUME SocketInv, NEW b \in Broadcasters
    PROVE  /\ cast[b] \in CastType /\ cast[b].cursor \in Nat /\ cast[b].removed \in Nat
           /\ cast[b].dead \subseteq Tabs /\ cast[b].audience \subseteq Tabs
           /\ cast[b].copies \in [Tabs -> Nat]
           /\ Visited(b) \subseteq Tabs
           /\ IsFiniteSet(Missed(b)) /\ Cardinality(Missed(b)) \in Nat
  <1>1. cast[b] \in CastType  BY SocketTyped
  <1>2. Missed(b) \subseteq Listed  BY DEF Missed
  <1>3. IsFiniteSet(Missed(b)) /\ Cardinality(Missed(b)) \in Nat
    BY <1>2, SocketTyped, FS_Subset, FS_CardinalityType
  <1>4. QED  BY <1>1, <1>3 DEF CastType, Visited

\* Connections are removed: the others keep their order and move to the front by
\* no more than there were removals.
LEMMA ListShrinks ==
    ASSUME SocketInv, NEW gone \in SUBSET Tabs, conns' = Without(conns, gone)
    PROVE  /\ conns' \in Seq(Tabs)
           /\ \A n, m \in DOMAIN conns' : conns'[n] = conns'[m] => n = m
           /\ Listed' = Listed \ gone
           /\ Cardinality(gone \cap Listed) \in Nat
           /\ \A n \in DOMAIN conns' : n \in Nat /\ \E i \in DOMAIN conns :
                 /\ conns[i] = conns'[n]
                 /\ n <= i /\ i <= n + Cardinality(gone \cap Listed)
  <1> DEFINE K == Kept(conns, gone)
             R == (1 .. Len(conns)) \ K
  <1>1. /\ Len(conns) \in Nat /\ DOMAIN conns = 1 .. Len(conns) /\ conns \in Seq(Tabs)
        /\ \A i, j \in DOMAIN conns : conns[i] = conns[j] => i = j
    BY SocketTyped
  <1>2. /\ conns' \in Seq(Tabs) /\ DOMAIN conns' = 1 .. Cardinality(K)
        /\ \A i \in K : Rank(K, i) \in DOMAIN conns' /\ conns'[Rank(K, i)] = conns[i]
        /\ \A n \in DOMAIN conns' : \E i \in K : Rank(K, i) = n
    BY <1>1, WithoutIs
  <1>3. K \in SUBSET (1 .. Len(conns))  BY <1>1 DEF Kept
  <1>4. IsFiniteSet(gone \cap Listed) /\ Cardinality(gone \cap Listed) \in Nat
    BY SocketTyped, FS_Intersection, FS_CardinalityType
  <1>5. Cardinality(R) <= Cardinality(gone \cap Listed)
    <2> DEFINE f == [i \in R |-> conns[i]]
    <2>1. f \in [R -> gone \cap Listed]  BY <1>1 DEF Listed, Kept
    <2>2. f \in Injection(R, gone \cap Listed)  BY <1>1, <2>1 DEF Injection, IsInjective
    <2> HIDE DEF f, R
    <2>3. QED  BY <1>4, <2>2, FS_Injection
  <1>6. ASSUME NEW n \in DOMAIN conns'
        PROVE  n \in Nat /\ \E i \in DOMAIN conns :
                  /\ conns[i] = conns'[n]
                  /\ n <= i /\ i <= n + Cardinality(gone \cap Listed)
    <2>1. PICK i \in K : Rank(K, i) = n  BY <1>2
    <2>2. conns[i] = conns'[n] /\ i \in DOMAIN conns /\ i \in Nat
      BY <1>1, <1>2, <1>3, <2>1
    <2>3. Cardinality(R) \in Nat /\ n \in Nat /\ n <= i /\ i <= n + Cardinality(R)
      BY <1>1, <1>3, <2>1, RankShift
    <2> HIDE DEF R
    <2>4. i <= n + Cardinality(gone \cap Listed)  BY <1>4, <1>5, <2>2, <2>3
    <2>5. QED  BY <2>2, <2>3, <2>4
  <1>7. ASSUME NEW n \in DOMAIN conns', NEW m \in DOMAIN conns', conns'[n] = conns'[m]
        PROVE  n = m
    <2>1. PICK i \in K : Rank(K, i) = n  BY <1>2
    <2>2. PICK k \in K : Rank(K, k) = m  BY <1>2
    <2>3. conns[i] = conns[k]  BY <1>2, <1>7, <2>1, <2>2
    <2>4. i = k  BY <1>1, <1>3, <2>3
    <2>5. QED  BY <2>1, <2>2, <2>4
  <1>8. Listed' = Listed \ gone
    <2>1. ASSUME NEW t, t \in Listed' PROVE t \in Listed \ gone
      <3>1. PICK n \in DOMAIN conns' : conns'[n] = t  BY <2>1 DEF Listed
      <3>2. PICK i \in K : Rank(K, i) = n  BY <1>2
      <3>3. conns[i] = t /\ i \in DOMAIN conns /\ conns[i] \notin gone
        BY <1>2, <3>1, <3>2 DEF Kept
      <3>4. QED  BY <3>3 DEF Listed
    <2>2. ASSUME NEW t, t \in Listed \ gone PROVE t \in Listed'
      <3>1. PICK i \in DOMAIN conns : conns[i] = t  BY <2>2 DEF Listed
      <3>2. i \in K  BY <2>2, <3>1 DEF Kept
      <3>3. Rank(K, i) \in DOMAIN conns' /\ conns'[Rank(K, i)] = t  BY <1>2, <3>1, <3>2
      <3>4. QED  BY <3>3 DEF Listed
    <2>3. QED  BY <2>1, <2>2
  <1>9. QED  BY <1>2, <1>4, <1>6, <1>7, <1>8

-----------------------------------------------------------------------------
(* One broadcast                                                           *)

\* Neither the list nor the broadcast changes.
LEMMA CastSame ==
    ASSUME NEW b \in Broadcasters, conns' = conns, cast'[b] = cast[b]
    PROVE  /\ Visited(b)' = Visited(b)
           /\ Behind(b) => Behind(b)'
           /\ Bounded(b) => Bounded(b)'
  <1>1. Visited(b)' = Visited(b)  BY DEF Visited
  <1>2. Missed(b)' = Missed(b)  BY DEF Missed, Listed
  <1>3. QED  BY <1>1, <1>2 DEF Behind, Bounded

\* A broadcast starts at the front.
LEMMA CastStarts ==
    ASSUME NEW b \in Broadcasters, conns' \in Seq(Tabs),
           cast'[b].cursor = 0, cast'[b].dead = {}, cast'[b].removed = 0,
           cast'[b].copies = [t \in Tabs |-> 0]
    PROVE  Visited(b)' = {} /\ Behind(b)' /\ Bounded(b)'
  <1>1. \A i \in DOMAIN conns' : i \in Nat /\ 1 <= i  BY LenProperties
  <1>2. Visited(b)' = {}  BY DEF Visited
  <1>3. Behind(b)'  BY <1>2 DEF Behind
  <1>4. Missed(b)' = {}  BY <1>1 DEF Missed
  <1>5. Cardinality(Missed(b)') = 0  BY <1>4, FS_EmptySet
  <1>6. QED  BY <1>2, <1>3, <1>5 DEF Bounded

\* Connections are removed under a broadcast: it may pass over as many.
LEMMA CastShifts ==
    ASSUME SocketInv, NEW gone \in SUBSET Tabs, conns' = Without(conns, gone),
           NEW b \in Broadcasters, Casting(b),
           cast'[b] = [cast[b] EXCEPT !.removed = @ + Cardinality(gone \cap Listed)]
    PROVE  Visited(b)' = Visited(b) /\ Behind(b)' /\ Bounded(b)'
  <1> DEFINE g == Cardinality(gone \cap Listed)
             k == cast[b].cursor
             D == {i \in DOMAIN conns : k < i /\ i <= k + g}
             Shifted == {conns[i] : i \in D}
  <1>1. /\ cast[b] \in CastType /\ k \in Nat /\ cast[b].removed \in Nat
        /\ IsFiniteSet(Missed(b)) /\ Cardinality(Missed(b)) \in Nat
    BY CastFields
  <1>2. /\ cast'[b].cursor = k /\ cast'[b].dead = cast[b].dead
        /\ cast'[b].copies = cast[b].copies /\ cast'[b].audience = cast[b].audience
        /\ cast'[b].removed = cast[b].removed + g
    BY <1>1 DEF CastType
  <1>3. Visited(b)' = Visited(b)  BY <1>2 DEF Visited
  <1>4. /\ g \in Nat /\ Listed' = Listed \ gone
        /\ \A n \in DOMAIN conns' : n \in Nat /\ \E i \in DOMAIN conns :
              conns[i] = conns'[n] /\ n <= i /\ i <= n + g
    BY ListShrinks
  <1>5. \A i \in DOMAIN conns : i \in Nat  BY SocketTyped
  <1>6. Behind(b) /\ Bounded(b)  BY DEF SocketInv, VisitedIsBehind, MissedIsBounded
  <1>7. Behind(b)'
    <2>1. SUFFICES ASSUME NEW n \in DOMAIN conns', conns'[n] \in Visited(b)
                   PROVE  n <= k
      BY <1>2, <1>3 DEF Behind
    <2>2. PICK i \in DOMAIN conns : conns[i] = conns'[n] /\ n <= i  BY <1>4
    <2>3. i <= k  BY <1>6, <2>1, <2>2 DEF Behind
    <2>4. QED  BY <1>1, <1>4, <1>5, <2>2, <2>3
  <1>8. Missed(b)' \subseteq Missed(b) \cup Shifted
    <2>1. SUFFICES ASSUME NEW t \in Missed(b)', t \notin Shifted PROVE t \in Missed(b)
      OBVIOUS
    <2>2. /\ t \in cast[b].audience /\ t \in Listed
          /\ t \notin cast[b].dead /\ cast[b].copies[t] = 0
      BY <1>2, <1>4, <2>1 DEF Missed
    <2>3. PICK n \in DOMAIN conns' : conns'[n] = t /\ n <= k  BY <1>2, <2>1 DEF Missed
    <2>4. PICK i \in DOMAIN conns : conns[i] = t /\ n <= i /\ i <= n + g  BY <1>4, <2>3
    <2>5. i <= k + g  BY <1>1, <1>4, <1>5, <2>3, <2>4
    <2>6. ~(k < i)  BY <2>1, <2>4, <2>5
    <2>7. i <= k  BY <1>1, <1>5, <2>6
    <2>8. QED  BY <2>2, <2>4, <2>7 DEF Missed
  <1>9. IsFiniteSet(Shifted) /\ Cardinality(Shifted) \in Nat /\ Cardinality(Shifted) <= g
    <2> DEFINE f == [i \in D |-> conns[i]]
    <2>1. D \subseteq (k + 1) .. (k + g)  BY <1>1, <1>4, <1>5
    <2>2. /\ IsFiniteSet((k + 1) .. (k + g)) /\ Cardinality((k + 1) .. (k + g)) = g
      <3>1. k + 1 \in Int /\ k + g \in Int  BY <1>1, <1>4
      <3>2. /\ IsFiniteSet((k + 1) .. (k + g))
            /\ Cardinality((k + 1) .. (k + g)) =
                  IF k + 1 > k + g THEN 0 ELSE (k + g) - (k + 1) + 1
        BY <3>1, FS_Interval
      <3>3. (IF k + 1 > k + g THEN 0 ELSE (k + g) - (k + 1) + 1) = g  BY <1>1, <1>4
      <3>4. QED  BY <3>2, <3>3
    <2>3. IsFiniteSet(D) /\ Cardinality(D) \in Nat /\ Cardinality(D) <= g
      BY <2>1, <2>2, FS_Subset, FS_CardinalityType
    <2>4. f \in Surjection(D, Shifted)  BY DEF Surjection
    <2>5. IsFiniteSet(Shifted) /\ Cardinality(Shifted) <= Cardinality(D)
      <3> HIDE DEF f, D, Shifted
      <3>1. QED  BY <2>3, <2>4, FS_Surjection
    <2>6. Cardinality(Shifted) \in Nat  BY <2>5, FS_CardinalityType
    <2> HIDE DEF Shifted, D, g
    <2>7. QED  BY <1>4, <2>3, <2>5, <2>6
  <1>10. Bounded(b)'
    <2> HIDE DEF Shifted, D, g, k
    <2>1. /\ IsFiniteSet(Missed(b) \cup Shifted)
          /\ Cardinality(Missed(b) \cup Shifted) =
               Cardinality(Missed(b)) + Cardinality(Shifted) - Cardinality(Missed(b) \cap Shifted)
      BY <1>1, <1>9, FS_Union
    <2>2. Cardinality(Missed(b) \cap Shifted) \in Nat
      BY <1>1, FS_Intersection, FS_CardinalityType
    <2>3. /\ IsFiniteSet(Missed(b)')
          /\ Cardinality(Missed(b)') <= Cardinality(Missed(b) \cup Shifted)
      BY <1>8, <2>1, FS_Subset
    <2>4. Cardinality(Missed(b)') \in Nat  BY <2>3, FS_CardinalityType
    <2>5. Cardinality(Missed(b)) <= cast[b].removed  BY <1>6 DEF Bounded
    <2>6. Cardinality(Missed(b)') <= cast[b].removed + g
      BY <1>1, <1>4, <1>9, <2>1, <2>2, <2>3, <2>4, <2>5
    <2>7. QED  BY <1>2, <2>6 DEF Bounded
  <1>11. QED  BY <1>3, <1>7, <1>10

-----------------------------------------------------------------------------
(* Every step keeps the invariant                                          *)

LEMMA FirstAhead ==
    ASSUME SocketInv, NEW b \in Broadcasters, Ahead(b) # {}
    PROVE  \E i \in Ahead(b) : \A j \in Ahead(b) : i <= j
  <1>1. Ahead(b) \subseteq 1 .. Len(conns) /\ Len(conns) \in Nat /\ Ahead(b) \in SUBSET Nat
    BY SocketTyped DEF Ahead
  <1>2. IsFiniteSet(Ahead(b))
    <2>1. IsFiniteSet(1 .. Len(conns))  BY <1>1, FS_Interval
    <2>2. QED  BY <1>1, <2>1, FS_Subset
  <1>3. Cardinality(Ahead(b)) \in Nat /\ Cardinality(Ahead(b)) # 0
    BY <1>2, FS_CardinalityType, FS_EmptySet
  <1>4. PICK i \in Ahead(b) : Rank(Ahead(b), i) = 1
    <2>1. 1 \in 1 .. Cardinality(Ahead(b))  BY <1>3
    <2>2. QED  BY <1>1, <1>2, <2>1, RankOnto
  <1>5. ASSUME NEW j \in Ahead(b) PROVE i <= j
    <2>1. SUFFICES ASSUME j < i PROVE FALSE  BY <1>1
    <2>2. Rank(Ahead(b), j) < Rank(Ahead(b), i)  BY <1>1, <1>2, <2>1, RankGrows
    <2>3. Rank(Ahead(b), j) \in 1 .. Cardinality(Ahead(b))  BY <1>1, <1>2, RankRange
    <2>4. QED  BY <1>3, <1>4, <2>2, <2>3
  <1>6. QED  BY <1>5

\* What one send does to its own broadcast.
LEMMA Sent ==
    ASSUME SocketInv, NEW b \in Broadcasters, Casting(b), NEW i \in Ahead(b), conns' = conns,
           \A j \in Ahead(b) : i <= j, NEW t, t = conns[i],
           cast'[b] = AfterSend(b, i, t)
    PROVE  /\ cast'[b] \in CastType /\ cast'[b].audience = cast[b].audience
           /\ Visited(b)' = Visited(b) \cup {t} /\ Behind(b)' /\ Bounded(b)'
           /\ cast'[b].dead \subseteq cast[b].dead \cup {t}
           /\ net[t] = "live" => cast'[b].dead = cast[b].dead
           /\ \A x \in Tabs : cast'[b].copies[x] <= 1
  <1>1. /\ cast[b] \in CastType /\ cast[b].copies \in [Tabs -> Nat]
        /\ cast[b].cursor \in Nat /\ cast[b].removed \in Nat /\ cast[b].dead \subseteq Tabs
        /\ IsFiniteSet(Missed(b))
    BY CastFields
  <1>2. /\ i \in DOMAIN conns /\ i \in Nat /\ t \in Tabs /\ cast[b].cursor < i
        /\ t \in Addressed(b)
    BY SocketTyped DEF Ahead
  <1>3. Behind(b) /\ Bounded(b)  BY DEF SocketInv, VisitedIsBehind, MissedIsBounded
  <1>4. t \notin Visited(b)
    <2>1. SUFFICES ASSUME t \in Visited(b) PROVE FALSE  OBVIOUS
    <2>2. i <= cast[b].cursor  BY <1>2, <1>3, <2>1 DEF Behind
    <2>3. QED  BY <1>1, <1>2, <2>2
  <1>5. cast[b].copies[t] = 0 /\ t \notin cast[b].dead  BY <1>1, <1>2, <1>4 DEF Visited
  <1>6. /\ cast'[b] \in CastType /\ cast'[b].cursor = i
        /\ cast'[b].audience = cast[b].audience /\ cast'[b].removed = cast[b].removed
        /\ \A x \in Tabs : x # t => cast'[b].copies[x] = cast[b].copies[x]
        /\ \A x \in Tabs : x # t => (x \in cast'[b].dead <=> x \in cast[b].dead)
        /\ cast'[b].copies[t] = IF net[t] = "live" THEN 1 ELSE 0
        /\ cast'[b].dead = IF net[t] = "live" THEN cast[b].dead ELSE cast[b].dead \cup {t}
    <2>1. CASE net[t] = "live"
      <3> DEFINE x == [cast[b].copies EXCEPT ![t] = @ + 1]
      <3>1. cast'[b] = [cast[b] EXCEPT !.cursor = i, !.copies = x]  BY <2>1 DEF AfterSend
      <3>2. x \in [Tabs -> Nat] /\ x[t] = 1 /\ \A s \in Tabs : s # t => x[s] = cast[b].copies[s]
        BY <1>1, <1>2, <1>5
      <3> HIDE DEF x
      <3>3. /\ cast'[b] \in CastType /\ cast'[b].cursor = i /\ cast'[b].copies = x
            /\ cast'[b].dead = cast[b].dead
            /\ cast'[b].audience = cast[b].audience /\ cast'[b].removed = cast[b].removed
        BY <1>1, <1>2, <3>1, <3>2 DEF CastType
      <3>4. QED  BY <2>1, <3>2, <3>3
    <2>2. CASE net[t] # "live"
      <3> DEFINE x == cast[b].dead \cup {t}
      <3>1. cast'[b] = [cast[b] EXCEPT !.cursor = i, !.dead = x]  BY <2>2 DEF AfterSend
      <3>2. x \in SUBSET Tabs  BY <1>1, <1>2
      <3> HIDE DEF x
      <3>3. /\ cast'[b] \in CastType /\ cast'[b].cursor = i
            /\ cast'[b].copies = cast[b].copies /\ cast'[b].dead = x
            /\ cast'[b].audience = cast[b].audience /\ cast'[b].removed = cast[b].removed
        BY <1>1, <1>2, <3>1, <3>2 DEF CastType
      <3>4. QED  BY <1>5, <2>2, <3>3 DEF x
    <2>3. QED  BY <2>1, <2>2
  <1>7. Visited(b)' = Visited(b) \cup {t}  BY <1>2, <1>6 DEF Visited
  <1>8. Behind(b)'
    <2>1. SUFFICES ASSUME NEW j \in DOMAIN conns, conns[j] \in Visited(b) \cup {t} PROVE j <= i
      BY <1>6, <1>7 DEF Behind
    <2>2. CASE conns[j] \in Visited(b)
      <3>1. j <= cast[b].cursor /\ j \in Nat  BY <1>3, <2>2, SocketTyped DEF Behind
      <3>2. QED  BY <1>1, <1>2, <3>1
    <2>3. CASE conns[j] = t
      <3>1. j = i  BY <1>2, <2>3, SocketTyped
      <3>2. QED  BY <1>2, <3>1
    <2>4. QED  BY <2>1, <2>2, <2>3
  <1>9. Missed(b)' \subseteq Missed(b)
    <2>1. SUFFICES ASSUME NEW x \in Missed(b)' PROVE x \in Missed(b)  OBVIOUS
    <2>2. PICK j \in DOMAIN conns : conns[j] = x /\ j <= i  BY <1>6, <2>1 DEF Missed
    <2>3. x \in Tabs /\ j \in Nat  BY <2>2, SocketTyped
    <2>4. x \in cast[b].audience /\ x \in Listed  BY <1>6, <2>1 DEF Missed, Listed
    <2>5. x # t  BY <1>6, <2>1 DEF Missed
    <2>6. x \notin cast[b].dead /\ cast[b].copies[x] = 0
      BY <1>6, <2>1, <2>3, <2>5 DEF Missed
    <2>7. j <= cast[b].cursor
      <3>1. SUFFICES ASSUME cast[b].cursor < j PROVE FALSE  BY <1>1, <2>3
      <3>2. x \in Addressed(b)  BY <2>4 DEF SocketInv, AudienceIsOthers, Addressed
      <3>3. j \in Ahead(b)  BY <2>2, <3>1, <3>2 DEF Ahead
      <3>4. i = j  BY <1>2, <2>2, <2>3, <3>3
      <3>5. QED  BY <2>2, <2>5, <3>4
    <2>8. QED  BY <2>2, <2>4, <2>6, <2>7 DEF Missed
  <1>10. Bounded(b)'
    <2>1. /\ Cardinality(Missed(b)) \in Nat /\ Cardinality(Missed(b)') \in Nat
          /\ Cardinality(Missed(b)') <= Cardinality(Missed(b))
      BY <1>1, <1>9, FS_Subset, FS_CardinalityType
    <2>2. QED  BY <1>1, <1>3, <1>6, <2>1 DEF Bounded
  <1>11. \A x \in Tabs : cast'[b].copies[x] <= 1
    <2>1. TAKE x \in Tabs
    <2>2. cast[b].copies[x] <= 1  BY DEF SocketInv, LiveAreToldOnce, NoDuplicates
    <2>3. QED  BY <1>6, <2>2
  <1>12. QED  BY <1>6, <1>7, <1>8, <1>10, <1>11

Places == {"closed", "listing", "greeting", "open", "announcing", "leaving", "casting", "done",
           "failed"}

LEMMA SocketRest ==
    ASSUME SocketInv
    PROVE  /\ net \in [Tabs -> {"none", "live", "gone"}] /\ pc \in [Broadcasters -> Places]
           /\ announced \subseteq Tabs /\ Tabs \subseteq Broadcasters
           /\ FreshTabs /\ DeadAreGone /\ VisitedIsBehind /\ MissedIsBounded
           /\ AudienceIsOthers /\ LiveIsListed /\ NoDuplicates
  BY DEF SocketInv, SocketTypeOK, Places, Broadcasters, LiveAreToldOnce

LEMMA SendKeeps ==
    ASSUME SocketInv, NEW b \in Broadcasters, Send(b)
    PROVE  SocketInv'
  <1>1. /\ Casting(b) /\ Ahead(b) # {} /\ UNCHANGED <<conns, net, pc, announced>>
        /\ cast \in [Broadcasters -> CastType]
    BY SocketTyped DEF Send
  <1>2. PICK k : k = CHOOSE i \in Ahead(b) : \A j \in Ahead(b) : i <= j  OBVIOUS
  <1>3. k \in Ahead(b) /\ \A j \in Ahead(b) : k <= j  BY <1>1, <1>2, FirstAhead
  <1>4. PICK t \in Tabs : t = conns[k] /\ t \in Listed
    BY <1>3, SocketTyped DEF Ahead, Listed
  <1>5. cast' = [cast EXCEPT ![b] = AfterSend(b, k, t)]  BY <1>2, <1>4 DEF Send
  <1>6. /\ cast'[b] = AfterSend(b, k, t)
        /\ \A d \in Broadcasters : d # b => cast'[d] = cast[d]
    BY <1>1, <1>5
  <1>7. /\ cast'[b] \in CastType /\ cast'[b].audience = cast[b].audience
        /\ Visited(b)' = Visited(b) \cup {t} /\ Behind(b)' /\ Bounded(b)'
        /\ cast'[b].dead \subseteq cast[b].dead \cup {t}
        /\ net[t] = "live" => cast'[b].dead = cast[b].dead
        /\ \A x \in Tabs : cast'[b].copies[x] <= 1
    BY <1>1, <1>3, <1>4, <1>6, Sent
  <1>8. \A d \in Broadcasters : d # b =>
            /\ Visited(d)' = Visited(d)
            /\ Behind(d) => Behind(d)'
            /\ Bounded(d) => Bounded(d)'
    BY <1>1, <1>6, CastSame
  <1>9. cast' \in [Broadcasters -> CastType]  BY <1>1, <1>5, <1>6, <1>7
  <1>10. Listed' = Listed /\ \A d : Casting(d)' <=> Casting(d)
    BY <1>1 DEF Listed, Casting
  <1>11. SocketTypeOK'  BY <1>1, <1>9 DEF SocketInv, SocketTypeOK, CastType
  <1>12. pc[t] # "closed" /\ net[t] # "none"  BY <1>4, SocketRest DEF FreshTabs
  <1>13. FreshTabs'
    BY <1>1, <1>6, <1>7, <1>8, <1>10, <1>12, SocketRest DEF FreshTabs
  <1>14. DeadAreGone'
    <2>1. net[t] \in {"live", "gone"}  BY <1>12, SocketRest
    <2>2. \A x \in cast'[b].dead : net[x] = "gone"
      BY <1>7, <2>1, SocketRest DEF DeadAreGone
    <2>3. QED  BY <1>1, <1>6, <2>2, SocketRest DEF DeadAreGone
  <1>15. VisitedIsBehind' /\ MissedIsBounded'
    BY <1>7, <1>8, <1>10, SocketRest DEF VisitedIsBehind, MissedIsBounded
  <1>16. AudienceIsOthers'  BY <1>6, <1>7, SocketRest DEF AudienceIsOthers
  <1>17. LiveIsListed' /\ NoDuplicates'
    BY <1>1, <1>6, <1>7, <1>10, SocketRest DEF LiveIsListed, NoDuplicates
  <1>18. QED
    BY <1>11, <1>13, <1>14, <1>15, <1>16, <1>17 DEF SocketInv, LiveAreToldOnce

\* A broadcast that has sent nothing yet.
IsNew(b, x) ==
    /\ x \in CastType /\ x.cursor = 0 /\ x.dead = {} /\ x.removed = 0
    /\ x.copies = [t \in Tabs |-> 0] /\ x.audience \subseteq Listed
    /\ \A t \in x.audience : b \in Requests \/ UserOf[t] # UserOf[b]

LEMMA StartIsNew ==
    ASSUME SocketInv, NEW b
    PROVE  /\ IsNew(b, Start(b)) /\ IsNew(b, NoCast)
           /\ \A t : IsNew(b, [Start(b) EXCEPT !.audience = Addressed(b) \ {t}])
  <1>1. Addressed(b) \subseteq Listed /\ Listed \subseteq Tabs
    BY SocketTyped DEF Addressed
  <1>2. \A t \in Addressed(b) : b \in Requests \/ UserOf[t] # UserOf[b]  BY DEF Addressed
  <1>3. IsNew(b, NoCast)  BY DEF NoCast, IsNew, CastType
  <1>4. ASSUME NEW a \in SUBSET Addressed(b)
        PROVE  IsNew(b, [NoCast EXCEPT !.audience = a])
    BY <1>1, <1>2, <1>4 DEF NoCast, IsNew, CastType
  <1>5. IsNew(b, Start(b))  BY <1>4 DEF Start
  <1>6. ASSUME NEW t PROVE IsNew(b, [Start(b) EXCEPT !.audience = Addressed(b) \ {t}])
    <2>1. [Start(b) EXCEPT !.audience = Addressed(b) \ {t}] =
             [NoCast EXCEPT !.audience = Addressed(b) \ {t}]
      BY DEF Start, NoCast
    <2>2. Addressed(b) \ {t} \in SUBSET Addressed(b)  OBVIOUS
    <2>3. QED  BY <1>4, <2>1, <2>2
  <1>7. QED  BY <1>3, <1>5, <1>6

\* A broadcast starts; list and browsers stay as they are.
LEMMA StartKeeps ==
    ASSUME SocketInv, UNCHANGED <<conns, net>>, announced' \subseteq Tabs,
           NEW b \in Broadcasters, b \in Tabs => pc[b] # "closed",
           NEW p \in Places \ {"closed"}, pc' = [pc EXCEPT ![b] = p],
           NEW x, IsNew(b, x), cast' = [cast EXCEPT ![b] = x]
    PROVE  SocketInv'
  <1>1. /\ conns \in Seq(Tabs) /\ cast \in [Broadcasters -> CastType]
        /\ pc \in [Broadcasters -> Places] /\ x \in CastType
    BY SocketTyped, SocketRest DEF IsNew
  <1>2. /\ cast'[b] = x /\ \A d \in Broadcasters : d # b => cast'[d] = cast[d]
        /\ cast' \in [Broadcasters -> CastType]
    BY <1>1
  <1>3. /\ pc' \in [Broadcasters -> Places]
        /\ \A d \in Broadcasters : pc'[d] = IF d = b THEN p ELSE pc[d]
    BY <1>1
  <1>4. Visited(b)' = {} /\ Behind(b)' /\ Bounded(b)'
    BY <1>1, <1>2, CastStarts DEF IsNew
  <1>5. \A d \in Broadcasters : d # b =>
            /\ Visited(d)' = Visited(d)
            /\ Behind(d) => Behind(d)'
            /\ Bounded(d) => Bounded(d)'
            /\ Casting(d)' <=> Casting(d)
    BY <1>2, <1>3, CastSame DEF Casting
  <1>6. Listed' = Listed  BY DEF Listed
  <1>7. SocketTypeOK'
    BY <1>2, <1>3, SocketRest DEF SocketInv, SocketTypeOK, CastType, Places
  <1>8. FreshTabs'
    <2>1. \A t \in Tabs : pc'[t] = "closed" <=> pc[t] = "closed"
      BY <1>3, SocketRest
    <2>2. \A t \in x.audience : t \in Listed  BY DEF IsNew
    <2>3. QED  BY <1>2, <1>4, <1>5, <1>6, <2>1, <2>2, SocketRest DEF FreshTabs
  <1>9. DeadAreGone'  BY <1>2, SocketRest DEF DeadAreGone, IsNew
  <1>10. VisitedIsBehind' /\ MissedIsBounded'
    BY <1>4, <1>5, SocketRest DEF VisitedIsBehind, MissedIsBounded
  <1>11. AudienceIsOthers'  BY <1>2, SocketRest DEF AudienceIsOthers, IsNew
  <1>12. LiveIsListed'  BY <1>6, SocketRest DEF LiveIsListed
  <1>13. NoDuplicates'  BY <1>2, SocketRest DEF NoDuplicates, IsNew
  <1>14. QED
    BY <1>7, <1>8, <1>9, <1>10, <1>11, <1>12, <1>13 DEF SocketInv, LiveAreToldOnce

\* Connections of browsers that have gone are removed; the broadcast of b is over
\* or starts.
LEMMA RemovalKeeps ==
    ASSUME SocketInv, UNCHANGED <<net, announced>>,
           NEW gone \in SUBSET Tabs, \A t \in gone : net[t] = "gone",
           conns' = Without(conns, gone),
           NEW b \in Broadcasters, b \in Tabs => pc[b] # "closed",
           NEW p \in Places \ {"closed"}, pc' = [pc EXCEPT ![b] = p],
           NEW x, IsNew(b, x), cast' = [NoteRemoval(cast, gone) EXCEPT ![b] = x]
    PROVE  SocketInv'
  <1> DEFINE g == Cardinality(gone \cap Listed)
             noted(d) == [cast[d] EXCEPT !.removed = @ + g]
  <1>1. /\ conns' \in Seq(Tabs) /\ Listed' = Listed \ gone /\ g \in Nat
        /\ \A n, m \in DOMAIN conns' : conns'[n] = conns'[m] => n = m
    BY ListShrinks
  <1>2. /\ cast \in [Broadcasters -> CastType] /\ pc \in [Broadcasters -> Places]
        /\ x \in CastType
    BY SocketTyped, SocketRest DEF IsNew
  <1>3. \A d \in Broadcasters : cast'[d] = IF d = b THEN x ELSE noted(d)
    BY DEF NoteRemoval
  <1>4. \A d \in Broadcasters :
            /\ noted(d) \in CastType
            /\ noted(d).cursor = cast[d].cursor /\ noted(d).dead = cast[d].dead
            /\ noted(d).copies = cast[d].copies /\ noted(d).audience = cast[d].audience
    <2>1. SUFFICES ASSUME NEW d \in Broadcasters
                   PROVE  /\ noted(d) \in CastType
                          /\ noted(d).cursor = cast[d].cursor /\ noted(d).dead = cast[d].dead
                          /\ noted(d).copies = cast[d].copies
                          /\ noted(d).audience = cast[d].audience
      OBVIOUS
    <2>2. cast[d] \in CastType /\ cast[d].removed \in Nat  BY <1>2 DEF CastType
    <2>3. PICK n \in Nat : n = cast[d].removed + g  BY <1>1, <2>2
    <2>4. noted(d) = [cast[d] EXCEPT !.removed = n]  BY <2>3
    <2> HIDE DEF noted
    <2>5. QED  BY <2>2, <2>4 DEF CastType
  <1>5. cast' \in [Broadcasters -> CastType]
    <2>1. \A d \in Broadcasters : cast'[d] \in CastType  BY <1>2, <1>3, <1>4
    <2>2. cast' = [d \in Broadcasters |-> cast'[d]]  BY DEF NoteRemoval
    <2>3. QED  BY <2>1, <2>2
  <1>6. /\ pc' \in [Broadcasters -> Places]
        /\ \A d \in Broadcasters : pc'[d] = IF d = b THEN p ELSE pc[d]
    BY <1>2
  <1>7. Visited(b)' = {} /\ Behind(b)' /\ Bounded(b)'
    BY <1>1, <1>3, CastStarts DEF IsNew
  <1>8. ASSUME NEW d \in Broadcasters, d # b
        PROVE  /\ Visited(d)' = Visited(d)
               /\ Casting(d)' <=> Casting(d)
               /\ Casting(d) => Behind(d)' /\ Bounded(d)'
    <2>1. cast'[d] = noted(d)  BY <1>3, <1>8
    <2>2. Visited(d)' = Visited(d)  BY <1>4, <2>1 DEF Visited
    <2>3. Casting(d)' <=> Casting(d)  BY <1>6, <1>8 DEF Casting
    <2>4. Casting(d) => Behind(d)' /\ Bounded(d)'  BY <2>1, CastShifts
    <2>5. QED  BY <2>2, <2>3, <2>4
  <1> HIDE DEF noted, g
  <1>9. SocketTypeOK'
    BY <1>1, <1>5, <1>6, SocketRest DEF SocketTypeOK, CastType, Places
  <1>10. FreshTabs'
    <2>1. \A t \in Tabs : pc'[t] = "closed" <=> pc[t] = "closed"
      BY <1>6, SocketRest
    <2>2. \A t \in x.audience : t \in Listed  BY DEF IsNew
    <2>3. \A t \in Tabs : pc[t] = "closed" =>
             /\ t \notin Listed'
             /\ \A d \in Broadcasters : t \notin Visited(d)' /\ t \notin cast'[d].audience
      BY <1>1, <1>3, <1>4, <1>7, <1>8, <2>2, SocketRest DEF FreshTabs
    <2>4. QED  BY <2>1, <2>3, SocketRest DEF FreshTabs
  <1>11. DeadAreGone'  BY <1>3, <1>4, SocketRest DEF DeadAreGone, IsNew
  <1>12. VisitedIsBehind' /\ MissedIsBounded'
    BY <1>7, <1>8 DEF VisitedIsBehind, MissedIsBounded
  <1>13. AudienceIsOthers'  BY <1>3, <1>4, SocketRest DEF AudienceIsOthers, IsNew
  <1>14. LiveIsListed'  BY <1>1, SocketRest DEF LiveIsListed
  <1>15. NoDuplicates'  BY <1>3, <1>4, SocketRest DEF NoDuplicates, IsNew
  <1>16. QED
    BY <1>9, <1>10, <1>11, <1>12, <1>13, <1>14, <1>15 DEF SocketInv, LiveAreToldOnce

\* A tab connects, at the end of the list.
LEMMA ConnectKeeps ==
    ASSUME SocketInv, NEW t \in Tabs, Connect(t)
    PROVE  SocketInv'
  <1>1. /\ pc[t] = "closed" /\ conns' = Append(conns, t) /\ net' = [net EXCEPT ![t] = "live"]
        /\ pc' = [pc EXCEPT ![t] = "listing"] /\ UNCHANGED <<announced, cast>>
    BY DEF Connect
  <1>2. /\ conns \in Seq(Tabs) /\ Len(conns) \in Nat /\ DOMAIN conns = 1 .. Len(conns)
        /\ \A i \in DOMAIN conns : conns[i] \in Tabs
        /\ \A i, j \in DOMAIN conns : conns[i] = conns[j] => i = j
    BY SocketTyped
  <1>3. /\ conns' \in Seq(Tabs) /\ DOMAIN conns' = 1 .. (Len(conns) + 1)
        /\ \A i \in DOMAIN conns : conns'[i] = conns[i]
        /\ conns'[Len(conns) + 1] = t
    <2>1. /\ conns' \in Seq(Tabs) /\ Len(conns') = Len(conns) + 1
          /\ \A i \in 1 .. Len(conns) : conns'[i] = conns[i]
          /\ conns'[Len(conns) + 1] = t
      BY <1>1, <1>2, AppendProperties
    <2>2. QED  BY <1>2, <2>1, LenProperties
  <1>4. /\ t \notin Listed /\ net[t] = "none"
        /\ \A d \in Broadcasters : t \notin Visited(d) /\ t \notin cast[d].audience
    BY <1>1, SocketRest DEF FreshTabs
  <1>5. \A n \in DOMAIN conns' : n \in DOMAIN conns \/ n = Len(conns) + 1  BY <1>2, <1>3
  <1>6. Listed' = Listed \cup {t}
    <2>1. Len(conns) + 1 \in DOMAIN conns' /\ \A i \in DOMAIN conns : i \in DOMAIN conns'
      BY <1>2, <1>3
    <2>2. QED  BY <1>3, <1>5, <2>1 DEF Listed
  <1>7. ASSUME NEW n \in DOMAIN conns', NEW m \in DOMAIN conns', conns'[n] = conns'[m]
        PROVE  n = m
    <2>1. \A i \in DOMAIN conns : conns[i] # t  BY <1>4 DEF Listed
    <2>2. QED  BY <1>2, <1>3, <1>5, <1>7, <2>1
  <1>8. /\ pc \in [Broadcasters -> Places] /\ net \in [Tabs -> {"none", "live", "gone"}]
        /\ t \in Broadcasters
    BY SocketRest
  <1>9. /\ \A d \in Broadcasters : pc'[d] = IF d = t THEN "listing" ELSE pc[d]
        /\ \A s \in Tabs : net'[s] = IF s = t THEN "live" ELSE net[s]
    BY <1>1, <1>8
  <1>10. SocketTypeOK'
    BY <1>1, <1>3, <1>7, <1>8 DEF SocketInv, SocketTypeOK, Places
  <1>11. ASSUME NEW d \in Broadcasters
         PROVE  /\ Visited(d)' = Visited(d)
                /\ Behind(d) => Behind(d)'
                /\ Bounded(d) => Bounded(d)'
                /\ Casting(d)' => Casting(d)
    <2>1. Visited(d)' = Visited(d)  BY <1>1 DEF Visited
    <2>2. Behind(d) => Behind(d)'
      BY <1>1, <1>3, <1>4, <1>5, <2>1 DEF Behind
    <2>3. Missed(d)' = Missed(d)
      <3>1. \A s \in cast[d].audience : s # t  BY <1>4
      <3>2. \A i \in DOMAIN conns : i \in DOMAIN conns'  BY <1>2, <1>3
      <3>3. ASSUME NEW s, s # t
            PROVE  \A k : (\E n \in DOMAIN conns' : conns'[n] = s /\ n <= k)
                             <=> (\E i \in DOMAIN conns : conns[i] = s /\ i <= k)
        BY <1>3, <1>5, <3>2, <3>3
      <3>4. QED  BY <1>1, <1>6, <3>1, <3>3 DEF Missed
    <2>4. Bounded(d) => Bounded(d)'  BY <1>1, <2>3 DEF Bounded
    <2>5. Casting(d)' => Casting(d)  BY <1>9 DEF Casting
    <2>6. QED  BY <2>1, <2>2, <2>4, <2>5
  <1>12. FreshTabs'
    BY <1>1, <1>6, <1>8, <1>9, <1>11, SocketRest DEF FreshTabs
  <1>13. DeadAreGone'
    <2>1. \A d \in Broadcasters : cast[d].dead \subseteq Tabs  BY CastFields
    <2>2. QED  BY <1>1, <1>4, <1>9, <2>1, SocketRest DEF DeadAreGone
  <1>14. VisitedIsBehind' /\ MissedIsBounded'
    BY <1>11, SocketRest DEF VisitedIsBehind, MissedIsBounded
  <1>15. AudienceIsOthers'  BY <1>1, SocketRest DEF AudienceIsOthers
  <1>16. LiveIsListed' /\ NoDuplicates'
    BY <1>1, <1>6, <1>9, SocketRest DEF LiveIsListed, NoDuplicates
  <1>17. QED
    BY <1>10, <1>12, <1>13, <1>14, <1>15, <1>16 DEF SocketInv, LiveAreToldOnce

\* A browser goes away.
LEMMA VanishKeeps ==
    ASSUME SocketInv, NEW t \in Tabs, Vanish(t)
    PROVE  SocketInv'
  <1>1. /\ net[t] = "live" /\ net' = [net EXCEPT ![t] = "gone"]
        /\ UNCHANGED <<conns, pc, announced, cast>>
    BY DEF Vanish
  <1>2. net \in [Tabs -> {"none", "live", "gone"}]  BY SocketRest
  <1>3. \A s \in Tabs : net'[s] = IF s = t THEN "gone" ELSE net[s]  BY <1>1, <1>2
  <1>4. Listed' = Listed /\ \A d : (Casting(d)' <=> Casting(d)) /\ Visited(d)' = Visited(d)
    BY <1>1 DEF Listed, Casting, Visited
  <1>5. \A d \in Broadcasters : (Behind(d) => Behind(d)') /\ (Bounded(d) => Bounded(d)')
    BY <1>1, CastSame
  <1>6. SocketTypeOK'  BY <1>1, <1>2 DEF SocketInv, SocketTypeOK
  <1>7. FreshTabs'  BY <1>1, <1>3, <1>4, SocketRest DEF FreshTabs
  <1>8. DeadAreGone'
    <2>1. \A d \in Broadcasters : cast[d].dead \subseteq Tabs  BY CastFields
    <2>2. QED  BY <1>1, <1>3, <2>1, SocketRest DEF DeadAreGone
  <1>9. VisitedIsBehind' /\ MissedIsBounded'
    BY <1>4, <1>5, SocketRest DEF VisitedIsBehind, MissedIsBounded
  <1>10. AudienceIsOthers'  BY <1>1, SocketRest DEF AudienceIsOthers
  <1>11. LiveIsListed' /\ NoDuplicates'
    BY <1>1, <1>3, <1>4, SocketRest DEF LiveIsListed, NoDuplicates
  <1>12. QED
    BY <1>6, <1>7, <1>8, <1>9, <1>10, <1>11 DEF SocketInv, LiveAreToldOnce

\* A handler ends with an exception.
LEMMA HandlerFailsKeeps ==
    ASSUME SocketInv, NEW t \in Tabs, HandlerFails(t)
    PROVE  SocketInv'
  <1>1. /\ pc[t] = "open" /\ net[t] # "none" /\ net' = [net EXCEPT ![t] = "gone"]
        /\ pc' = [pc EXCEPT ![t] = "failed"] /\ UNCHANGED <<conns, announced, cast>>
    BY DEF HandlerFails
  <1>2. /\ net \in [Tabs -> {"none", "live", "gone"}] /\ pc \in [Broadcasters -> Places]
        /\ t \in Broadcasters /\ Tabs \subseteq Broadcasters
    BY SocketRest
  <1>3. /\ \A s \in Tabs : net'[s] = IF s = t THEN "gone" ELSE net[s]
        /\ \A d \in Broadcasters : pc'[d] = IF d = t THEN "failed" ELSE pc[d]
    BY <1>1, <1>2
  <1>4. /\ Listed' = Listed
        /\ \A d \in Broadcasters : (Casting(d)' <=> Casting(d)) /\ Visited(d)' = Visited(d)
    BY <1>1, <1>3 DEF Listed, Casting, Visited
  <1>5. \A d \in Broadcasters : (Behind(d) => Behind(d)') /\ (Bounded(d) => Bounded(d)')
    BY <1>1, CastSame
  <1>6. SocketTypeOK'
    BY <1>1, <1>2 DEF SocketInv, SocketTypeOK, Places
  <1>7. FreshTabs'
    <2>1. \A s \in Tabs : (pc'[s] = "closed" <=> pc[s] = "closed")
                          /\ (net'[s] = "none" <=> net[s] = "none")
      BY <1>1, <1>2, <1>3
    <2>2. QED  BY <1>1, <1>2, <1>4, <2>1, SocketRest DEF FreshTabs
  <1>8. DeadAreGone'
    <2>1. \A d \in Broadcasters : cast[d].dead \subseteq Tabs  BY CastFields
    <2>2. QED  BY <1>1, <1>3, <2>1, SocketRest DEF DeadAreGone
  <1>9. VisitedIsBehind' /\ MissedIsBounded'
    BY <1>4, <1>5, SocketRest DEF VisitedIsBehind, MissedIsBounded
  <1>10. AudienceIsOthers'  BY <1>1, SocketRest DEF AudienceIsOthers
  <1>11. LiveIsListed' /\ NoDuplicates'
    BY <1>1, <1>3, <1>4, SocketRest DEF LiveIsListed, NoDuplicates
  <1>12. QED
    BY <1>6, <1>7, <1>8, <1>9, <1>10, <1>11 DEF SocketInv, LiveAreToldOnce

\* A broadcast ends.
LEMMA EndCastKeeps ==
    ASSUME SocketInv, NEW b \in Broadcasters, EndCast(b)
    PROVE  SocketInv'
  <1>1. /\ Casting(b) /\ conns' = Without(conns, cast[b].dead)
        /\ cast' = [NoteRemoval(cast, cast[b].dead) EXCEPT ![b] = NoCast]
        /\ pc' = [pc EXCEPT ![b] = After(b)] /\ UNCHANGED <<net, announced>>
    BY DEF EndCast
  <1>2. pc[b] # "closed"  BY <1>1 DEF Casting
  <1>3. After(b) \in Places \ {"closed"}  BY DEF After, Places
  <1>4. IsNew(b, NoCast)  BY StartIsNew
  <1>5. cast[b].dead \in SUBSET Tabs /\ \A t \in cast[b].dead : net[t] = "gone"
    BY CastFields, SocketRest DEF DeadAreGone
  <1>6. QED  BY <1>1, <1>2, <1>3, <1>4, <1>5, RemovalKeeps

\* A handler sees that its browser has gone.
LEMMA NoticeKeeps ==
    ASSUME SocketInv, NEW t \in Tabs, Notice(t)
    PROVE  SocketInv'
  <1> DEFINE x == [Start(t) EXCEPT !.audience = Addressed(t) \ {t}]
  <1>1. /\ pc[t] = "open" /\ net[t] = "gone" /\ conns' = Without(conns, {t})
        /\ pc' = [pc EXCEPT ![t] = "leaving"] /\ UNCHANGED <<net, announced>>
        /\ cast' = [NoteRemoval(cast, {t}) EXCEPT ![t] = x]
    BY DEF Notice
  <1>2. IsNew(t, x)  BY StartIsNew
  <1>3. t \in Broadcasters /\ {t} \in SUBSET Tabs /\ \A s \in {t} : net[s] = "gone"
    BY <1>1, SocketRest
  <1>4. "leaving" \in Places \ {"closed"}  BY DEF Places
  <1> HIDE DEF x
  <1>5. pc[t] # "closed"  BY <1>1
  <1>6. QED  BY <1>1, <1>2, <1>3, <1>4, <1>5, RemovalKeeps

\* A handler or a request starts to broadcast.
LEMMA StartsKeep ==
    ASSUME SocketInv,
           \/ \E t \in Tabs : Greet(t) \/ Announce(t)
           \/ \E q \in Requests : Publish(q)
    PROVE  SocketInv'
  <1>1. PICK b \in Broadcasters, p \in Places \ {"closed"} :
            /\ b \in Tabs => pc[b] # "closed"
            /\ pc' = [pc EXCEPT ![b] = p] /\ cast' = [cast EXCEPT ![b] = Start(b)]
            /\ UNCHANGED <<conns, net>> /\ announced' \subseteq Tabs
    <2>1. announced \subseteq Tabs  BY SocketRest
    <2>2. ASSUME NEW t \in Tabs, Greet(t)
          PROVE  /\ t \in Broadcasters /\ "greeting" \in Places \ {"closed"} /\ pc[t] # "closed"
                 /\ pc' = [pc EXCEPT ![t] = "greeting"]
                 /\ cast' = [cast EXCEPT ![t] = Start(t)]
                 /\ UNCHANGED <<conns, net>> /\ announced' \subseteq Tabs
      BY <2>1, <2>2 DEF Greet, Broadcasters, Places
    <2>3. ASSUME NEW t \in Tabs, Announce(t)
          PROVE  /\ t \in Broadcasters /\ "announcing" \in Places \ {"closed"}
                 /\ pc[t] # "closed"
                 /\ pc' = [pc EXCEPT ![t] = "announcing"]
                 /\ cast' = [cast EXCEPT ![t] = Start(t)]
                 /\ UNCHANGED <<conns, net>> /\ announced' \subseteq Tabs
      BY <2>1, <2>3 DEF Announce, Broadcasters, Places
    <2>4. ASSUME NEW q \in Requests, Publish(q)
          PROVE  /\ q \in Broadcasters /\ "casting" \in Places \ {"closed"} /\ q \notin Tabs
                 /\ pc' = [pc EXCEPT ![q] = "casting"]
                 /\ cast' = [cast EXCEPT ![q] = Start(q)]
                 /\ UNCHANGED <<conns, net>> /\ announced' \subseteq Tabs
      BY <2>1, <2>4, AgentSocketsAssumption DEF Publish, Broadcasters, Places
    <2>5. QED  BY <2>2, <2>3, <2>4
  <1>2. PICK x : x = Start(b) /\ IsNew(b, x)  BY StartIsNew
  <1>3. QED  BY <1>1, <1>2, StartKeeps

LEMMA SocketsStart ==
    ASSUME SocketInit
    PROVE  SocketInv
  <1>1. /\ conns \in Seq(Tabs) /\ \A i, j \in DOMAIN conns : conns[i] = conns[j] => i = j
        /\ Tabs \subseteq Broadcasters
    BY AgentSocketsAssumption DEF SocketInit, Broadcasters
  <1>2. /\ net = [t \in Tabs |-> IF t \in Listed THEN "live" ELSE "none"]
        /\ pc = [b \in Broadcasters |-> IF b \in Listed THEN "open" ELSE "closed"]
        /\ announced = {} /\ cast = [b \in Broadcasters |-> NoCast]
    BY DEF SocketInit
  <1>3. NoCast \in CastType  BY DEF NoCast, CastType
  <1>4. SocketTypeOK
    <2>1. cast \in [Broadcasters -> CastType]  BY <1>2, <1>3
    <2>2. QED  BY <1>1, <1>2, <2>1 DEF SocketTypeOK, CastType
  <1>5. \A b \in Broadcasters : Visited(b) = {} /\ cast[b].audience = {} /\ cast[b].dead = {}
    BY <1>2 DEF Visited, NoCast
  <1>6. FreshTabs  BY <1>1, <1>2, <1>5 DEF FreshTabs
  <1>7. DeadAreGone /\ AudienceIsOthers  BY <1>5 DEF DeadAreGone, AudienceIsOthers
  <1>8. \A b \in Broadcasters : ~Casting(b)  BY <1>2 DEF Casting
  <1>9. VisitedIsBehind /\ MissedIsBounded  BY <1>8 DEF VisitedIsBehind, MissedIsBounded
  <1>10. LiveAreToldOnce  BY <1>2 DEF LiveAreToldOnce, LiveIsListed, NoDuplicates, NoCast
  <1>11. QED  BY <1>4, <1>6, <1>7, <1>9, <1>10 DEF SocketInv

LEMMA SocketsStep ==
    ASSUME SocketInv, [SocketNext]_socketVars
    PROVE  SocketInv'
  <1>1. ASSUME NEW b \in Broadcasters, Send(b) PROVE SocketInv'  BY <1>1, SendKeeps
  <1>2. ASSUME NEW b \in Broadcasters, EndCast(b) PROVE SocketInv'  BY <1>2, EndCastKeeps
  <1>3. ASSUME NEW t \in Tabs, Connect(t) PROVE SocketInv'  BY <1>3, ConnectKeeps
  <1>4. ASSUME NEW t \in Tabs, Vanish(t) PROVE SocketInv'  BY <1>4, VanishKeeps
  <1>5. ASSUME NEW t \in Tabs, Notice(t) PROVE SocketInv'  BY <1>5, NoticeKeeps
  <1>6. ASSUME \/ \E t \in Tabs : Greet(t) \/ Announce(t)
               \/ \E q \in Requests : Publish(q)
        PROVE  SocketInv'
    BY <1>6, StartsKeep
  <1>7. ASSUME UNCHANGED socketVars PROVE SocketInv'
    <2>1. UNCHANGED <<conns, net, pc, announced, cast>>  BY <1>7 DEF socketVars
    <2>2. /\ Listed' = Listed
          /\ \A b : /\ Casting(b)' <=> Casting(b)
                    /\ Visited(b)' = Visited(b) /\ Missed(b)' = Missed(b)
      BY <2>1 DEF Listed, Casting, Visited, Missed
    <2>3. \A b : (Behind(b)' <=> Behind(b)) /\ (Bounded(b)' <=> Bounded(b))
      BY <2>1, <2>2 DEF Behind, Bounded
    <2>4. SocketTypeOK' /\ FreshTabs' /\ DeadAreGone' /\ AudienceIsOthers'
      BY <2>1, <2>2 DEF SocketInv, SocketTypeOK, FreshTabs, DeadAreGone, AudienceIsOthers
    <2>5. VisitedIsBehind' /\ MissedIsBounded' /\ LiveAreToldOnce'
      BY <2>1, <2>2, <2>3
         DEF SocketInv, VisitedIsBehind, MissedIsBounded, LiveAreToldOnce, LiveIsListed,
             NoDuplicates
    <2>6. QED  BY <2>4, <2>5 DEF SocketInv
  <1>8. ASSUME NEW t \in Tabs, HandlerFails(t) PROVE SocketInv'
    BY <1>8, HandlerFailsKeeps
  <1>9. QED  BY <1>1, <1>2, <1>3, <1>4, <1>5, <1>6, <1>7, <1>8 DEF SocketNext

-----------------------------------------------------------------------------
(* The theorems                                                            *)

LEMMA SocketsAlways == SocketSpec => []SocketInv
  <1>1. SocketInit => SocketInv  BY SocketsStart
  <1>2. SocketInv /\ [SocketNext]_socketVars => SocketInv'  BY SocketsStep
  <1>3. QED  BY <1>1, <1>2, PTL DEF SocketSpec

\* The list holds every tab at most once, and every variable keeps its type.
THEOREM SocketsTypeCorrect == SocketSpec => []SocketTypeOK
  <1>1. SocketInv => SocketTypeOK  BY DEF SocketInv
  <1>2. QED  BY <1>1, SocketsAlways, PTL

\* However many broadcasts, connects and disconnects meet, a live tab stays listed
\* and nobody gets an event twice.
THEOREM LiveToldOnce == SocketSpec => []LiveAreToldOnce
  <1>1. SocketInv => LiveAreToldOnce  BY DEF SocketInv
  <1>2. QED  BY <1>1, SocketsAlways, PTL

\* Only the end of the loop ends a broadcast.
LEMMA CastEnds ==
    ASSUME SocketInv, SocketNext, NEW b \in Broadcasters, Casting(b), ~Casting(b)'
    PROVE  EndCast(b)
  <1>1. pc \in [Broadcasters -> Places] /\ Tabs \subseteq Broadcasters
        /\ Requests \subseteq Broadcasters
    BY SocketRest DEF Broadcasters
  <1>2. ASSUME NEW d \in Broadcasters, NEW p, pc' = [pc EXCEPT ![d] = p],
               p \in {"greeting", "announcing", "leaving", "casting"} \/ ~Casting(d)
        PROVE  FALSE
    BY <1>1, <1>2 DEF Casting
  <1>3. ASSUME NEW d \in Broadcasters, EndCast(d) PROVE EndCast(b)
    <2>1. pc' = [pc EXCEPT ![d] = After(d)]  BY <1>3 DEF EndCast
    <2>2. b = d  BY <1>1, <2>1 DEF Casting
    <2>3. QED  BY <1>3, <2>2
  <1>4. ASSUME UNCHANGED pc PROVE FALSE  BY <1>4 DEF Casting
  <1>5. ASSUME NEW d \in Broadcasters, Send(d) PROVE FALSE  BY <1>4, <1>5 DEF Send
  <1>6. ASSUME NEW t \in Tabs, Connect(t) PROVE FALSE
    <2>1. ~Casting(t) /\ pc' = [pc EXCEPT ![t] = "listing"]  BY <1>6 DEF Connect, Casting
    <2>2. QED  BY <1>1, <1>2, <2>1
  <1>7. ASSUME NEW t \in Tabs, Greet(t) \/ Announce(t) \/ Notice(t) PROVE FALSE
    <2>1. \E p \in {"greeting", "announcing", "leaving"} : pc' = [pc EXCEPT ![t] = p]
      BY <1>7 DEF Greet, Announce, Notice
    <2>2. QED  BY <1>1, <1>2, <2>1
  <1>8. ASSUME NEW t \in Tabs, Vanish(t) PROVE FALSE  BY <1>4, <1>8 DEF Vanish
  <1>9. ASSUME NEW q \in Requests, Publish(q) PROVE FALSE
    <2>1. pc' = [pc EXCEPT ![q] = "casting"]  BY <1>9 DEF Publish
    <2>2. QED  BY <1>1, <1>2, <2>1
  <1>10. ASSUME NEW t \in Tabs, HandlerFails(t) PROVE FALSE
    <2>1. ~Casting(t) /\ pc' = [pc EXCEPT ![t] = "failed"]
      BY <1>10 DEF HandlerFails, Casting
    <2>2. QED  BY <1>1, <1>2, <2>1
  <1>11. QED  BY <1>3, <1>5, <1>6, <1>7, <1>8, <1>9, <1>10 DEF SocketNext

\* A broadcast passes over no more connections than were removed under it.
THEOREM SkipsAreRemovals == SocketSpec => MissedWithinRemovals
  <1>1. ASSUME SocketInv, SocketNext, NEW b \in Broadcasters, Casting(b), ~Casting(b)'
        PROVE  Cardinality({t \in cast[b].audience \cap Listed :
                               t \notin cast[b].dead /\ cast[b].copies[t] = 0})
                  <= cast[b].removed
    <2> DEFINE skipped == {t \in cast[b].audience \cap Listed :
                              t \notin cast[b].dead /\ cast[b].copies[t] = 0}
    <2>1. Ahead(b) = {}  BY <1>1, CastEnds DEF EndCast
    <2>2. skipped \subseteq Missed(b)
      <3>1. SUFFICES ASSUME NEW t \in skipped PROVE t \in Missed(b)  OBVIOUS
      <3>2. PICK i \in DOMAIN conns : conns[i] = t  BY <3>1 DEF Listed
      <3>3. t \in Addressed(b)  BY <1>1, <3>1 DEF SocketInv, AudienceIsOthers, Addressed
      <3>4. ~(i > cast[b].cursor)  BY <2>1, <3>2, <3>3 DEF Ahead
      <3>5. i <= cast[b].cursor  BY <1>1, <3>4, SocketTyped, CastFields
      <3>6. QED  BY <3>1, <3>2, <3>5 DEF Missed
    <2>3. /\ IsFiniteSet(Missed(b)) /\ Cardinality(Missed(b)) \in Nat
          /\ cast[b].removed \in Nat
      BY <1>1, CastFields
    <2>4. Cardinality(Missed(b)) <= cast[b].removed
      BY <1>1 DEF SocketInv, MissedIsBounded, Bounded
    <2> HIDE DEF skipped
    <2>5. Cardinality(skipped) <= Cardinality(Missed(b)) /\ Cardinality(skipped) \in Nat
      BY <2>2, <2>3, FS_Subset, FS_CardinalityType
    <2>6. Cardinality(skipped) <= cast[b].removed  BY <2>3, <2>4, <2>5
    <2>7. QED  BY <2>6 DEF skipped
  <1>2. ASSUME SocketInv, [SocketNext]_socketVars
        PROVE  [\A b \in Broadcasters :
                  Casting(b) /\ ~Casting(b)' =>
                     Cardinality({t \in cast[b].audience \cap Listed :
                                     t \notin cast[b].dead /\ cast[b].copies[t] = 0})
                        <= cast[b].removed]_socketVars
    BY <1>1, <1>2
  <1>3. QED  BY <1>2, SocketsAlways, PTL DEF SocketSpec, MissedWithinRemovals
=============================================================================
