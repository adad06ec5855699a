--------------------------- MODULE Outreach_proofs ---------------------------
(***************************************************************************)
(* Safety of Outreach for every number of requests, customers, funnels and  *)
(* orders, and of the histories of overlapping requests in MCOutreach.      *)
(***************************************************************************)
EXTENDS MCOutreach, TLAPS, FiniteSetTheorems, SequenceTheorems

-----------------------------------------------------------------------------
(* The inductive invariant                                                 *)

RowType == [customer : Customers, status : {"pending", "sent"}, due : BOOLEAN]

CallType == [pc : Places, todo : Seq(Customers \cup Orders \cup Steps),
             rows : SUBSET (Customers \cup Nat), aborted : BOOLEAN, funnel : Funnels]

\* The locals that go with a place.
LocalsOK(q, queued) ==
    /\ q.pc = "winback" => q.todo \in Seq(Customers) /\ q.rows \subseteq Customers
    /\ q.pc \in {"process", "answering"} => q.rows \subseteq queued
    /\ q.pc = "funnel" => q.todo \in {<<1, 2, 3>>, <<2, 3>>, << 3 >>, <<>>}

\* A request that starts a funnel has pushed each step it has not before it.
PushedSoFar ==
    \A r \in Calls : call[r].pc = "funnel" => \A s \in Steps :
        pushed[call[r].funnel][s] > 0 \/ \E i \in DOMAIN call[r].todo : call[r].todo[i] = s

\* Requests of a kind have not overlapped, and do not now.
Alone(kind) ==
    kind \notin overlapped =>
        \A r, q \in Calls : call[r].pc = kind /\ call[q].pc = kind => r = q

\* Then nobody a win-back request is going to queue has been queued meanwhile ...
LookedIsCurrent ==
    "winback" \notin overlapped =>
        \A r \in Calls : call[r].pc = "winback" => \A c \in call[r].rows : PendingOf(c) = {}

\* ... and what a process request has read is still pending.
ReadIsCurrent ==
    "process" \notin overlapped =>
        \A r \in Calls : call[r].pc = "process" =>
            \A i \in call[r].rows : queue[i].status = "pending"

\* At most one pending row for each customer.
Single ==
    "winback" \notin overlapped =>
        \A i, j \in DOMAIN queue :
            /\ queue[i].customer = queue[j].customer
            /\ queue[i].status = "pending" /\ queue[j].status = "pending"
            => i = j

\* What a request has committed, and what was left without an answer, is sent ...
CommittedIsSent ==
    /\ \A i \in unlisted : i \in DOMAIN queue /\ queue[i].status = "sent"
    /\ \A r \in Calls : call[r].pc = "answering" =>
          \A i \in call[r].rows : queue[i].status = "sent"

\* ... and belongs to one request.
OwnedByOne ==
    "process" \notin overlapped =>
        \A r \in Calls : call[r].pc = "answering" => \A i \in call[r].rows :
            /\ i \notin unlisted
            /\ \A q \in Calls : call[q].pc = "answering" /\ i \in call[q].rows => q = r

QueueInv == /\ Alone("winback") /\ Alone("process")
            /\ LookedIsCurrent /\ ReadIsCurrent /\ Single
            /\ CommittedIsSent /\ OwnedByOne /\ SentIsReportedOnce

-----------------------------------------------------------------------------
(* Types                                                                   *)

LEMMA TypeParts ==
    TypeOK <=> /\ idle \in [Customers -> Days]
               /\ queue \in Seq(RowType)
               /\ reports \in Seq(Nat) /\ Len(reports) = Len(queue)
               /\ call \in [Calls -> CallType]
               /\ \A r \in Calls : LocalsOK(call[r], DOMAIN queue)
               /\ pushed \in [Funnels -> [Steps -> Nat]]
               /\ active \subseteq Funnels
               /\ events \in [Orders -> Nat] /\ unlisted \subseteq Nat
               /\ clock \in Funnels
               /\ count \in [requests : Nat, days : Nat]
  BY DEF TypeOK, RowType, CallType, LocalsOK

LEMMA TypeFromParts ==
    ASSUME idle' \in [Customers -> Days],
           queue' \in Seq(RowType),
           reports' \in Seq(Nat), Len(reports') = Len(queue'),
           call' \in [Calls -> CallType],
           \A r \in Calls : LocalsOK(call'[r], DOMAIN queue'),
           pushed' \in [Funnels -> [Steps -> Nat]],
           active' \subseteq Funnels,
           events' \in [Orders -> Nat], unlisted' \subseteq Nat,
           clock' \in Funnels,
           count' \in [requests : Nat, days : Nat]
    PROVE  TypeOK'
  BY DEF TypeOK, RowType, CallType, LocalsOK

\* A handler moves to a place with the locals of that place.
LEMMA CallTypeKept ==
    ASSUME TypeOK, NEW r \in Calls, NEW q \in CallType, call' = [call EXCEPT ![r] = q],
           DOMAIN queue \subseteq DOMAIN queue', LocalsOK(q, DOMAIN queue')
    PROVE  /\ call' \in [Calls -> CallType]
           /\ \A p \in Calls : LocalsOK(call'[p], DOMAIN queue')
           /\ \A p \in Calls : call'[p] = IF p = r THEN q ELSE call[p]
  <1>1. call \in [Calls -> CallType] /\ \A p \in Calls : LocalsOK(call[p], DOMAIN queue)
    BY TypeParts
  <1>2. \A p \in Calls : call'[p] = IF p = r THEN q ELSE call[p]  BY <1>1
  <1>3. \A p \in Calls : LocalsOK(call[p], DOMAIN queue')  BY <1>1 DEF LocalsOK
  <1>4. QED  BY <1>1, <1>2, <1>3

LEMMA IdleType == Idle \in CallType /\ \A d : LocalsOK(Idle, d)
  <1>1. <<>> \in Seq(Customers \cup Orders \cup Steps)  OBVIOUS
  <1>2. 0 \in Funnels  BY OutreachAssumption DEF Funnels
  <1>3. QED  BY <1>1, <1>2 DEF Idle, CallType, Places, LocalsOK

\* A request ends.
LEMMA FinishType ==
    ASSUME TypeOK, NEW r \in Calls, Finish(r), DOMAIN queue \subseteq DOMAIN queue'
    PROVE  /\ call' \in [Calls -> CallType]
           /\ \A p \in Calls : LocalsOK(call'[p], DOMAIN queue')
           /\ \A p \in Calls : call'[p] = IF p = r THEN Idle ELSE call[p]
           /\ UNCHANGED <<idle, clock, count>>
  <1>1. call' = [call EXCEPT ![r] = Idle] /\ UNCHANGED <<idle, clock, count>>
    BY DEF Finish
  <1>2. Idle \in CallType /\ LocalsOK(Idle, DOMAIN queue')  BY IdleType
  <1>3. QED  BY <1>1, <1>2, CallTypeKept

\* The requests alone: what they hold and the queue they read.
LEMMA CallRecord ==
    ASSUME TypeOK, NEW r \in Calls
    PROVE  /\ call[r] \in CallType /\ LocalsOK(call[r], DOMAIN queue)
           /\ call[r].todo \in Seq(Customers \cup Orders \cup Steps)
           /\ call[r].rows \subseteq Customers \cup Nat
           /\ call[r].aborted \in BOOLEAN /\ call[r].funnel \in Funnels
  BY TypeParts DEF CallType

LEMMA BeginCount ==
    ASSUME TypeOK, NEW r \in Calls, Begin(r)
    PROVE  count' \in [requests : Nat, days : Nat] /\ call[r].pc = "idle"
  <1>1. count \in [requests : Nat, days : Nat]  BY TypeParts
  <1>2. call[r].pc = "idle" /\ count' = [count EXCEPT !.requests = @ + 1]  BY DEF Begin
  <1>3. QED  BY <1>1, <1>2

\* The next step to push, and what is left then.
LEMMA Suffixes ==
    ASSUME NEW todo \in {<<1, 2, 3>>, <<2, 3>>, << 3 >>, <<>>}, todo # <<>>
    PROVE  /\ Tail(todo) \in {<<2, 3>>, << 3 >>, <<>>}
           /\ Head(todo) \in Steps
           /\ \A s \in Steps : (\E i \in DOMAIN todo : todo[i] = s) =>
                 s = Head(todo) \/ \E i \in DOMAIN Tail(todo) : Tail(todo)[i] = s
  <1>1. CASE todo = <<1, 2, 3>>
    <2>1. Tail(todo) = <<2, 3>> /\ Head(todo) = 1  BY <1>1
    <2>2. DOMAIN todo = 1 .. 3 /\ DOMAIN Tail(todo) = 1 .. 2  BY <1>1, <2>1
    <2>3. /\ todo[1] = 1 /\ todo[2] = 2 /\ todo[3] = 3
          /\ Tail(todo)[1] = 2 /\ Tail(todo)[2] = 3
      BY <1>1, <2>1
    <2>4. Tail(todo) \in {<<2, 3>>, << 3 >>, <<>>} /\ Head(todo) \in Steps
      BY <2>1 DEF Steps
    <2>5. ASSUME NEW s \in Steps, NEW i \in DOMAIN todo, todo[i] = s
          PROVE  s = Head(todo) \/ \E k \in DOMAIN Tail(todo) : Tail(todo)[k] = s
      <3>1. i = 1 \/ i = 2 \/ i = 3  BY <2>2, <2>5
      <3>2. CASE i = 1  BY <3>2, <2>1, <2>3, <2>5
      <3>3. CASE i = 2
        <4>1. 1 \in DOMAIN Tail(todo) /\ Tail(todo)[1] = s  BY <3>3, <2>2, <2>3, <2>5
        <4>2. QED  BY <4>1
      <3>4. CASE i = 3
        <4>1. 2 \in DOMAIN Tail(todo) /\ Tail(todo)[2] = s  BY <3>4, <2>2, <2>3, <2>5
        <4>2. QED  BY <4>1
      <3>5. QED  BY <3>1, <3>2, <3>3, <3>4
    <2>6. QED  BY <2>4, <2>5
  <1>2. CASE todo = <<2, 3>>
    <2>1. Tail(todo) = << 3 >> /\ Head(todo) = 2  BY <1>2
    <2>2. DOMAIN todo = 1 .. 2 /\ DOMAIN Tail(todo) = 1 .. 1  BY <1>2, <2>1
    <2>3. todo[1] = 2 /\ todo[2] = 3 /\ Tail(todo)[1] = 3  BY <1>2, <2>1
    <2>4. 1 \in DOMAIN Tail(todo)  BY <2>2
    <2>5. \A i \in DOMAIN todo : i = 1 \/ i = 2  BY <2>2
    <2>6. QED  BY <2>1, <2>3, <2>4, <2>5 DEF Steps
  <1>3. CASE todo = << 3 >>
    <2>1. Tail(todo) = <<>> /\ Head(todo) = 3  BY <1>3
    <2>2. DOMAIN todo = 1 .. 1 /\ todo[1] = 3  BY <1>3
    <2>3. QED  BY <2>1, <2>2 DEF Steps
  <1>4. QED  BY <1>1, <1>2, <1>3

\* The customers chosen make a sequence.
LEMMA ChosenType ==
    ASSUME NEW inactive, NEW chosen \in Chosen(inactive)
    PROVE  chosen \in Seq(Customers)
  <1> DEFINE atRisk == {c \in Customers : Risk(c, inactive) \in {"critical", "high"}}
             n == IF Cardinality(atRisk) < MaxPerRun THEN Cardinality(atRisk) ELSE MaxPerRun
  <1>1. IsFiniteSet(atRisk)
    <2>1. atRisk \in SUBSET Customers /\ IsFiniteSet(Customers)  BY OutreachAssumption
    <2>2. QED  BY <2>1, FS_Subset
  <1>2. Cardinality(atRisk) \in Nat  BY <1>1, FS_CardinalityType
  <1>3. n \in Nat  BY <1>2, OutreachAssumption
  <1>4. chosen \in [1 .. n -> atRisk]  BY DEF Chosen
  <1> HIDE DEF n
  <1>5. chosen \in [1 .. n -> Customers]  BY <1>4
  <1>6. QED  BY <1>3, <1>5

\* Requests that begin.
LEMMA BeginType ==
    ASSUME TypeOK, NEW r \in Calls,
           \/ Scan(r) \/ Select(r) \/ Abandoned(r)
           \/ \E o \in Orders : Purchased(r, o) \/ ZidOrder(r, o)
    PROVE  TypeOK'
  <1>1. SUFFICES ASSUME NEW q \in CallType, Go(r, q), LocalsOK(q, DOMAIN queue),
                        Begin(r), events' \in [Orders -> Nat], unlisted' \subseteq Nat,
                        UNCHANGED <<queue, pushed, active>>
                 PROVE  TypeOK'
    <2>1. events \in [Orders -> Nat] /\ unlisted \subseteq Nat /\ clock \in Funnels
      BY TypeParts
    <2>2. Idle \in CallType /\ LocalsOK(Idle, DOMAIN queue)  BY IdleType
    <2>3. CASE Scan(r)
      <3>1. PICK inactive \in Thresholds : \E chosen \in Chosen(inactive) :
               Go(r, [Idle EXCEPT !.pc = "winback", !.todo = chosen])
        BY <2>3 DEF Scan
      <3>2. PICK chosen \in Chosen(inactive) :
               Go(r, [Idle EXCEPT !.pc = "winback", !.todo = chosen])
        BY <3>1
      <3>3. chosen \in Seq(Customers)  BY ChosenType
      <3> DEFINE q == [Idle EXCEPT !.pc = "winback", !.todo = chosen]
      <3>4. q.pc = "winback" /\ q.todo = chosen /\ q.rows = {} /\ q \in CallType
        <4>1. chosen \in Seq(Customers \cup Orders \cup Steps)  BY <3>3
        <4>2. QED  BY <2>2, <4>1 DEF Idle, CallType, Places
      <3>5. LocalsOK(q, DOMAIN queue)  BY <3>3, <3>4 DEF LocalsOK
      <3>6. QED  BY <1>1, <2>1, <2>3, <3>2, <3>4, <3>5 DEF Scan
    <2>4. CASE Select(r)
      <3>1. PICK rows \in SUBSET DueRows : Go(r, [Idle EXCEPT !.pc = "process", !.rows = rows])
        BY <2>4 DEF Select
      <3>2. rows \subseteq DOMAIN queue /\ rows \subseteq Nat
        BY TypeParts DEF DueRows
      <3> DEFINE q == [Idle EXCEPT !.pc = "process", !.rows = rows]
      <3>3. q.pc = "process" /\ q.rows = rows /\ q \in CallType
        BY <2>2, <3>2 DEF Idle, CallType, Places
      <3>4. LocalsOK(q, DOMAIN queue)  BY <3>2, <3>3 DEF LocalsOK
      <3>5. QED  BY <1>1, <2>1, <2>4, <3>1, <3>3, <3>4 DEF Select
    <2>5. CASE Abandoned(r)
      <3> DEFINE q == [Idle EXCEPT !.pc = "funnel", !.todo = <<1, 2, 3>>, !.funnel = clock]
      <3>1. <<1, 2, 3>> \in Seq(Customers \cup Orders \cup Steps)  BY DEF Steps
      <3>2. q.pc = "funnel" /\ q.todo = <<1, 2, 3>> /\ q \in CallType
        BY <2>1, <2>2, <3>1 DEF Idle, CallType, Places
      <3>3. LocalsOK(q, DOMAIN queue)  BY <3>2 DEF LocalsOK
      <3>4. QED  BY <1>1, <2>1, <2>5, <3>2, <3>3 DEF Abandoned
    <2>6. ASSUME NEW o \in Orders, Purchased(r, o) PROVE TypeOK'
      <3>1. unlisted' \subseteq Nat /\ events' \in [Orders -> Nat]
        BY <2>1, <2>6 DEF Purchased
      <3>2. QED  BY <1>1, <2>2, <2>6, <3>1 DEF Purchased
    <2>7. ASSUME NEW o \in Orders, ZidOrder(r, o) PROVE TypeOK'
      <3>1. PICK event \in {"order.created", "order.paid", "order.delivered"} :
               Go(r, [Idle EXCEPT !.pc = event, !.todo = <<o>>])
        BY <2>7 DEF ZidOrder
      <3> DEFINE q == [Idle EXCEPT !.pc = event, !.todo = <<o>>]
      <3>2. <<o>> \in Seq(Customers \cup Orders \cup Steps)  OBVIOUS
      <3>3. q.pc = event /\ q \in CallType
        BY <2>2, <3>2 DEF Idle, CallType, Places, ZidEvents
      <3>4. LocalsOK(q, DOMAIN queue)  BY <3>3 DEF LocalsOK
      <3>5. QED  BY <1>1, <2>1, <2>7, <3>1, <3>3, <3>4 DEF ZidOrder
    <2>8. QED  BY <2>3, <2>4, <2>5, <2>6, <2>7
  <1>2. call' = [call EXCEPT ![r] = q] /\ UNCHANGED <<idle, reports, clock>>
    BY <1>1 DEF Go
  <1>3. count' \in [requests : Nat, days : Nat]  BY <1>1, BeginCount
  <1>4. /\ call' \in [Calls -> CallType]
        /\ \A p \in Calls : LocalsOK(call'[p], DOMAIN queue')
    BY <1>1, <1>2, CallTypeKept
  <1>5. /\ idle \in [Customers -> Days]
        /\ queue \in Seq(RowType)
        /\ reports \in Seq(Nat) /\ Len(reports) = Len(queue)
        /\ pushed \in [Funnels -> [Steps -> Nat]]
        /\ active \subseteq Funnels /\ clock \in Funnels
    BY TypeParts
  <1>6. QED  BY <1>1, <1>2, <1>3, <1>4, <1>5, TypeFromParts

\* Steps of a request that leave the queue alone.
LEMMA WorkType ==
    ASSUME TypeOK, NEW r \in Calls,
           Consider(r) \/ QueryFails(r) \/ Push(r)
    PROVE  TypeOK'
  <1>1. /\ call[r] \in CallType /\ LocalsOK(call[r], DOMAIN queue)
        /\ call[r].todo \in Seq(Customers \cup Orders \cup Steps)
        /\ call[r].rows \subseteq Customers \cup Nat /\ call[r].funnel \in Funnels
    BY CallRecord
  <1>2. /\ idle \in [Customers -> Days] /\ queue \in Seq(RowType)
        /\ reports \in Seq(Nat) /\ Len(reports) = Len(queue)
        /\ pushed \in [Funnels -> [Steps -> Nat]]
        /\ active \subseteq Funnels /\ clock \in Funnels
        /\ events \in [Orders -> Nat] /\ unlisted \subseteq Nat
        /\ count \in [requests : Nat, days : Nat]
    BY TypeParts
  <1>3. SUFFICES ASSUME NEW q \in CallType, Go(r, q), LocalsOK(q, DOMAIN queue),
                        pushed' \in [Funnels -> [Steps -> Nat]],
                        UNCHANGED <<queue, active, events, unlisted, count>>
                 PROVE  TypeOK'
    <2>1. CASE Consider(r)
      <3>1. PICK new \in {{}, {Head(call[r].todo)}} :
               Go(r, [call[r] EXCEPT !.todo = Tail(@), !.rows = @ \cup new])
        BY <2>1 DEF Consider
      <3> DEFINE q == [call[r] EXCEPT !.todo = Tail(@), !.rows = @ \cup new]
      <3>2. /\ call[r].pc = "winback" /\ call[r].todo # <<>>
            /\ call[r].todo \in Seq(Customers) /\ call[r].rows \subseteq Customers
        BY <1>1, <2>1 DEF Consider, LocalsOK
      <3>3. Tail(call[r].todo) \in Seq(Customers) /\ Head(call[r].todo) \in Customers
        BY <3>2
      <3>4. Tail(call[r].todo) \in Seq(Customers \cup Orders \cup Steps)
        BY <1>1, <3>2
      <3>5. /\ q \in CallType /\ q.pc = "winback"
            /\ q.todo = Tail(call[r].todo) /\ q.rows = call[r].rows \cup new
        BY <1>1, <3>1, <3>2, <3>3, <3>4 DEF CallType
      <3>6. LocalsOK(q, DOMAIN queue)
        BY <3>1, <3>2, <3>3, <3>5 DEF LocalsOK
      <3>7. QED  BY <1>2, <1>3, <2>1, <3>1, <3>5, <3>6 DEF Consider
    <2>2. CASE QueryFails(r)
      <3> DEFINE q == [call[r] EXCEPT !.todo = Tail(@), !.aborted = TRUE]
      <3>1. /\ call[r].pc = "winback" /\ call[r].todo # <<>>
            /\ call[r].todo \in Seq(Customers) /\ call[r].rows \subseteq Customers
        BY <1>1, <2>2 DEF QueryFails, LocalsOK
      <3>2. /\ Tail(call[r].todo) \in Seq(Customers)
            /\ Tail(call[r].todo) \in Seq(Customers \cup Orders \cup Steps)
        BY <1>1, <3>1
      <3>3. /\ q \in CallType /\ q.pc = "winback"
            /\ q.todo = Tail(call[r].todo) /\ q.rows = call[r].rows
        BY <1>1, <3>1, <3>2 DEF CallType
      <3>4. LocalsOK(q, DOMAIN queue)  BY <3>1, <3>2, <3>3 DEF LocalsOK
      <3>5. QED  BY <1>2, <1>3, <2>2, <3>3, <3>4 DEF QueryFails
    <2>3. CASE Push(r)
      <3> DEFINE q == [call[r] EXCEPT !.todo = Tail(@)]
      <3>1. /\ call[r].pc = "funnel" /\ call[r].todo # <<>>
            /\ call[r].todo \in {<<1, 2, 3>>, <<2, 3>>, << 3 >>, <<>>}
        BY <1>1, <2>3 DEF Push, LocalsOK
      <3>2. /\ Tail(call[r].todo) \in {<<2, 3>>, << 3 >>, <<>>}
            /\ Head(call[r].todo) \in Steps
        BY <3>1, Suffixes DEF Steps
      <3>3. Tail(call[r].todo) \in Seq(Customers \cup Orders \cup Steps)
        BY <1>1, <3>1
      <3>4. q \in CallType /\ q.pc = "funnel" /\ q.todo = Tail(call[r].todo)
        BY <1>1, <3>1, <3>3 DEF CallType
      <3>5. LocalsOK(q, DOMAIN queue)  BY <3>2, <3>4 DEF LocalsOK
      <3>6. pushed' \in [Funnels -> [Steps -> Nat]]
        <4>1. pushed' = [pushed EXCEPT ![call[r].funnel][Head(call[r].todo)] = @ + 1]
          BY <2>3 DEF Push
        <4>2. Head(call[r].todo) \in Steps /\ call[r].funnel \in Funnels  BY <1>1, <3>2
        <4>3. pushed[call[r].funnel] \in [Steps -> Nat]  BY <1>2, <4>2
        <4>4. [pushed[call[r].funnel] EXCEPT ![Head(call[r].todo)] = @ + 1] \in [Steps -> Nat]
          BY <4>2, <4>3
        <4>5. pushed' = [pushed EXCEPT ![call[r].funnel] =
                            [pushed[call[r].funnel] EXCEPT ![Head(call[r].todo)] = @ + 1]]
          BY <4>1
        <4>6. QED  BY <1>2, <4>2, <4>4, <4>5
      <3>7. QED  BY <1>2, <1>3, <2>3, <3>4, <3>5, <3>6 DEF Push
    <2>4. QED  BY <2>1, <2>2, <2>3
  <1>4. call' = [call EXCEPT ![r] = q] /\ UNCHANGED <<idle, reports, clock>>
    BY <1>3 DEF Go
  <1>5. /\ call' \in [Calls -> CallType]
        /\ \A p \in Calls : LocalsOK(call'[p], DOMAIN queue')
    BY <1>3, <1>4, CallTypeKept
  <1>6. QED  BY <1>2, <1>3, <1>4, <1>5, TypeFromParts

LEMMA FunctionIsSeq ==
    ASSUME NEW S, NEW n \in Nat, NEW f \in [1 .. n -> S]
    PROVE  f \in Seq(S) /\ Len(f) = n /\ \A i \in 1 .. n : f[i] \in S
  OBVIOUS

\* The rows a win-back request inserts: one for each customer it has chosen.
LEMMA InsertedRows ==
    ASSUME NEW rows, rows \subseteq Customers, NEW s \in Inserted(rows)
    PROVE  /\ s \in Seq(Customers) /\ \A i \in 1 .. Len(s) : s[i] \in rows
           /\ \A i, j \in 1 .. Len(s) : s[i] = s[j] => i = j
  <1>1. IsFiniteSet(rows)
    <2>1. rows \in SUBSET Customers /\ IsFiniteSet(Customers)  BY OutreachAssumption
    <2>2. QED  BY <2>1, FS_Subset
  <1> DEFINE n == Cardinality(rows)
  <1>2. n \in Nat  BY <1>1, FS_CardinalityType
  <1>3. s \in [1 .. n -> rows] /\ {s[i] : i \in DOMAIN s} = rows  BY DEF Inserted
  <1>4. IsFiniteSet(1 .. n) /\ Cardinality(1 .. n) = n
    <2>1. 1 \in Int /\ n \in Int  BY <1>2
    <2>2. /\ IsFiniteSet(1 .. n)
          /\ Cardinality(1 .. n) = IF 1 > n THEN 0 ELSE n - 1 + 1
      BY <2>1, FS_Interval
    <2>3. QED  BY <1>2, <2>2
  <1>5. s \in Surjection(1 .. n, rows)
    <2>1. \A c \in rows : \E i \in 1 .. n : s[i] = c  BY <1>3
    <2>2. QED  BY <1>3, <2>1 DEF Surjection
  <1>6. s \in Injection(1 .. n, rows)
    BY <1>4, <1>5, FS_SurjSameCardinalityImpliesInj
  <1> HIDE DEF n
  <1>7. s \in Seq(Customers) /\ Len(s) = n
    <2>1. s \in [1 .. n -> Customers]  BY <1>3
    <2>2. QED  BY <1>2, <2>1, FunctionIsSeq
  <1>8. /\ s \in [1 .. n -> rows]
        /\ \A i, j \in 1 .. n : s[i] = s[j] => i = j
    BY <1>6 DEF Injection, IsInjective
  <1>9. QED  BY <1>7, <1>8

\* What the queue is after them.
LEMMA Appended ==
    ASSUME queue \in Seq(RowType), reports \in Seq(Nat), Len(reports) = Len(queue),
           NEW s \in Seq(Customers),
           queue' = queue \o [i \in DOMAIN s |-> Row(s[i])],
           reports' = reports \o [i \in DOMAIN s |-> 0]
    PROVE  /\ queue' \in Seq(RowType) /\ reports' \in Seq(Nat)
           /\ Len(queue') = Len(queue) + Len(s) /\ Len(reports') = Len(queue')
           /\ DOMAIN queue \subseteq DOMAIN queue'
           /\ \A i \in DOMAIN queue : queue'[i] = queue[i] /\ reports'[i] = reports[i]
           /\ \A i \in DOMAIN queue' \ DOMAIN queue :
                 /\ i - Len(queue) \in 1 .. Len(s)
                 /\ queue'[i] = Row(s[i - Len(queue)]) /\ reports'[i] = 0
  <1> DEFINE t == [i \in DOMAIN s |-> Row(s[i])]
             z == [i \in DOMAIN s |-> 0]
  <1>1. \A c \in Customers : Row(c) \in RowType  BY DEF Row, RowType
  <1>2. /\ DOMAIN s = 1 .. Len(s) /\ Len(s) \in Nat
        /\ \A i \in 1 .. Len(s) : s[i] \in Customers
    OBVIOUS
  <1>3. t \in Seq(RowType) /\ Len(t) = Len(s) /\ \A i \in 1 .. Len(s) : t[i] = Row(s[i])
    BY <1>1, <1>2
  <1>4. z \in Seq(Nat) /\ Len(z) = Len(s) /\ \A i \in 1 .. Len(s) : z[i] = 0
    BY <1>2
  <1> HIDE DEF t, z
  <1>5. queue' = queue \o t /\ reports' = reports \o z  BY DEF t, z
  <1>6. /\ queue' \in Seq(RowType) /\ Len(queue') = Len(queue) + Len(s)
        /\ \A i \in 1 .. Len(queue) + Len(s) :
              queue'[i] = IF i <= Len(queue) THEN queue[i] ELSE t[i - Len(queue)]
    <2>1. /\ queue \o t \in Seq(RowType) /\ Len(queue \o t) = Len(queue) + Len(t)
          /\ \A i \in 1 .. Len(queue) + Len(t) :
                (queue \o t)[i] = IF i <= Len(queue) THEN queue[i] ELSE t[i - Len(queue)]
      <3>1. queue \in Seq(RowType) /\ t \in Seq(RowType)  BY <1>3
      <3>2. QED  BY ONLY <3>1, ConcatProperties, Zenon
    <2>2. QED  BY <1>3, <1>5, <2>1
  <1>7. /\ reports' \in Seq(Nat) /\ Len(reports') = Len(queue) + Len(s)
        /\ \A i \in 1 .. Len(queue) + Len(s) :
              reports'[i] = IF i <= Len(queue) THEN reports[i] ELSE z[i - Len(queue)]
    <2>1. /\ reports \o z \in Seq(Nat) /\ Len(reports \o z) = Len(reports) + Len(z)
          /\ \A i \in 1 .. Len(reports) + Len(z) :
                (reports \o z)[i] = IF i <= Len(reports) THEN reports[i]
                                    ELSE z[i - Len(reports)]
      BY <1>4, ConcatProperties
    <2>2. QED  BY <1>4, <1>5, <2>1
  <1>8. DOMAIN queue = 1 .. Len(queue) /\ DOMAIN queue' = 1 .. Len(queue) + Len(s)
    BY <1>6
  <1>9. DOMAIN queue \subseteq DOMAIN queue'  BY <1>8
  <1>10. \A i \in DOMAIN queue' \ DOMAIN queue :
           /\ i \in Len(queue) + 1 .. Len(queue) + Len(s)
           /\ i - Len(queue) \in 1 .. Len(s)
    BY <1>8
  <1>11. \A i \in DOMAIN queue' \ DOMAIN queue :
            queue'[i] = Row(s[i - Len(queue)]) /\ reports'[i] = 0
    BY <1>2, <1>3, <1>4, <1>6, <1>7, <1>10
  <1>12. \A i \in DOMAIN queue : queue'[i] = queue[i] /\ reports'[i] = reports[i]
    BY <1>2, <1>6, <1>7, <1>8
  <1>13. QED  BY <1>6, <1>7, <1>9, <1>10, <1>11, <1>12

\* What the queue is after a processing.
LEMMA MarkedQueue ==
    ASSUME TypeOK, NEW r \in Calls, Process(r)
    PROVE  /\ queue' \in Seq(RowType) /\ Len(queue') = Len(queue)
           /\ DOMAIN queue' = DOMAIN queue
           /\ \A i \in DOMAIN queue :
                 /\ queue'[i].customer = queue[i].customer
                 /\ queue'[i].status = IF i \in call[r].rows THEN "sent" ELSE queue[i].status
  <1>1. queue \in Seq(RowType)  BY TypeParts
  <1>2. DOMAIN queue = 1 .. Len(queue) /\ Len(queue) \in Nat  BY <1>1
  <1>3. queue' = [i \in 1 .. Len(queue) |->
                    IF i \in call[r].rows THEN [queue[i] EXCEPT !.status = "sent"] ELSE queue[i]]
    BY <1>2 DEF Process
  <1>4. \A i \in 1 .. Len(queue) : queue[i] \in RowType  BY <1>1, <1>2
  <1>5. \A q \in RowType : /\ [q EXCEPT !.status = "sent"] \in RowType
                           /\ [q EXCEPT !.status = "sent"].customer = q.customer
                           /\ [q EXCEPT !.status = "sent"].status = "sent"
    BY DEF RowType
  <1>6. ASSUME NEW i \in 1 .. Len(queue)
        PROVE  /\ queue'[i] \in RowType
               /\ queue'[i].customer = queue[i].customer
               /\ queue'[i].status = IF i \in call[r].rows THEN "sent" ELSE queue[i].status
    <2>1. queue'[i] = IF i \in call[r].rows THEN [queue[i] EXCEPT !.status = "sent"]
                      ELSE queue[i]
      BY <1>3
    <2>2. queue[i] \in RowType  BY <1>4
    <2>3. QED  BY <1>5, <2>1, <2>2
  <1>7. queue' \in Seq(RowType) /\ Len(queue') = Len(queue)
    <2>1. queue' \in [1 .. Len(queue) -> RowType]  BY <1>3, <1>6
    <2>2. QED  BY <1>2, <2>1, FunctionIsSeq
  <1>8. QED  BY <1>2, <1>3, <1>6, <1>7

\* What has been listed after an answer.
LEMMA AnsweredReports ==
    ASSUME TypeOK, NEW r \in Calls, Answer(r)
    PROVE  /\ reports' \in Seq(Nat) /\ Len(reports') = Len(queue)
           /\ \A i \in DOMAIN queue :
                 reports'[i] = IF i \in call[r].rows THEN reports[i] + 1 ELSE reports[i]
  <1>1. queue \in Seq(RowType) /\ reports \in Seq(Nat) /\ Len(reports) = Len(queue)
    BY TypeParts
  <1>2. /\ DOMAIN queue = 1 .. Len(queue) /\ DOMAIN reports = 1 .. Len(queue)
        /\ Len(queue) \in Nat
    BY <1>1
  <1>3. reports' = [i \in 1 .. Len(queue) |->
                      IF i \in call[r].rows THEN reports[i] + 1 ELSE reports[i]]
    BY <1>2 DEF Answer, Listed
  <1>4. \A i \in 1 .. Len(queue) : reports[i] \in Nat /\ reports[i] + 1 \in Nat
    BY <1>1, <1>2
  <1>5. reports' \in [1 .. Len(queue) -> Nat]  BY <1>3, <1>4
  <1>6. reports' \in Seq(Nat) /\ Len(reports') = Len(queue)  BY <1>2, <1>5, FunctionIsSeq
  <1>7. QED  BY <1>2, <1>3, <1>6

\* A request that read what is due commits it.
LEMMA ProcessType == ASSUME TypeOK, NEW r \in Calls, Process(r) PROVE TypeOK'
  <1> DEFINE q == [call[r] EXCEPT !.pc = "answering"]
  <1>1. /\ call[r].pc = "process" /\ call' = [call EXCEPT ![r] = q]
        /\ UNCHANGED <<idle, reports, pushed, active, events, unlisted, clock, count>>
    BY DEF Process, Go
  <1>2. /\ idle \in [Customers -> Days]
        /\ reports \in Seq(Nat) /\ Len(reports) = Len(queue)
        /\ pushed \in [Funnels -> [Steps -> Nat]]
        /\ active \subseteq Funnels /\ clock \in Funnels
        /\ events \in [Orders -> Nat] /\ unlisted \subseteq Nat
        /\ count \in [requests : Nat, days : Nat]
    BY TypeParts
  <1>3. /\ queue' \in Seq(RowType) /\ Len(queue') = Len(queue)
        /\ DOMAIN queue' = DOMAIN queue
    BY MarkedQueue
  <1>4. call[r] \in CallType /\ LocalsOK(call[r], DOMAIN queue)  BY CallRecord
  <1>5. q \in CallType /\ q.pc = "answering" /\ q.rows = call[r].rows
    BY <1>4 DEF CallType, Places
  <1>6. LocalsOK(q, DOMAIN queue')  BY <1>1, <1>3, <1>4, <1>5 DEF LocalsOK
  <1> HIDE DEF q
  <1>7. /\ call' \in [Calls -> CallType]
        /\ \A c \in Calls : LocalsOK(call'[c], DOMAIN queue')
    BY <1>1, <1>3, <1>5, <1>6, CallTypeKept
  <1>8. QED  BY <1>1, <1>2, <1>3, <1>7, TypeFromParts

\* Requests that end.
LEMMA EndType ==
    ASSUME TypeOK, NEW r \in Calls,
           \/ Winback(r) \/ Answer(r) \/ ProcessFails(r)
           \/ Activate(r) \/ FunnelFails(r) \/ ZidTask(r) \/ Dies(r)
    PROVE  TypeOK'
  <1>1. /\ idle \in [Customers -> Days] /\ queue \in Seq(RowType)
        /\ reports \in Seq(Nat) /\ Len(reports) = Len(queue)
        /\ pushed \in [Funnels -> [Steps -> Nat]]
        /\ active \subseteq Funnels /\ clock \in Funnels
        /\ events \in [Orders -> Nat] /\ unlisted \subseteq Nat
        /\ count \in [requests : Nat, days : Nat]
    BY TypeParts
  <1>2. Finish(r) /\ pushed' = pushed
    BY DEF Winback, Answer, ProcessFails, Activate, FunnelFails, ZidTask, Dies
  <1>8. unlisted' \subseteq Nat
    <2>1. unlisted' = unlisted \/ unlisted' = Left(r)
      BY DEF Winback, Answer, ProcessFails, Activate, FunnelFails, ZidTask, Dies
    <2>2. call[r].pc = "answering" => call[r].rows \subseteq DOMAIN queue
      BY CallRecord DEF LocalsOK
    <2>3. DOMAIN queue \subseteq Nat  BY <1>1
    <2>4. Left(r) \subseteq Nat  BY <1>1, <2>2, <2>3 DEF Left
    <2>5. QED  BY <1>1, <2>1, <2>4
  <1>3. /\ queue' \in Seq(RowType) /\ reports' \in Seq(Nat)
        /\ Len(reports') = Len(queue') /\ DOMAIN queue \subseteq DOMAIN queue'
    <2>1. CASE Winback(r)
      <3>1. CASE UNCHANGED <<queue, reports>>  BY <1>1, <3>1
      <3>2. ASSUME NEW s \in Inserted(call[r].rows),
                   queue' = queue \o [i \in DOMAIN s |-> Row(s[i])],
                   reports' = reports \o [i \in DOMAIN s |-> 0]
            PROVE  /\ queue' \in Seq(RowType) /\ reports' \in Seq(Nat)
                   /\ Len(reports') = Len(queue') /\ DOMAIN queue \subseteq DOMAIN queue'
        <4>1. call[r].rows \subseteq Customers  BY <2>1, CallRecord DEF Winback, LocalsOK
        <4>2. s \in Seq(Customers)  BY <4>1, InsertedRows
        <4>3. QED  BY <1>1, <3>2, <4>2, Appended, Zenon
      <3>3. QED  BY <2>1, <3>1, <3>2 DEF Winback
    <2>2. CASE Answer(r)  BY <1>1, <2>2, AnsweredReports DEF Answer
    <2>3. CASE UNCHANGED <<queue, reports>>  BY <1>1, <2>3
    <2>4. QED
      BY <2>1, <2>2, <2>3 DEF ProcessFails, Activate, FunnelFails, ZidTask, Dies
  <1>4. active' \subseteq Funnels
    <2>1. call[r].funnel \in Funnels  BY CallRecord
    <2>2. active' = active \/ active' = active \cup {call[r].funnel}
      BY DEF Winback, Answer, ProcessFails, Activate, FunnelFails, ZidTask, Dies
    <2>3. QED  BY <1>1, <2>1, <2>2
  <1>5. events' = events
    BY DEF Winback, Answer, ProcessFails, Activate, FunnelFails, ZidTask, Dies, Attributed
  <1>6. /\ call' \in [Calls -> CallType]
        /\ \A p \in Calls : LocalsOK(call'[p], DOMAIN queue')
        /\ UNCHANGED <<idle, clock, count>>
    BY <1>2, <1>3, FinishType
  <1>7. QED  BY <1>1, <1>2, <1>3, <1>4, <1>5, <1>6, <1>8, TypeFromParts

\* Days, seconds, expired keys and rows that fall due.
LEMMA WorldType ==
    ASSUME TypeOK,
           \/ \E c \in Customers : TurnEnds(c) \/ StaysAway(c)
           \/ \E i \in DOMAIN queue : FallsDue(i)
           \/ \E f \in Funnels : Expires(f)
           \/ Tick
    PROVE  TypeOK'
  <1>1. /\ idle \in [Customers -> Days] /\ queue \in Seq(RowType)
        /\ reports \in Seq(Nat) /\ Len(reports) = Len(queue)
        /\ call \in [Calls -> CallType]
        /\ \A r \in Calls : LocalsOK(call[r], DOMAIN queue)
        /\ pushed \in [Funnels -> [Steps -> Nat]]
        /\ active \subseteq Funnels /\ clock \in Funnels
        /\ events \in [Orders -> Nat] /\ unlisted \subseteq Nat
        /\ count \in [requests : Nat, days : Nat]
    BY TypeParts
  <1>2. CASE \E c \in Customers : TurnEnds(c) \/ StaysAway(c)
    <2>1. idle' \in [Customers -> Days]
      <3>1. PICK c \in Customers, d \in Days : idle' = [idle EXCEPT ![c] = d]
        BY <1>2, OutreachAssumption DEF TurnEnds, StaysAway
      <3>2. QED  BY <1>1, <3>1
    <2>2. count' \in [requests : Nat, days : Nat]
      <3>1. count' = [count EXCEPT !.days = @ + 1]  BY <1>2 DEF TurnEnds, StaysAway
      <3>2. QED  BY <1>1, <3>1
    <2>3. UNCHANGED <<queue, call, reports, pushed, active, events, unlisted, clock>>
      BY <1>2 DEF TurnEnds, StaysAway
    <2>4. QED  BY <1>1, <2>1, <2>2, <2>3, TypeFromParts
  <1>3. ASSUME NEW i \in DOMAIN queue, FallsDue(i) PROVE TypeOK'
    <2>1. queue' \in Seq(RowType) /\ Len(queue') = Len(queue) /\ DOMAIN queue' = DOMAIN queue
      <3>1. queue' = [queue EXCEPT ![i] = [queue[i] EXCEPT !.due = TRUE]]
        <4>1. queue' = [queue EXCEPT ![i].due = TRUE]  BY <1>3 DEF FallsDue
        <4>2. QED  BY <4>1
      <3>2. [queue[i] EXCEPT !.due = TRUE] \in RowType
        <4>1. queue[i] \in RowType  BY <1>1
        <4>2. QED  BY <4>1 DEF RowType
      <3>3. i \in 1 .. Len(queue)  BY <1>1
      <3>4. QED  BY <1>1, <3>1, <3>2, <3>3, ExceptSeq
    <2>2. UNCHANGED <<idle, call, reports, pushed, active, events, unlisted, clock, count>>
      BY <1>3 DEF FallsDue
    <2>3. QED  BY <1>1, <2>1, <2>2, TypeFromParts
  <1>4. CASE \E f \in Funnels : Expires(f)
    <2>1. active' \subseteq Funnels  BY <1>1, <1>4 DEF Expires
    <2>2. UNCHANGED <<idle, queue, call, reports, pushed, events, unlisted, clock, count>>
      BY <1>4 DEF Expires
    <2>3. QED  BY <1>1, <2>1, <2>2, TypeFromParts
  <1>5. CASE Tick
    <2>1. clock' \in Funnels  BY <1>1, <1>5, OutreachAssumption DEF Tick, Funnels
    <2>2. UNCHANGED <<idle, queue, call, reports, pushed, active, events, unlisted, count>>
      BY <1>5 DEF Tick
    <2>3. QED  BY <1>1, <2>1, <2>2, TypeFromParts
  <1>6. QED  BY <1>2, <1>3, <1>4, <1>5

LEMMA NextType == ASSUME TypeOK, [Next]_vars PROVE TypeOK'
  <1>1. CASE UNCHANGED vars  BY <1>1 DEF vars, TypeOK, PendingOf
  <1>2. CASE Next  BY <1>2, BeginType, WorkType, ProcessType, EndType, WorldType DEF Next
  <1>3. QED  BY <1>1, <1>2

LEMMA InitType == Init => TypeOK
  <1> SUFFICES ASSUME Init PROVE TypeOK
    OBVIOUS
  <1>1. /\ idle \in [Customers -> Days] /\ 0 \in Funnels
    BY OutreachAssumption DEF Init, Funnels
  <1>2. queue \in Seq(RowType) /\ reports \in Seq(Nat) /\ Len(reports) = Len(queue)
    BY DEF Init
  <1>3. call \in [Calls -> CallType] /\ \A r \in Calls : LocalsOK(call[r], DOMAIN queue)
    BY IdleType DEF Init
  <1>4. pushed \in [Funnels -> [Steps -> Nat]]  BY DEF Init
  <1>5. events \in [Orders -> Nat] /\ unlisted \subseteq Nat  BY DEF Init
  <1>6. QED  BY <1>1, <1>2, <1>3, <1>4, <1>5, TypeParts DEF Init

-----------------------------------------------------------------------------
(* Funnels                                                                 *)

\* A step of another request changes neither the funnel of this one nor its list.
LEMMA FunnelStep ==
    ASSUME TypeOK, PushedSoFar, FunnelIsQueued, [Next]_vars
    PROVE  PushedSoFar' /\ FunnelIsQueued'
  <1>1. /\ pushed \in [Funnels -> [Steps -> Nat]]
        /\ call \in [Calls -> CallType] /\ active \subseteq Funnels
    BY TypeParts
  <1>2. CASE UNCHANGED <<call, pushed>> /\ active' \subseteq active
    BY <1>2 DEF PushedSoFar, FunnelIsQueued
  <1>3. ASSUME NEW r \in Calls, NEW q, call' = [call EXCEPT ![r] = q],
               q.pc # "funnel", UNCHANGED pushed, active' = active
        PROVE  PushedSoFar' /\ FunnelIsQueued'
    <2>1. \A p \in Calls : call'[p] = IF p = r THEN q ELSE call[p]  BY <1>1, <1>3
    <2>2. PushedSoFar'  BY <1>3, <2>1 DEF PushedSoFar
    <2>3. QED  BY <1>3, <2>2 DEF FunnelIsQueued
  <1>4. Idle.pc = "idle"  BY DEF Idle
  <1>5. ASSUME NEW r \in Calls, Abandoned(r) PROVE PushedSoFar' /\ FunnelIsQueued'
    <2> DEFINE q == [Idle EXCEPT !.pc = "funnel", !.todo = <<1, 2, 3>>, !.funnel = clock]
    <2>1. call' = [call EXCEPT ![r] = q] /\ UNCHANGED <<pushed, active>>
      BY <1>5 DEF Abandoned, Go
    <2>2. \A p \in Calls : call'[p] = IF p = r THEN q ELSE call[p]  BY <1>1, <2>1
    <2>3. \A s \in Steps : \E i \in DOMAIN q.todo : q.todo[i] = s
      <3>1. q.todo = <<1, 2, 3>>  BY DEF Idle
      <3>2. \A s \in Steps : s \in DOMAIN <<1, 2, 3>> /\ <<1, 2, 3>>[s] = s  BY DEF Steps
      <3>3. QED  BY <3>1, <3>2
    <2> HIDE DEF q
    <2>4. PushedSoFar'  BY <2>1, <2>2, <2>3 DEF PushedSoFar
    <2>5. QED  BY <2>1, <2>4 DEF FunnelIsQueued
  <1>6. ASSUME NEW r \in Calls, Push(r) PROVE PushedSoFar' /\ FunnelIsQueued'
    <2> DEFINE q == [call[r] EXCEPT !.todo = Tail(@)]
               todo == call[r].todo
               f == call[r].funnel
    <2>1. /\ call[r].pc = "funnel" /\ todo # <<>>
          /\ pushed' = [pushed EXCEPT ![f][Head(todo)] = @ + 1]
          /\ call' = [call EXCEPT ![r] = q] /\ active' = active
      BY <1>6 DEF Push, Go
    <2>2. todo \in {<<1, 2, 3>>, <<2, 3>>, << 3 >>, <<>>} /\ f \in Funnels /\ call[r] \in CallType
      BY <2>1, CallRecord DEF LocalsOK
    <2>3. /\ Head(todo) \in Steps
          /\ \A s \in Steps : (\E i \in DOMAIN todo : todo[i] = s) =>
                s = Head(todo) \/ \E i \in DOMAIN Tail(todo) : Tail(todo)[i] = s
      BY <2>1, <2>2, Suffixes
    <2>4. \A p \in Calls : call'[p] = IF p = r THEN q ELSE call[p]  BY <1>1, <2>1
    <2>5. q.pc = "funnel" /\ q.todo = Tail(todo) /\ q.funnel = f  BY <2>1, <2>2 DEF CallType
    <2>6. \A g \in Funnels, s \in Steps :
             pushed'[g][s] = IF g = f /\ s = Head(todo) THEN pushed[g][s] + 1 ELSE pushed[g][s]
      BY <1>1, <2>1, <2>2, <2>3
    <2>7. \A g \in Funnels, s \in Steps : pushed[g][s] \in Nat  BY <1>1
    <2>8. \A g \in Funnels, s \in Steps : pushed[g][s] > 0 => pushed'[g][s] > 0
      BY <2>6, <2>7
    <2>9. pushed'[f][Head(todo)] > 0  BY <2>2, <2>3, <2>6, <2>7
    <2>10. FunnelIsQueued'  BY <1>1, <2>1, <2>8 DEF FunnelIsQueued
    <2>11. ASSUME NEW p \in Calls, call'[p].pc = "funnel", NEW s \in Steps
           PROVE  pushed'[call'[p].funnel][s] > 0
                  \/ \E i \in DOMAIN call'[p].todo : call'[p].todo[i] = s
      <3>1. CASE p = r
        <4>1. call'[p].funnel = f /\ call'[p].todo = Tail(todo)  BY <2>4, <2>5, <3>1
        <4>2. pushed[f][s] > 0 \/ \E i \in DOMAIN todo : todo[i] = s
          BY <2>1 DEF PushedSoFar
        <4>3. CASE pushed[f][s] > 0  BY <2>2, <2>8, <4>1, <4>3
        <4>4. CASE \E i \in DOMAIN todo : todo[i] = s
          <5>1. s = Head(todo) \/ \E i \in DOMAIN Tail(todo) : Tail(todo)[i] = s
            BY <2>3, <4>4
          <5>2. QED  BY <2>9, <4>1, <5>1
        <4>5. QED  BY <4>2, <4>3, <4>4
      <3>2. CASE p # r
        <4>1. call'[p] = call[p]  BY <2>4, <3>2
        <4>2. call[p].funnel \in Funnels  BY CallRecord
        <4>3. pushed[call[p].funnel][s] > 0 \/ \E i \in DOMAIN call[p].todo : call[p].todo[i] = s
          BY <2>11, <4>1 DEF PushedSoFar
        <4>4. QED  BY <2>8, <4>1, <4>2, <4>3
      <3>3. QED  BY <3>1, <3>2
    <2>12. QED  BY <2>10, <2>11 DEF PushedSoFar
  <1>7. ASSUME NEW r \in Calls, Activate(r) PROVE PushedSoFar' /\ FunnelIsQueued'
    <2>1. /\ call[r].pc = "funnel" /\ call[r].todo = <<>>
          /\ call' = [call EXCEPT ![r] = Idle] /\ pushed' = pushed
          /\ active' = active \cup {call[r].funnel}
      BY <1>7 DEF Activate, Finish
    <2>2. \A p \in Calls : call'[p] = IF p = r THEN Idle ELSE call[p]  BY <1>1, <2>1
    <2>3. PushedSoFar'  BY <1>4, <2>1, <2>2 DEF PushedSoFar
    <2>4. \A s \in Steps : pushed[call[r].funnel][s] > 0  BY <2>1 DEF PushedSoFar
    <2>5. QED  BY <2>1, <2>3, <2>4 DEF FunnelIsQueued
  <1>8. ASSUME NEW r \in Calls, Consider(r) \/ QueryFails(r)
        PROVE  PushedSoFar' /\ FunnelIsQueued'
    <2>1. PICK q : call' = [call EXCEPT ![r] = q] /\ q.pc = call[r].pc
      <3>1. call[r] \in CallType  BY <1>1
      <3>2. QED  BY <1>8, <3>1 DEF Consider, QueryFails, Go, CallType
    <2>2. q.pc # "funnel" /\ UNCHANGED pushed /\ active' = active
      BY <1>8, <2>1 DEF Consider, QueryFails
    <2>3. QED  BY <1>3, <2>1, <2>2
  <1>9. ASSUME NEW r \in Calls,
               \/ Scan(r) \/ Select(r) \/ \E o \in Orders : Purchased(r, o) \/ ZidOrder(r, o)
        PROVE  PushedSoFar' /\ FunnelIsQueued'
    <2>1. PICK q : call' = [call EXCEPT ![r] = q] /\ q.pc # "funnel"
      <3>1. CASE Scan(r)
        <4>1. PICK inactive \in Thresholds : \E chosen \in Chosen(inactive) :
                 Go(r, [Idle EXCEPT !.pc = "winback", !.todo = chosen])
          BY <3>1 DEF Scan
        <4>2. PICK chosen \in Chosen(inactive) :
                 Go(r, [Idle EXCEPT !.pc = "winback", !.todo = chosen])
          BY <4>1
        <4>3. [Idle EXCEPT !.pc = "winback", !.todo = chosen].pc = "winback"  BY DEF Idle
        <4>4. QED  BY <4>2, <4>3 DEF Go
      <3>2. CASE Select(r)
        <4>1. PICK rows : Go(r, [Idle EXCEPT !.pc = "process", !.rows = rows])
          BY <3>2 DEF Select
        <4>2. [Idle EXCEPT !.pc = "process", !.rows = rows].pc = "process"  BY DEF Idle
        <4>3. QED  BY <4>1, <4>2 DEF Go
      <3>3. CASE \E o \in Orders : Purchased(r, o)  BY <1>4, <3>3 DEF Purchased, Go
      <3>4. CASE \E o \in Orders : ZidOrder(r, o)
        <4>1. PICK o \in Orders : \E event \in {"order.created", "order.paid", "order.delivered"} :
                 Go(r, [Idle EXCEPT !.pc = event, !.todo = <<o>>])
          BY <3>4 DEF ZidOrder
        <4>2. PICK event \in {"order.created", "order.paid", "order.delivered"} :
                 Go(r, [Idle EXCEPT !.pc = event, !.todo = <<o>>])
          BY <4>1
        <4>3. [Idle EXCEPT !.pc = event, !.todo = <<o>>].pc = event  BY DEF Idle
        <4>4. QED  BY <4>2, <4>3 DEF Go
      <3>5. QED  BY <1>9, <3>1, <3>2, <3>3, <3>4
    <2>2. UNCHANGED pushed /\ active' = active
      BY <1>9 DEF Scan, Select, Purchased, ZidOrder
    <2>3. QED  BY <1>3, <2>1, <2>2
  <1>10. ASSUME NEW r \in Calls,
                Winback(r) \/ Answer(r) \/ ProcessFails(r) \/ FunnelFails(r) \/ ZidTask(r) \/ Dies(r)
         PROVE  PushedSoFar' /\ FunnelIsQueued'
    <2>1. call' = [call EXCEPT ![r] = Idle] /\ UNCHANGED pushed /\ active' = active
      BY <1>10 DEF Winback, Answer, ProcessFails, FunnelFails, ZidTask, Dies, Finish
    <2>2. QED  BY <1>3, <1>4, <2>1
  <1>11. CASE \/ \E c \in Customers : TurnEnds(c) \/ StaysAway(c)
              \/ \E i \in DOMAIN queue : FallsDue(i)
              \/ \E f \in Funnels : Expires(f)
              \/ Tick
              \/ UNCHANGED vars
    <2>1. UNCHANGED <<call, pushed>> /\ active' \subseteq active
      BY <1>11 DEF TurnEnds, StaysAway, FallsDue, Expires, Tick, vars
    <2>2. QED  BY <1>2, <2>1
  <1>12. ASSUME NEW r \in Calls, Process(r) PROVE PushedSoFar' /\ FunnelIsQueued'
    <2> DEFINE answering == [call[r] EXCEPT !.pc = "answering"]
    <2>0. answering.pc = "answering" /\ call' = [call EXCEPT ![r] = answering]
      <3>1. call[r] \in CallType  BY <1>1
      <3>2. answering.pc = "answering"  BY <3>1 DEF CallType
      <3>3. QED  BY <1>12, <3>2 DEF Process, Go
    <2> HIDE DEF answering
    <2>1. PICK q : call' = [call EXCEPT ![r] = q] /\ q.pc = "answering"  BY <2>0
    <2>2. UNCHANGED pushed /\ active' = active  BY <1>12 DEF Process
    <2>3. QED  BY <1>3, <2>1, <2>2
  <1>13. QED  BY <1>5, <1>6, <1>7, <1>8, <1>9, <1>10, <1>11, <1>12 DEF Next

-----------------------------------------------------------------------------
(* The queue, while requests of a kind do not overlap                      *)

QueueFacts == /\ LookedIsCurrent /\ ReadIsCurrent /\ Single
              /\ CommittedIsSent /\ OwnedByOne /\ SentIsReportedOnce

\* Two requests of a kind are noticed by the history.
LEMMA AloneStep ==
    ASSUME NEW kind \in {"winback", "process"}, Alone(kind),
           MCNext \/ UNCHANGED <<vars, overlapped>>
    PROVE  Alone(kind)' /\ overlapped \subseteq overlapped'
  <1>1. CASE UNCHANGED <<vars, overlapped>>  BY <1>1 DEF vars, Alone
  <1>2. CASE MCNext
    <2>1. overlapped' = overlapped \cup
             {k \in {"winback", "process"} : Cardinality(InFlight(k)) > 1}
      BY <1>2 DEF MCNext
    <2>2. ASSUME kind \notin overlapped', NEW r \in Calls, NEW q \in Calls,
                 call'[r].pc = kind, call'[q].pc = kind, r # q
          PROVE  FALSE
      <3>1. {r, q} \subseteq InFlight(kind)  BY <2>2 DEF InFlight
      <3>2. IsFiniteSet(InFlight(kind))
        <4>1. InFlight(kind) \in SUBSET Calls /\ IsFiniteSet(Calls)
          BY OutreachAssumption DEF InFlight
        <4>2. QED  BY <4>1, FS_Subset
      <3>3. Cardinality({r, q}) = 2
        <4>1. IsFiniteSet({q}) /\ Cardinality({q}) = 1  BY FS_Singleton
        <4>2. Cardinality({q} \cup {r}) = Cardinality({q}) + 1
          BY <2>2, <4>1, FS_AddElement
        <4>3. {q} \cup {r} = {r, q}  OBVIOUS
        <4>4. QED  BY <4>1, <4>2, <4>3
      <3>4. Cardinality({r, q}) <= Cardinality(InFlight(kind))
        BY <3>1, <3>2, FS_Subset
      <3>5. Cardinality(InFlight(kind)) \in Nat  BY <3>2, FS_CardinalityType
      <3>6. Cardinality(InFlight(kind)) > 1  BY <3>3, <3>4, <3>5
      <3>7. QED  BY <2>1, <2>2, <3>6
    <2>3. Alone(kind)'  BY <2>2 DEF Alone
    <2>4. QED  BY <2>1, <2>3
  <1>3. QED  BY <1>1, <1>2

\* A step of one request that leaves the queue alone.
LEMMA QuietStep ==
    ASSUME TypeOK, QueueFacts, overlapped \subseteq overlapped',
           NEW r \in Calls, NEW q, call' = [call EXCEPT ![r] = q],
           UNCHANGED <<queue, reports, unlisted>>,
           call[r].pc # "answering", q.pc # "answering",
           q.pc = "winback" => \A c \in q.rows :
               PendingOf(c) = {} \/ (call[r].pc = "winback" /\ c \in call[r].rows),
           q.pc = "process" => \A i \in q.rows : queue[i].status = "pending"
    PROVE  QueueFacts'
  <1>1. \A p \in Calls : call'[p] = IF p = r THEN q ELSE call[p]  BY TypeParts
  <1>2. \A c : PendingOf(c)' = PendingOf(c)  BY DEF PendingOf
  <1>3. LookedIsCurrent'  BY <1>1, <1>2 DEF QueueFacts, LookedIsCurrent
  <1>4. ReadIsCurrent'  BY <1>1 DEF QueueFacts, ReadIsCurrent
  <1>5. Single'  BY DEF QueueFacts, Single
  <1>6. \A p \in Calls : \A i : call'[p].pc = "answering" /\ i \in call'[p].rows
                                <=> call[p].pc = "answering" /\ i \in call[p].rows
    BY <1>1
  <1>7. CommittedIsSent'  BY <1>6 DEF QueueFacts, CommittedIsSent
  <1>8. OwnedByOne'  BY <1>6 DEF QueueFacts, OwnedByOne
  <1>9. \A i : Unreported(i)' <=> Unreported(i)  BY <1>6 DEF Unreported
  <1>10. SentIsReportedOnce'  BY <1>9 DEF QueueFacts, SentIsReportedOnce
  <1>11. QED  BY <1>3, <1>4, <1>5, <1>7, <1>8, <1>10 DEF QueueFacts

\* The step in which a win-back request commits its rows.
LEMMA InsertStep ==
    ASSUME TypeOK, QueueFacts, Alone("winback"), overlapped \subseteq overlapped',
           NEW r \in Calls, Winback(r), NEW s \in Inserted(call[r].rows),
           queue' = queue \o [i \in DOMAIN s |-> Row(s[i])],
           reports' = reports \o [i \in DOMAIN s |-> 0]
    PROVE  QueueFacts'
  <1>1. /\ call[r].pc = "winback" /\ call[r].rows \subseteq Customers
        /\ call' = [call EXCEPT ![r] = Idle] /\ unlisted' = unlisted
    BY CallRecord DEF Winback, LocalsOK, Finish
  <1>2. \A p \in Calls : call'[p] = IF p = r THEN Idle ELSE call[p]  BY <1>1, TypeParts
  <1>3. Idle.pc = "idle"  BY DEF Idle
  <1>4. queue \in Seq(RowType) /\ reports \in Seq(Nat) /\ Len(reports) = Len(queue)
    BY TypeParts
  <1>5. /\ s \in Seq(Customers) /\ \A i \in 1 .. Len(s) : s[i] \in call[r].rows
        /\ \A i, j \in 1 .. Len(s) : s[i] = s[j] => i = j
    BY <1>1, InsertedRows
  <1>6. /\ DOMAIN queue \subseteq DOMAIN queue'
        /\ \A i \in DOMAIN queue : queue'[i] = queue[i] /\ reports'[i] = reports[i]
        /\ \A i \in DOMAIN queue' \ DOMAIN queue :
              /\ i - Len(queue) \in 1 .. Len(s)
              /\ queue'[i] = Row(s[i - Len(queue)]) /\ reports'[i] = 0
        /\ queue' \in Seq(RowType)
    BY <1>4, <1>5, Appended, Zenon
  <1>7. ASSUME NEW i \in DOMAIN queue' \ DOMAIN queue
        PROVE  /\ queue'[i].customer \in call[r].rows /\ queue'[i].status = "pending"
               /\ queue'[i].customer = s[i - Len(queue)] /\ reports'[i] = 0
    <2>1. i - Len(queue) \in 1 .. Len(s) /\ queue'[i] = Row(s[i - Len(queue)]) /\ reports'[i] = 0
      BY <1>6
    <2>2. s[i - Len(queue)] \in call[r].rows  BY <1>5, <2>1
    <2>3. \A c : Row(c).customer = c /\ Row(c).status = "pending"  BY DEF Row
    <2>4. QED  BY <2>1, <2>2, <2>3
  <1>8. LookedIsCurrent'
    <2>1. "winback" \notin overlapped => \A p \in Calls : call'[p].pc # "winback"
      BY <1>1, <1>2, <1>3 DEF Alone
    <2>2. QED  BY <2>1 DEF LookedIsCurrent
  <1>9. ReadIsCurrent'
    <2>1. \A p \in Calls : LocalsOK(call[p], DOMAIN queue)  BY TypeParts
    <2>2. QED  BY <1>2, <1>3, <1>6, <2>1 DEF QueueFacts, ReadIsCurrent, LocalsOK
  <1>10. Single'
    <2>1. SUFFICES ASSUME "winback" \notin overlapped,
                          NEW i \in DOMAIN queue', NEW j \in DOMAIN queue',
                          queue'[i].customer = queue'[j].customer,
                          queue'[i].status = "pending", queue'[j].status = "pending"
                   PROVE  i = j
      BY DEF Single
    <2>2. \A c \in call[r].rows : PendingOf(c) = {}
      BY <1>1, <2>1 DEF QueueFacts, LookedIsCurrent
    <2>3. CASE i \in DOMAIN queue /\ j \in DOMAIN queue
      BY <1>6, <2>1, <2>3 DEF QueueFacts, Single
    <2>4. CASE i \in DOMAIN queue /\ j \notin DOMAIN queue
      <3>1. i \in PendingOf(queue'[j].customer)  BY <1>6, <2>1, <2>4 DEF PendingOf
      <3>2. queue'[j].customer \in call[r].rows  BY <1>7, <2>4
      <3>3. QED  BY <2>2, <3>1, <3>2
    <2>5. CASE i \notin DOMAIN queue /\ j \in DOMAIN queue
      <3>1. j \in PendingOf(queue'[i].customer)  BY <1>6, <2>1, <2>5 DEF PendingOf
      <3>2. queue'[i].customer \in call[r].rows  BY <1>7, <2>5
      <3>3. QED  BY <2>2, <3>1, <3>2
    <2>6. CASE i \notin DOMAIN queue /\ j \notin DOMAIN queue
      <3>1. /\ i - Len(queue) \in 1 .. Len(s) /\ j - Len(queue) \in 1 .. Len(s)
            /\ s[i - Len(queue)] = s[j - Len(queue)]
        BY <1>6, <1>7, <2>1, <2>6
      <3>2. i - Len(queue) = j - Len(queue)  BY <1>5, <3>1
      <3>3. i \in Nat /\ j \in Nat /\ Len(queue) \in Nat
        <4>1. DOMAIN queue' = 1 .. Len(queue') /\ Len(queue) \in Nat  BY <1>4, <1>6
        <4>2. QED  BY <2>1, <4>1
      <3>4. QED  BY <3>2, <3>3
    <2>7. QED  BY <2>3, <2>4, <2>5, <2>6
  <1>13. \A p \in Calls : \A i : call'[p].pc = "answering" /\ i \in call'[p].rows
                                 <=> call[p].pc = "answering" /\ i \in call[p].rows
    BY <1>1, <1>2, <1>3
  <1>14. CommittedIsSent'
    <2>1. \A p \in Calls : call[p].pc = "answering" => call[p].rows \subseteq DOMAIN queue
      BY CallRecord DEF LocalsOK
    <2>2. QED  BY <1>1, <1>6, <1>13, <2>1 DEF QueueFacts, CommittedIsSent
  <1>15. OwnedByOne'  BY <1>1, <1>13 DEF QueueFacts, OwnedByOne
  <1>11. SentIsReportedOnce'
    <2>0. \A i : Unreported(i)' <=> Unreported(i)  BY <1>1, <1>13 DEF Unreported
    <2>1. ASSUME "process" \notin overlapped, NEW i \in DOMAIN queue'
          PROVE  reports'[i] = IF queue'[i].status = "sent" /\ ~Unreported(i)' THEN 1 ELSE 0
      <3>1. CASE i \in DOMAIN queue
        BY <1>6, <2>0, <2>1, <3>1 DEF QueueFacts, SentIsReportedOnce
      <3>2. CASE i \notin DOMAIN queue  BY <1>7, <2>1, <3>2
      <3>3. QED  BY <3>1, <3>2
    <2>2. QED  BY <2>1 DEF SentIsReportedOnce
  <1>12. QED  BY <1>8, <1>9, <1>10, <1>11, <1>14, <1>15 DEF QueueFacts

\* The step in which a process request commits: nobody has listed what it read.
LEMMA MarkStep ==
    ASSUME TypeOK, QueueFacts, Alone("process"), overlapped \subseteq overlapped',
           NEW r \in Calls, Process(r)
    PROVE  QueueFacts'
  <1> DEFINE q == [call[r] EXCEPT !.pc = "answering"]
  <1>1. /\ call[r].pc = "process" /\ call' = [call EXCEPT ![r] = q]
        /\ UNCHANGED <<reports, unlisted>>
    BY DEF Process, Go
  <1>2. q.pc = "answering" /\ q.rows = call[r].rows  BY CallRecord DEF CallType
  <1> HIDE DEF q
  <1>3. \A p \in Calls : call'[p] = IF p = r THEN q ELSE call[p]  BY <1>1, TypeParts
  <1>4. /\ DOMAIN queue' = DOMAIN queue
        /\ \A i \in DOMAIN queue :
              /\ queue'[i].customer = queue[i].customer
              /\ queue'[i].status = IF i \in call[r].rows THEN "sent" ELSE queue[i].status
    BY MarkedQueue
  <1>5. \A i \in DOMAIN queue : queue'[i].status = "pending" => queue[i].status = "pending"
    BY <1>4
  <1>6. LookedIsCurrent'
    <2>1. \A c : PendingOf(c)' \subseteq PendingOf(c)  BY <1>4, <1>5 DEF PendingOf
    <2>2. \A p \in Calls : call'[p].pc = "winback" => call'[p] = call[p]  BY <1>2, <1>3
    <2>3. QED  BY <2>1, <2>2 DEF QueueFacts, LookedIsCurrent
  <1>7. ReadIsCurrent'  BY <1>1, <1>2, <1>3 DEF ReadIsCurrent, Alone
  <1>8. Single'  BY <1>4, <1>5 DEF QueueFacts, Single
  <1>9. \A p \in Calls : call[p].pc \in {"process", "answering"} =>
                            call[p].rows \subseteq DOMAIN queue
    BY CallRecord DEF LocalsOK
  <1>10. CommittedIsSent'
    <2>1. \A i \in DOMAIN queue : queue[i].status = "sent" => queue'[i].status = "sent"
      BY <1>4
    <2>2. \A i \in q.rows : queue'[i].status = "sent"  BY <1>1, <1>2, <1>4, <1>9
    <2>3. ASSUME NEW p \in Calls, call'[p].pc = "answering", NEW i \in call'[p].rows
          PROVE  queue'[i].status = "sent"
      <3>1. CASE p = r  BY <1>3, <2>2, <2>3, <3>1
      <3>2. CASE p # r  BY <1>3, <1>9, <2>1, <2>3, <3>2 DEF QueueFacts, CommittedIsSent
      <3>3. QED  BY <3>1, <3>2
    <2>4. QED  BY <1>1, <1>4, <2>1, <2>3 DEF QueueFacts, CommittedIsSent
  <1>11. ASSUME "process" \notin overlapped, NEW i \in call[r].rows
         PROVE  queue[i].status = "pending" /\ ~Unreported(i) /\ i \in DOMAIN queue
    <2>1. queue[i].status = "pending"
      BY <1>1, <1>11 DEF QueueFacts, ReadIsCurrent
    <2>2. ~Unreported(i)  BY <2>1 DEF QueueFacts, CommittedIsSent, Unreported
    <2>3. QED  BY <1>1, <1>9, <2>1, <2>2
  <1>12. OwnedByOne'
    <2>1. SUFFICES ASSUME "process" \notin overlapped,
                          NEW p \in Calls, call'[p].pc = "answering", NEW i \in call'[p].rows
                   PROVE  /\ i \notin unlisted
                          /\ \A d \in Calls :
                                call'[d].pc = "answering" /\ i \in call'[d].rows => d = p
      BY <1>1 DEF OwnedByOne
    <2>2. CASE p = r
      <3>1. i \in call[r].rows  BY <1>2, <1>3, <2>1, <2>2
      <3>2. ~Unreported(i)  BY <1>11, <2>1, <3>1
      <3>3. QED  BY <1>3, <2>2, <3>2 DEF Unreported
    <2>3. CASE p # r
      <3>1. call[p].pc = "answering" /\ i \in call[p].rows  BY <1>3, <2>1, <2>3
      <3>2. Unreported(i)  BY <3>1 DEF Unreported
      <3>3. i \notin call[r].rows  BY <1>11, <2>1, <3>2
      <3>4. QED  BY <1>2, <1>3, <2>1, <3>1, <3>3 DEF QueueFacts, OwnedByOne
    <2>4. QED  BY <2>2, <2>3
  <1>13. SentIsReportedOnce'
    <2>1. ASSUME "process" \notin overlapped, NEW i \in DOMAIN queue
          PROVE  reports'[i] = IF queue'[i].status = "sent" /\ ~Unreported(i)' THEN 1 ELSE 0
      <3>1. reports[i] = IF queue[i].status = "sent" /\ ~Unreported(i) THEN 1 ELSE 0
        BY <2>1 DEF QueueFacts, SentIsReportedOnce
      <3>2. CASE i \in call[r].rows
        <4>1. Unreported(i)'  BY <1>2, <1>3, <3>2 DEF Unreported
        <4>2. queue[i].status = "pending"  BY <1>11, <2>1, <3>2
        <4>3. QED  BY <1>1, <3>1, <4>1, <4>2
      <3>3. CASE i \notin call[r].rows
        <4>1. Unreported(i)' <=> Unreported(i)  BY <1>1, <1>2, <1>3, <3>3 DEF Unreported
        <4>2. QED  BY <1>1, <1>4, <3>1, <3>3, <4>1
      <3>4. QED  BY <3>2, <3>3
    <2>2. QED  BY <1>4, <2>1 DEF SentIsReportedOnce
  <1>14. QED  BY <1>6, <1>7, <1>8, <1>10, <1>12, <1>13 DEF QueueFacts

\* The answer lists rows that nobody else listed or will.
LEMMA AnswerStep ==
    ASSUME TypeOK, QueueFacts, overlapped \subseteq overlapped',
           NEW r \in Calls, Answer(r)
    PROVE  QueueFacts'
  <1>1. /\ call[r].pc = "answering" /\ call' = [call EXCEPT ![r] = Idle]
        /\ UNCHANGED <<queue, unlisted>>
    BY DEF Answer, Finish
  <1>2. \A p \in Calls : call'[p] = IF p = r THEN Idle ELSE call[p]  BY <1>1, TypeParts
  <1>3. Idle.pc = "idle"  BY DEF Idle
  <1>4. \A i \in DOMAIN queue :
           reports'[i] = IF i \in call[r].rows THEN reports[i] + 1 ELSE reports[i]
    BY AnsweredReports
  <1>5. \A c : PendingOf(c)' = PendingOf(c)  BY <1>1 DEF PendingOf
  <1>6. LookedIsCurrent'  BY <1>2, <1>3, <1>5 DEF QueueFacts, LookedIsCurrent
  <1>7. ReadIsCurrent'  BY <1>1, <1>2, <1>3 DEF QueueFacts, ReadIsCurrent
  <1>8. Single'  BY <1>1 DEF QueueFacts, Single
  <1>9. CommittedIsSent'  BY <1>1, <1>2, <1>3 DEF QueueFacts, CommittedIsSent
  <1>10. OwnedByOne'  BY <1>1, <1>2, <1>3 DEF QueueFacts, OwnedByOne
  <1>11. SentIsReportedOnce'
    <2>1. ASSUME "process" \notin overlapped, NEW i \in DOMAIN queue
          PROVE  reports'[i] = IF queue[i].status = "sent" /\ ~Unreported(i)' THEN 1 ELSE 0
      <3>1. reports[i] = IF queue[i].status = "sent" /\ ~Unreported(i) THEN 1 ELSE 0
        BY <2>1 DEF QueueFacts, SentIsReportedOnce
      <3>2. CASE i \in call[r].rows
        <4>1. queue[i].status = "sent" /\ Unreported(i)
          BY <1>1, <3>2 DEF QueueFacts, CommittedIsSent, Unreported
        <4>2. ~Unreported(i)'
          BY <1>1, <1>2, <1>3, <2>1, <3>2 DEF QueueFacts, OwnedByOne, Unreported
        <4>3. QED  BY <1>4, <3>1, <3>2, <4>1, <4>2
      <3>3. CASE i \notin call[r].rows
        <4>1. Unreported(i)' <=> Unreported(i)  BY <1>1, <1>2, <1>3, <3>3 DEF Unreported
        <4>2. QED  BY <1>4, <3>1, <3>3, <4>1
      <3>4. QED  BY <3>2, <3>3
    <2>2. QED  BY <1>1, <2>1 DEF SentIsReportedOnce
  <1>12. QED  BY <1>6, <1>7, <1>8, <1>9, <1>10, <1>11 DEF QueueFacts

\* A request that ends before its answer leaves its rows to nobody.
LEMMA LeaveStep ==
    ASSUME TypeOK, QueueFacts, overlapped \subseteq overlapped',
           NEW r \in Calls, call' = [call EXCEPT ![r] = Idle], unlisted' = Left(r),
           UNCHANGED <<queue, reports>>
    PROVE  QueueFacts'
  <1>1. \A p \in Calls : call'[p] = IF p = r THEN Idle ELSE call[p]  BY TypeParts
  <1>2. Idle.pc = "idle"  BY DEF Idle
  <1>3. CASE call[r].pc # "answering"
    <2>1. unlisted' = unlisted  BY <1>3 DEF Left
    <2>2. QED  BY <1>2, <1>3, <2>1, QuietStep
  <1>4. CASE call[r].pc = "answering"
    <2>1. unlisted' = unlisted \cup call[r].rows  BY <1>4 DEF Left
    <2>2. \A i : Unreported(i)' <=> Unreported(i)
      BY <1>1, <1>2, <1>4, <2>1 DEF Unreported
    <2>3. \A c : PendingOf(c)' = PendingOf(c)  BY DEF PendingOf
    <2>4. LookedIsCurrent'  BY <1>1, <1>2, <2>3 DEF QueueFacts, LookedIsCurrent
    <2>5. ReadIsCurrent'  BY <1>1, <1>2 DEF QueueFacts, ReadIsCurrent
    <2>6. Single'  BY DEF QueueFacts, Single
    <2>7. CommittedIsSent'
      <3>1. call[r].rows \subseteq DOMAIN queue  BY <1>4, CallRecord DEF LocalsOK
      <3>2. QED  BY <1>1, <1>2, <1>4, <2>1, <3>1 DEF QueueFacts, CommittedIsSent
    <2>8. OwnedByOne'  BY <1>1, <1>2, <1>4, <2>1 DEF QueueFacts, OwnedByOne
    <2>9. SentIsReportedOnce'  BY <2>2 DEF QueueFacts, SentIsReportedOnce
    <2>10. QED  BY <2>4, <2>5, <2>6, <2>7, <2>8, <2>9 DEF QueueFacts
  <1>5. QED  BY <1>3, <1>4

\* Days, seconds and keys that expire; a row that falls due stays pending.
LEMMA WorldStep ==
    ASSUME TypeOK, QueueFacts, overlapped \subseteq overlapped',
           \/ \E c \in Customers : TurnEnds(c) \/ StaysAway(c)
           \/ \E i \in DOMAIN queue : FallsDue(i)
           \/ \E f \in Funnels : Expires(f)
           \/ Tick
    PROVE  QueueFacts'
  <1>1. SUFFICES ASSUME call' = call, reports' = reports, unlisted' = unlisted, DOMAIN queue' = DOMAIN queue,
                        \A i \in DOMAIN queue : /\ queue'[i].customer = queue[i].customer
                                                /\ queue'[i].status = queue[i].status
                 PROVE  QueueFacts'
    <2>1. CASE \E i \in DOMAIN queue : FallsDue(i)
      <3>1. PICK i \in DOMAIN queue : queue' = [queue EXCEPT ![i].due = TRUE]
        BY <2>1 DEF FallsDue
      <3>2. queue \in Seq(RowType)  BY TypeParts
      <3>3. queue[i] \in RowType  BY <3>2
      <3>4. \A j \in DOMAIN queue : queue'[j] = IF j = i THEN [queue[i] EXCEPT !.due = TRUE]
                                                ELSE queue[j]
        BY <3>1
      <3>5. /\ [queue[i] EXCEPT !.due = TRUE].customer = queue[i].customer
            /\ [queue[i] EXCEPT !.due = TRUE].status = queue[i].status
        BY <3>3 DEF RowType
      <3>6. DOMAIN queue' = DOMAIN queue  BY <3>1
      <3>7. call' = call /\ reports' = reports /\ unlisted' = unlisted  BY <2>1 DEF FallsDue
      <3>8. QED  BY <1>1, <3>4, <3>5, <3>6, <3>7
    <2>2. CASE UNCHANGED <<queue, call, reports, unlisted>>  BY <1>1, <2>2
    <2>3. QED  BY <2>1, <2>2 DEF TurnEnds, StaysAway, Expires, Tick
  <1>2. \A c : PendingOf(c)' = PendingOf(c)  BY <1>1 DEF PendingOf
  <1>3. LookedIsCurrent'  BY <1>1, <1>2 DEF QueueFacts, LookedIsCurrent
  <1>4. ReadIsCurrent'
    <2>1. \A p \in Calls : LocalsOK(call[p], DOMAIN queue)  BY TypeParts
    <2>2. QED  BY <1>1, <2>1 DEF QueueFacts, ReadIsCurrent, LocalsOK
  <1>5. Single'  BY <1>1 DEF QueueFacts, Single
  <1>6. CommittedIsSent'
    <2>1. \A p \in Calls : LocalsOK(call[p], DOMAIN queue)  BY TypeParts
    <2>2. QED  BY <1>1, <2>1 DEF QueueFacts, CommittedIsSent, LocalsOK
  <1>7. OwnedByOne'  BY <1>1 DEF QueueFacts, OwnedByOne
  <1>8. \A i : Unreported(i)' <=> Unreported(i)  BY <1>1 DEF Unreported
  <1>9. SentIsReportedOnce'  BY <1>1, <1>8 DEF QueueFacts, SentIsReportedOnce
  <1>10. QED  BY <1>3, <1>4, <1>5, <1>6, <1>7, <1>9 DEF QueueFacts

LEMMA QueueStep ==
    ASSUME TypeOK, QueueInv, MCNext \/ UNCHANGED <<vars, overlapped>>
    PROVE  QueueInv'
  <1>1. Alone("winback")' /\ Alone("process")' /\ overlapped \subseteq overlapped'
    BY AloneStep DEF QueueInv
  <1>2. QueueFacts  BY DEF QueueInv, QueueFacts
  <1>3. SUFFICES QueueFacts'  BY <1>1 DEF QueueInv, QueueFacts
  <1>4. CASE UNCHANGED <<vars, overlapped>>
    BY <1>2, <1>4 DEF vars, QueueFacts, LookedIsCurrent, ReadIsCurrent, Single,
       CommittedIsSent, OwnedByOne, SentIsReportedOnce, Unreported, PendingOf
  <1>5. Idle.pc = "idle" /\ call \in [Calls -> CallType]  BY TypeParts DEF Idle
  <1>6. ASSUME NEW r \in Calls, call' = [call EXCEPT ![r] = Idle], call[r].pc # "answering",
               UNCHANGED <<queue, reports, unlisted>>
        PROVE  QueueFacts'
    BY <1>1, <1>2, <1>5, <1>6, QuietStep
  <1>7. ASSUME NEW r \in Calls, Consider(r) \/ QueryFails(r) \/ Push(r) PROVE QueueFacts'
    <2>1. PICK q : /\ call' = [call EXCEPT ![r] = q] /\ q.pc = call[r].pc
                   /\ q.pc = "winback" => \A c \in q.rows :
                         PendingOf(c) = {} \/ c \in call[r].rows
                   /\ q.pc \notin {"process", "answering"}
      <3>0. call[r] \in CallType  BY <1>5
      <3>1. CASE Consider(r)
        <4> DEFINE c == Head(call[r].todo)
                   queueable == IF PendingOf(c) = {} /\ ~call[r].aborted THEN {c} ELSE {}
        <4>0. PICK new \in {{}, queueable} :
                 call' = [call EXCEPT ![r] =
                             [call[r] EXCEPT !.todo = Tail(@), !.rows = @ \cup new]]
          BY <3>1 DEF Consider, Go
        <4> DEFINE q == [call[r] EXCEPT !.todo = Tail(@), !.rows = @ \cup new]
        <4>1. call' = [call EXCEPT ![r] = q] /\ call[r].pc = "winback"
          BY <3>1, <4>0 DEF Consider
        <4>2. q.pc = call[r].pc /\ q.rows = call[r].rows \cup new  BY <3>0 DEF CallType
        <4>3. \A d \in new : PendingOf(d) = {}  OBVIOUS
        <4> HIDE DEF q
        <4>5. QED  BY <4>1, <4>2, <4>3
      <3>2. CASE QueryFails(r)
        <4> DEFINE q == [call[r] EXCEPT !.todo = Tail(@), !.aborted = TRUE]
        <4>1. call' = [call EXCEPT ![r] = q] /\ call[r].pc = "winback"
          BY <3>2 DEF QueryFails, Go
        <4>2. q.pc = call[r].pc /\ q.rows = call[r].rows  BY <3>0 DEF CallType
        <4>3. QED  BY <4>1, <4>2
      <3>3. CASE Push(r)
        <4> DEFINE q == [call[r] EXCEPT !.todo = Tail(@)]
        <4>1. call' = [call EXCEPT ![r] = q] /\ call[r].pc = "funnel"
          BY <3>3 DEF Push, Go
        <4>2. q.pc = call[r].pc  BY <3>0 DEF CallType
        <4>3. QED  BY <4>1, <4>2
      <3>4. QED  BY <1>7, <3>1, <3>2, <3>3
    <2>2. UNCHANGED <<queue, reports, unlisted>>  BY <1>7 DEF Consider, QueryFails, Push, Go
    <2>7. call[r].pc # "answering" /\ q.pc # "answering"
      BY <1>7, <2>1 DEF Consider, QueryFails, Push
    <2>3. q.pc = "winback" => \A c \in q.rows :
             PendingOf(c) = {} \/ (call[r].pc = "winback" /\ c \in call[r].rows)
      BY <2>1
    <2>4. q.pc = "process" => \A i \in q.rows : queue[i].status = "pending"
      BY <2>1
    <2>5. call' = [call EXCEPT ![r] = q]  BY <2>1
    <2>6. QED  BY <1>1, <1>2, <2>2, <2>3, <2>4, <2>5, <2>7, QuietStep
  <1>8. ASSUME NEW r \in Calls,
               \/ Scan(r) \/ Select(r) \/ Abandoned(r)
               \/ \E o \in Orders : Purchased(r, o) \/ ZidOrder(r, o)
        PROVE  QueueFacts'
    <2>1. UNCHANGED <<queue, reports, unlisted>> /\ call[r].pc = "idle"
      BY <1>8 DEF Scan, Select, Abandoned, Purchased, ZidOrder, Go, Begin
    <2>2. PICK q : /\ call' = [call EXCEPT ![r] = q]
                   /\ q.pc = "winback" => q.rows = {}
                   /\ q.pc = "process" => q.rows \subseteq DueRows
                   /\ q.pc # "answering"
      <3>1. CASE Scan(r)
        <4>1. PICK inactive \in Thresholds : \E chosen \in Chosen(inactive) :
                 Go(r, [Idle EXCEPT !.pc = "winback", !.todo = chosen])
          BY <3>1 DEF Scan
        <4>2. PICK chosen : Go(r, [Idle EXCEPT !.pc = "winback", !.todo = chosen])
          BY <4>1
        <4> DEFINE q == [Idle EXCEPT !.pc = "winback", !.todo = chosen]
        <4>3. q.pc = "winback" /\ q.rows = {}  BY DEF Idle
        <4>4. call' = [call EXCEPT ![r] = q]  BY <4>2 DEF Go
        <4> HIDE DEF q
        <4>5. QED  BY <4>3, <4>4, Zenon
      <3>2. CASE Select(r)
        <4>1. PICK rows \in SUBSET DueRows : Go(r, [Idle EXCEPT !.pc = "process", !.rows = rows])
          BY <3>2 DEF Select
        <4> DEFINE q == [Idle EXCEPT !.pc = "process", !.rows = rows]
        <4>2. q.pc = "process" /\ q.rows = rows  BY DEF Idle
        <4>3. call' = [call EXCEPT ![r] = q]  BY <4>1 DEF Go
        <4> HIDE DEF q
        <4>4. QED  BY <4>1, <4>2, <4>3
      <3>3. CASE Abandoned(r)
        <4> DEFINE q == [Idle EXCEPT !.pc = "funnel", !.todo = <<1, 2, 3>>, !.funnel = clock]
        <4>1. q.pc = "funnel"  BY DEF Idle
        <4>2. call' = [call EXCEPT ![r] = q]  BY <3>3 DEF Abandoned, Go
        <4> HIDE DEF q
        <4>3. QED  BY <4>1, <4>2
      <3>4. CASE \E o \in Orders : Purchased(r, o)  BY <1>5, <3>4 DEF Purchased, Go
      <3>5. CASE \E o \in Orders : ZidOrder(r, o)
        <4>1. PICK o \in Orders : \E event \in {"order.created", "order.paid", "order.delivered"} :
                 Go(r, [Idle EXCEPT !.pc = event, !.todo = <<o>>])
          BY <3>5 DEF ZidOrder
        <4>2. PICK event \in {"order.created", "order.paid", "order.delivered"} :
                 Go(r, [Idle EXCEPT !.pc = event, !.todo = <<o>>])
          BY <4>1
        <4> DEFINE q == [Idle EXCEPT !.pc = event, !.todo = <<o>>]
        <4>3. q.pc = event  BY DEF Idle
        <4>4. call' = [call EXCEPT ![r] = q]  BY <4>2 DEF Go
        <4> HIDE DEF q
        <4>5. QED  BY <4>2, <4>3, <4>4
      <3>6. QED  BY <1>8, <3>1, <3>2, <3>3, <3>4, <3>5
    <2>3. \A i \in DueRows : queue[i].status = "pending"  BY DEF DueRows
    <2>4. QED  BY <1>1, <1>2, <2>1, <2>2, <2>3, QuietStep
  <1>9. ASSUME NEW r \in Calls, Winback(r) PROVE QueueFacts'
    <2>1. CASE UNCHANGED <<queue, reports>>
      BY <1>6, <1>9, <2>1 DEF Winback, Finish
    <2>2. ASSUME NEW s \in Inserted(call[r].rows),
                 queue' = queue \o [i \in DOMAIN s |-> Row(s[i])],
                 reports' = reports \o [i \in DOMAIN s |-> 0]
          PROVE  QueueFacts'
      BY <1>1, <1>2, <1>9, <2>2, InsertStep, Zenon DEF QueueInv
    <2>3. QED  BY <1>9, <2>1, <2>2 DEF Winback
  <1>10. ASSUME NEW r \in Calls, Process(r) PROVE QueueFacts'
    BY <1>1, <1>2, <1>10, MarkStep DEF QueueInv
  <1>11. ASSUME NEW r \in Calls, Activate(r) \/ FunnelFails(r) \/ ZidTask(r)
         PROVE  QueueFacts'
    <2>1. /\ call' = [call EXCEPT ![r] = Idle] /\ UNCHANGED <<queue, reports, unlisted>>
          /\ call[r].pc # "answering"
      BY <1>11 DEF Activate, FunnelFails, ZidTask, ZidEvents, Finish
    <2>2. QED  BY <1>6, <2>1
  <1>12. ASSUME NEW r \in Calls, ProcessFails(r) \/ Dies(r) PROVE QueueFacts'
    <2>1. /\ call' = [call EXCEPT ![r] = Idle] /\ unlisted' = Left(r)
          /\ UNCHANGED <<queue, reports>>
      BY <1>12 DEF ProcessFails, Dies, Finish
    <2>2. QED  BY <1>1, <1>2, <2>1, LeaveStep
  <1>13. ASSUME NEW r \in Calls, Answer(r) PROVE QueueFacts'
    BY <1>1, <1>2, <1>13, AnswerStep
  <1>14. QED
    BY <1>1, <1>2, <1>4, <1>7, <1>8, <1>9, <1>10, <1>11, <1>12, <1>13, WorldStep
       DEF MCNext, Next

\* One pending row for each customer, counted.
LEMMA SingleIsOnce == ASSUME TypeOK, Single PROVE QueuedOnce
  <1>1. ASSUME "winback" \notin overlapped, NEW c \in Customers
        PROVE  Cardinality(PendingOf(c)) <= 1
    <2>1. CASE PendingOf(c) = {}  BY <2>1, FS_EmptySet
    <2>2. CASE PendingOf(c) # {}
      <3>1. PICK i : i \in PendingOf(c)  BY <2>2
      <3>2. \A j \in PendingOf(c) : j = i  BY <1>1, <3>1 DEF Single, PendingOf
      <3>3. PendingOf(c) = {i}  BY <3>1, <3>2
      <3>4. QED  BY <3>3, FS_Singleton
    <2>3. QED  BY <2>1, <2>2
  <1>2. QED  BY <1>1 DEF QueuedOnce

-----------------------------------------------------------------------------
(* The theorems                                                            *)

\* Every handler holds locals of its place and every row the fields of its kind,
\* whatever the requests, the customers and the failures.
THEOREM TypeCorrect == Spec => []TypeOK
  <1>1. Init => TypeOK  BY InitType
  <1>2. TypeOK /\ [Next]_vars => TypeOK'  BY NextType
  <1>3. QED  BY <1>1, <1>2, PTL DEF Spec

RequestsInvariant == TypeOK /\ PushedSoFar /\ FunnelIsQueued

LEMMA RequestsInvariantHolds == Spec => []RequestsInvariant
  <1>1. Init => RequestsInvariant
    <2>1. Init => TypeOK  BY InitType
    <2>2. Init => PushedSoFar  BY DEF Init, PushedSoFar, Idle
    <2>3. Init => FunnelIsQueued  BY DEF Init, FunnelIsQueued
    <2>4. QED  BY <2>1, <2>2, <2>3 DEF RequestsInvariant
  <1>2. RequestsInvariant /\ [Next]_vars => RequestsInvariant'
    BY NextType, FunnelStep DEF RequestsInvariant
  <1>3. QED  BY <1>1, <1>2, PTL DEF Spec

\* A funnel is announced as active only when its three messages are in the list,
\* though two carts of a second share a funnel and each write may be the last.
THEOREM ActiveFunnelIsQueued == Spec => []FunnelIsQueued
  <1>1. RequestsInvariant => FunnelIsQueued  BY DEF RequestsInvariant
  <1>2. QED  BY <1>1, RequestsInvariantHolds, PTL

\* While requests of a kind do not overlap, a customer waits for one follow-up at
\* most, and every follow-up marked as sent is listed by one answer, unless its
\* request was lost between the commit and the answer.
THEOREM OneFollowUp == MCSpec => []FollowedUpOnce
  <1> DEFINE Inv == TypeOK /\ QueueInv
  <1>1. MCInit => Inv
    <2>1. MCInit => TypeOK  BY InitType DEF MCInit
    <2>2. MCInit => QueueInv
      BY DEF MCInit, Init, Idle, QueueInv, Alone, LookedIsCurrent, ReadIsCurrent, Single,
         CommittedIsSent, OwnedByOne, SentIsReportedOnce
    <2>3. QED  BY <2>1, <2>2
  <1>2. Inv /\ [MCNext]_<<vars, overlapped>> => Inv'
    <2> SUFFICES ASSUME TypeOK, QueueInv, MCNext \/ UNCHANGED <<vars, overlapped>>
                 PROVE  TypeOK' /\ QueueInv'
      OBVIOUS
    <2>1. [Next]_vars  BY DEF MCNext
    <2>2. QED  BY <2>1, NextType, QueueStep
  <1>3. Inv => FollowedUpOnce  BY SingleIsOnce DEF QueueInv, FollowedUpOnce
  <1>4. QED  BY <1>1, <1>2, <1>3, PTL DEF MCSpec
=============================================================================
