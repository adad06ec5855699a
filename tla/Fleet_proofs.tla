---------------------------- MODULE Fleet_proofs ----------------------------
(***************************************************************************)
(* Safety of Fleet for every number of workers and streams, every batch     *)
(* size, every timing of heartbeats and discovery, and every fault.         *)
(***************************************************************************)
EXTENDS Fleet, FiniteSetTheorems, TLAPS

-----------------------------------------------------------------------------
(* The inductive invariant                                                 *)

\* A batch is an interval of one stream, read up to the last-delivered entry.
Intervals ==
    \A w \in Workers : batch[w] # {} =>
        \E s \in Streams, a \in Nat \ {0}, b \in Nat :
            a <= b /\ b <= delivered[s] /\ batch[w] = {s} \X (a .. b)

\* Streams that are read have a group, and no group is ahead of its stream.
Grouped ==
    /\ \A s \in Streams : delivered[s] <= published[s]
    /\ \A w \in Workers : pc[w] \in {"read", "process", "ack"} =>
          \A s \in todo[w] : delivered[s] >= 0

\* What is pending was delivered, to one worker; what a worker holds is pending.
PendingOnce ==
    /\ \A p \in pending : p[1][2] <= delivered[p[1][1]]
    /\ \A p, q \in pending : p[1] = q[1] => p[2] = q[2]
    /\ \A w \in Workers : \A e \in batch[w] : <<e, w>> \in pending

\* Of what a worker holds, at most the first entry is classified, while the
\* worker is about to acknowledge it.
HeldIsUnclassified ==
    \A w \in Workers : \A e \in batch[w] :
        classified[e] = IF pc[w] = "ack" /\ e = First(batch[w]) THEN 1 ELSE 0

\* Only delivered entries are classified.
ClassifiedIsDelivered ==
    \A e \in Entries : classified[e] > 0 => e[2] <= delivered[e[1]]

IInv == /\ TypeOK /\ Intervals /\ Grouped /\ PendingOnce /\ HeldIsUnclassified
        /\ ClassifiedIsDelivered /\ ClassifiedOnce /\ NoneForgotten

-----------------------------------------------------------------------------
(* Lemmas                                                                  *)

\* The first entry of an interval is its lower end.
LEMMA FirstOfInterval ==
    ASSUME NEW s, NEW a \in Nat, NEW b \in Nat, a <= b
    PROVE  First({s} \X (a .. b)) = <<s, a>>
  <1>1. <<s, a>> \in {s} \X (a .. b)  OBVIOUS
  <1>2. \A f \in {s} \X (a .. b) : f[1] = s /\ f[2] \in a .. b  OBVIOUS
  <1>3. \A f \in {s} \X (a .. b) : a <= f[2]  BY <1>2
  <1>4. \A e \in {s} \X (a .. b) :
           (\A f \in {s} \X (a .. b) : e[2] <= f[2]) => e = <<s, a>>
    <2>1. SUFFICES ASSUME NEW e \in {s} \X (a .. b),
                          \A f \in {s} \X (a .. b) : e[2] <= f[2]
                   PROVE  e = <<s, a>>
      OBVIOUS
    <2>2. <<s, a>>[2] = a  OBVIOUS
    <2>3. e[2] <= a  BY <1>1, <2>1, <2>2
    <2>4. e[2] = a /\ e[1] = s  BY <1>2, <2>3
    <2>5. e = <<e[1], e[2]>>  OBVIOUS
    <2>6. QED  BY <2>4, <2>5
  <1>5. \A f \in {s} \X (a .. b) : <<s, a>>[2] <= f[2]  BY <1>3
  <1>6. QED  BY <1>1, <1>4, <1>5 DEF First

\* The first entry a worker holds is one of its batch, and the rest of the batch
\* is an interval again, unless it is empty.
LEMMA FirstOfBatch ==
    ASSUME TypeOK, Intervals, NEW w \in Workers, batch[w] # {}
    PROVE  \E s \in Streams, a \in Nat \ {0}, b \in Nat :
              /\ a <= b /\ b <= delivered[s]
              /\ batch[w] = {s} \X (a .. b)
              /\ First(batch[w]) = <<s, a>>
              /\ <<s, a>> \in batch[w] /\ <<s, a>> \in Entries
              /\ batch[w] \ {<<s, a>>} = {s} \X (a + 1 .. b)
  <1>1. PICK s \in Streams, a \in Nat \ {0}, b \in Nat :
           a <= b /\ b <= delivered[s] /\ batch[w] = {s} \X (a .. b)
    BY DEF Intervals
  <1>2. First(batch[w]) = <<s, a>>  BY <1>1, FirstOfInterval
  <1>3. <<s, a>> \in batch[w]  BY <1>1
  <1>4. <<s, a>> \in Entries  BY <1>3 DEF TypeOK
  <1>5. batch[w] \ {<<s, a>>} = {s} \X (a + 1 .. b)
    <2>1. \A e : e \in {s} \X (a .. b) <=> e = <<s, e[2]>> /\ e[2] \in a .. b
      OBVIOUS
    <2>2. \A e : e \in {s} \X (a + 1 .. b) <=> e = <<s, e[2]>> /\ e[2] \in a + 1 .. b
      OBVIOUS
    <2>3. \A n : n \in a .. b /\ n # a <=> n \in a + 1 .. b  OBVIOUS
    <2>4. \A e : e = <<s, e[2]>> => (e = <<s, a>> <=> e[2] = a)  OBVIOUS
    <2>5. QED  BY <1>1, <2>1, <2>2, <2>3, <2>4
  <1>6. QED  BY <1>1, <1>2, <1>3, <1>4, <1>5

\* A step between two rounds of work: neither batches nor the streams change.
LEMMA Quiet ==
    ASSUME IInv, TypeOK', UNCHANGED <<published, delivered, pending, batch, classified>>,
           \A v \in Workers : /\ pc'[v] = "ack" <=> pc[v] = "ack"
                              /\ pc[v] = "gone" => pc'[v] = "gone"
                              /\ pc'[v] \in {"read", "process", "ack"} =>
                                    /\ pc[v] \in {"read", "process", "ack"}
                                    /\ todo'[v] = todo[v]
    PROVE  IInv'
  <1> USE DEF IInv
  <1>1. Intervals'  BY DEF Intervals
  <1>2. Grouped'  BY DEF Grouped
  <1>3. PendingOnce'  BY DEF PendingOnce
  <1>4. HeldIsUnclassified'  BY DEF HeldIsUnclassified, First
  <1>5. ClassifiedIsDelivered' /\ ClassifiedOnce'
    BY DEF ClassifiedIsDelivered, ClassifiedOnce
  <1>6. AckedIsClassified'  BY DEF AckedIsClassified, NoneForgotten
  <1>7. PendingIsHeld'
    BY DEF PendingIsHeld, NoneForgotten, TypeOK
  <1>8. QED  BY <1>1, <1>2, <1>3, <1>4, <1>5, <1>6, <1>7 DEF NoneForgotten

\* A worker ends: what it held stays pending.
LEMMA Ends ==
    ASSUME IInv, NEW w \in Workers, Alive(w), Forget(w),
           UNCHANGED <<published, delivered, pending, classified>>,
           registry' \in [Workers -> Absent .. Cutoff]
    PROVE  IInv'
  <1> USE DEF IInv
  <1>1. pc' = [pc EXCEPT ![w] = "gone"] /\ batch' = [batch EXCEPT ![w] = {}]
        /\ todo' = [todo EXCEPT ![w] = {}]
    BY DEF Forget, Goto
  <1>2. TypeOK'
    <2>1. NewClock \in [beat : 0 .. BeatEvery + 1, found : 0 .. DiscoverEvery]
      BY FleetAssumption DEF NewClock
    <2>2. clock' \in [Workers -> [beat : 0 .. BeatEvery + 1, found : 0 .. DiscoverEvery]]
      BY <2>1 DEF Forget, TypeOK
    <2>3. pc' \in [Workers -> Labels]  BY <1>1 DEF TypeOK, Labels
    <2>4. \A v \in Workers : pc'[v] \in {"process", "ack"} <=> batch'[v] # {}
      BY <1>1 DEF TypeOK
    <2>5. /\ cached' \in [Workers -> SUBSET Streams]
          /\ members' \in [Workers -> SUBSET Workers]
          /\ mine' \in [Workers -> SUBSET Streams] /\ todo' \in [Workers -> SUBSET Streams]
          /\ batch' \in [Workers -> SUBSET Entries]
      BY DEF Forget, TypeOK
    <2>6. QED  BY <2>2, <2>3, <2>4, <2>5 DEF TypeOK
  <1>3. \A v \in Workers : v # w => pc'[v] = pc[v] /\ batch'[v] = batch[v] /\ todo'[v] = todo[v]
    BY <1>1 DEF TypeOK
  <1>4. pc'[w] = "gone" /\ batch'[w] = {}  BY <1>1 DEF TypeOK
  <1>5. Intervals'  BY <1>3, <1>4 DEF Intervals
  <1>6. Grouped'  BY <1>3, <1>4 DEF Grouped
  <1>7. PendingOnce'  BY <1>3, <1>4 DEF PendingOnce
  <1>8. HeldIsUnclassified'  BY <1>3, <1>4 DEF HeldIsUnclassified
  <1>9. ClassifiedIsDelivered' /\ ClassifiedOnce'
    BY DEF ClassifiedIsDelivered, ClassifiedOnce
  <1>10. AckedIsClassified'  BY DEF AckedIsClassified, NoneForgotten
  <1>11. PendingIsHeld'
    BY <1>3, <1>4 DEF PendingIsHeld, NoneForgotten, TypeOK
  <1>12. QED
    BY <1>2, <1>5, <1>6, <1>7, <1>8, <1>9, <1>10, <1>11 DEF NoneForgotten

-----------------------------------------------------------------------------
(* The steps                                                               *)

LEMMA StartStep == ASSUME IInv, NEW w \in Workers, Start(w) PROVE IInv'
  <1> USE DEF IInv
  <1>1. TypeOK'  BY FleetAssumption DEF Start, Goto, TypeOK, Labels, Absent
  <1>2. QED  BY <1>1, Quiet DEF Start, Goto, TypeOK

LEMMA BeatStep == ASSUME IInv, NEW w \in Workers, Beat(w) PROVE IInv'
  <1> USE DEF IInv
  <1>1. registry' \in [Workers -> Absent .. Cutoff]
    BY FleetAssumption DEF Beat, TypeOK, Absent
  <1>2. clock' \in [Workers -> [beat : 0 .. BeatEvery + 1, found : 0 .. DiscoverEvery]]
    <2>1. clock \in [Workers -> [beat : 0 .. BeatEvery + 1, found : 0 .. DiscoverEvery]]
      BY DEF TypeOK
    <2>2. 0 \in 0 .. BeatEvery + 1  BY FleetAssumption
    <2>3. [clock[w] EXCEPT !.beat = 0] \in [beat : 0 .. BeatEvery + 1, found : 0 .. DiscoverEvery]
      BY <2>1, <2>2
    <2>4. clock' = clock \/ clock' = [clock EXCEPT ![w] = [clock[w] EXCEPT !.beat = 0]]
      BY DEF Beat
    <2>5. QED  BY <2>1, <2>3, <2>4
  <1>3. TypeOK'  BY <1>1, <1>2 DEF Beat, Goto, TypeOK, Labels
  <1>4. QED  BY <1>3, Quiet DEF Beat, Goto, TypeOK

LEMMA DiscoverStep == ASSUME IInv, NEW w \in Workers, Discover(w) PROVE IInv'
  <1> USE DEF IInv
  <1>1. clock' \in [Workers -> [beat : 0 .. BeatEvery + 1, found : 0 .. DiscoverEvery]]
    <2>1. clock' = clock \/ clock' = [clock EXCEPT ![w].found = 0]  BY DEF Discover
    <2>2. 0 \in 0 .. DiscoverEvery  BY FleetAssumption
    <2>3. clock \in [Workers -> [beat : 0 .. BeatEvery + 1, found : 0 .. DiscoverEvery]]
      BY DEF TypeOK
    <2>4. QED  BY <2>1, <2>2, <2>3
  <1>2. cached' \in [Workers -> SUBSET Streams]  BY DEF Discover, TypeOK
  <1>3. mine' \in [Workers -> SUBSET Streams]  BY DEF Discover, TypeOK
  <1>4. /\ UNCHANGED <<registry, published, delivered, pending, members, todo, batch,
                       classified>>
        /\ pc[w] = "discover"
        /\ \/ pc' = [pc EXCEPT ![w] = "sleep"]
           \/ pc' = [pc EXCEPT ![w] = "prune"]
    BY DEF Discover, Goto, redisVars
  <1>5. TypeOK'  BY <1>1, <1>2, <1>3, <1>4 DEF TypeOK, Labels
  <1>6. QED  BY <1>4, <1>5, Quiet DEF TypeOK

LEMMA PruneStep == ASSUME IInv, NEW w \in Workers, Prune(w) PROVE IInv'
  <1> USE DEF IInv
  <1>1. registry' \in [Workers -> Absent .. Cutoff]
    BY FleetAssumption DEF Prune, TypeOK, Absent
  <1>2. TypeOK'  BY <1>1 DEF Prune, Goto, TypeOK, Labels
  <1>3. QED  BY <1>2, Quiet DEF Prune, Goto, TypeOK

LEMMA DivideStep == ASSUME IInv, NEW w \in Workers, Divide(w) PROVE IInv'
  <1> USE DEF IInv
  <1>1. /\ UNCHANGED <<redisVars, clock, cached, todo, batch, classified>>
        /\ pc[w] = "rank"
        /\ \/ pc' = [pc EXCEPT ![w] = "sleep"]
           \/ pc' = [pc EXCEPT ![w] = "group"]
    BY DEF Divide, Goto
  <1>2. members' \in [Workers -> SUBSET Workers]  BY DEF Divide, TypeOK
  <1>3. mine' \in [Workers -> SUBSET Streams]
    <2>1. \A listed : Assigned(w, listed, cached[w]) \in SUBSET Streams
      BY DEF Assigned, TypeOK
    <2>2. QED  BY <2>1 DEF Divide, TypeOK
  <1>4. TypeOK'  BY <1>1, <1>2, <1>3 DEF TypeOK, Labels, redisVars
  <1>5. QED  BY <1>1, <1>4, Quiet DEF TypeOK, redisVars

LEMMA CreateGroupsStep == ASSUME IInv, NEW w \in Workers, CreateGroups(w) PROVE IInv'
  <1> USE DEF IInv
  <1>1. /\ UNCHANGED <<registry, published, pending, clock, cached, members, mine, batch,
                       classified>>
        /\ pc[w] = "group" /\ pc' = [pc EXCEPT ![w] = "read"]
        /\ todo' = [todo EXCEPT ![w] = mine[w]]
    BY DEF CreateGroups, Goto
  <1>2. \A s \in Streams : delivered'[s] = IF s \in mine[w] /\ delivered[s] = Absent
                                           THEN 0 ELSE delivered[s]
    BY DEF CreateGroups
  <1>3. /\ delivered' \in [Streams -> Absent .. MaxEntries]
        /\ \A s \in Streams : delivered'[s] <= published[s] /\ delivered[s] <= delivered'[s]
        /\ \A s \in mine[w] : delivered'[s] >= 0
    <2>1. delivered' \in [Streams -> Absent .. MaxEntries]
      BY FleetAssumption DEF CreateGroups, TypeOK, Absent
    <2>2. \A s \in Streams : /\ delivered[s] \in Absent .. MaxEntries
                             /\ published[s] \in 0 .. MaxEntries
                             /\ delivered[s] <= published[s]
      BY DEF TypeOK, Grouped
    <2>3. mine[w] \subseteq Streams  BY DEF TypeOK
    <2>4. QED  BY <2>1, <2>2, <2>3, <1>2 DEF Absent
  <1>4. TypeOK'  BY <1>1, <1>3 DEF TypeOK, Labels
  <1>5. \A v \in Workers : /\ batch'[v] = batch[v]
                           /\ v # w => pc'[v] = pc[v] /\ todo'[v] = todo[v]
                           /\ pc'[v] = "ack" <=> pc[v] = "ack"
                           /\ pc[v] = "gone" => pc'[v] = "gone"
    BY <1>1 DEF TypeOK
  <1>6. \A s \in Streams : delivered[s] \in Int /\ delivered'[s] \in Int
    BY <1>3 DEF TypeOK, Absent
  <1>7. Intervals'
    <2>1. SUFFICES ASSUME NEW v \in Workers, batch[v] # {}
                   PROVE  \E s \in Streams, a \in Nat \ {0}, b \in Nat :
                             a <= b /\ b <= delivered'[s] /\ batch[v] = {s} \X (a .. b)
      BY <1>1 DEF Intervals
    <2>2. PICK s \in Streams, a \in Nat \ {0}, b \in Nat :
             a <= b /\ b <= delivered[s] /\ batch[v] = {s} \X (a .. b)
      BY <2>1 DEF Intervals
    <2>3. b <= delivered'[s]  BY <2>2, <1>3, <1>6
    <2>4. QED  BY <2>2, <2>3
  <1>8. Grouped'
    <2>1. \A s \in Streams : delivered'[s] <= published'[s]  BY <1>1, <1>3
    <2>2. \A v \in Workers : pc'[v] \in {"read", "process", "ack"} =>
             \A s \in todo'[v] : delivered'[s] >= 0
      <3>1. SUFFICES ASSUME NEW v \in Workers, pc'[v] \in {"read", "process", "ack"},
                            NEW s \in todo'[v]
                     PROVE  delivered'[s] >= 0
        OBVIOUS
      <3>2. CASE v = w  BY <3>1, <3>2, <1>1, <1>3 DEF TypeOK
      <3>3. CASE v # w
        <4>1. s \in Streams /\ delivered[s] >= 0
          BY <3>1, <3>3, <1>5 DEF Grouped, TypeOK
        <4>2. QED  BY <4>1, <1>3, <1>6
      <3>4. QED  BY <3>2, <3>3
    <2>3. QED  BY <2>1, <2>2 DEF Grouped
  <1>9. \A p \in pending : p[1] \in Entries /\ p[1][1] \in Streams /\ p[1][2] \in Int
    BY DEF TypeOK, Entries
  <1>10. PendingOnce'
    <2>1. \A p \in pending' : p[1][2] <= delivered'[p[1][1]]
      BY <1>1, <1>3, <1>6, <1>9 DEF PendingOnce
    <2>2. QED  BY <2>1, <1>1 DEF PendingOnce
  <1>11. HeldIsUnclassified'  BY <1>1, <1>5 DEF HeldIsUnclassified
  <1>12. \A e \in Entries : e[1] \in Streams /\ e[2] \in 1 .. MaxEntries
    BY DEF Entries
  <1>13. ClassifiedIsDelivered' /\ ClassifiedOnce'
    <2>1. \A e \in Entries : classified'[e] > 0 => e[2] <= delivered'[e[1]]
      BY <1>1, <1>3, <1>6, <1>12 DEF ClassifiedIsDelivered
    <2>2. QED  BY <2>1, <1>1 DEF ClassifiedIsDelivered, ClassifiedOnce
  <1>14. AckedIsClassified'
    <2>1. \A e \in Entries : delivered'[e[1]] >= e[2] => delivered[e[1]] >= e[2]
      <3>1. SUFFICES ASSUME NEW e \in Entries, delivered'[e[1]] >= e[2]
                     PROVE  delivered[e[1]] >= e[2]
        OBVIOUS
      <3>2. e[1] \in Streams /\ e[2] \in Nat /\ e[2] >= 1
        BY <1>12, FleetAssumption
      <3>3. delivered'[e[1]] # 0  BY <3>1, <3>2
      <3>4. delivered'[e[1]] = delivered[e[1]]  BY <1>2, <3>2, <3>3
      <3>5. QED  BY <3>1, <3>4
    <2>2. QED  BY <2>1, <1>1 DEF AckedIsClassified, NoneForgotten
  <1>15. PendingIsHeld'
    BY <1>1, <1>5 DEF PendingIsHeld, NoneForgotten, TypeOK
  <1>16. QED
    BY <1>4, <1>7, <1>8, <1>10, <1>11, <1>13, <1>14, <1>15 DEF NoneForgotten

\* A read hands out entries that nobody was given and nobody has classified.
LEMMA ReadStep == ASSUME IInv, NEW w \in Workers, Read(w) PROVE IInv'
  <1> USE DEF IInv
  <1>1. PICK s \in todo[w] :
           /\ todo' = [todo EXCEPT ![w] = @ \ {s}]
           /\ batch' = [batch EXCEPT ![w] = Fresh(s)]
           /\ delivered' = [delivered EXCEPT ![s] = Upto(s)]
           /\ pending' = pending \cup (Fresh(s) \X {w})
           /\ pc' = [pc EXCEPT ![w] = IF Fresh(s) = {} THEN "read" ELSE "process"]
    BY DEF Read, Goto
  <1>2. /\ pc[w] = "read"
        /\ UNCHANGED <<registry, published, clock, cached, members, mine, classified>>
    BY DEF Read
  <1>3. s \in Streams  BY <1>1 DEF TypeOK
  <1>4. /\ delivered[s] \in Nat /\ published[s] \in 0 .. MaxEntries
        /\ delivered[s] <= published[s]
    <2>1. delivered[s] >= 0 /\ delivered[s] <= published[s]
      BY <1>1, <1>2, <1>3 DEF Grouped
    <2>2. QED  BY <2>1, <1>3 DEF TypeOK, Absent
  <1>5. Upto(s) \in Nat /\ delivered[s] <= Upto(s) /\ Upto(s) <= published[s]
    BY <1>4, FleetAssumption DEF Upto
  <1>6. \A e \in Fresh(s) : /\ e \in Entries /\ e[1] = s
                            /\ e[2] > delivered[s] /\ e[2] <= Upto(s)
    <2>1. \A n \in delivered[s] + 1 .. Upto(s) : n \in 1 .. MaxEntries
      BY <1>4, <1>5, FleetAssumption
    <2>2. \A e \in Fresh(s) : e = <<s, e[2]>> /\ e[1] = s /\ e[2] \in delivered[s] + 1 .. Upto(s)
      BY DEF Fresh
    <2>3. QED  BY <2>1, <2>2, <1>3, <1>4, <1>5 DEF Entries
  <1>7. batch[w] = {}  BY <1>2 DEF TypeOK
  <1>8. /\ batch'[w] = Fresh(s)
        /\ \A v \in Workers : v # w => /\ batch'[v] = batch[v] /\ pc'[v] = pc[v]
                                       /\ todo'[v] = todo[v]
        /\ pc'[w] \in {"read", "process"} /\ (pc'[w] = "process" <=> Fresh(s) # {})
        /\ todo'[w] = todo[w] \ {s}
    BY <1>1, <1>2 DEF TypeOK
  <1>9. /\ \A t \in Streams : delivered[t] <= delivered'[t] /\ delivered'[t] <= published[t]
        /\ delivered'[s] = Upto(s)
        /\ \A t \in Streams : t # s => delivered'[t] = delivered[t]
        /\ \A t \in Streams : delivered[t] \in Int /\ delivered'[t] \in Int
        /\ delivered' \in [Streams -> Absent .. MaxEntries]
    <2>1. delivered' \in [Streams -> Absent .. MaxEntries]
      BY <1>1, <1>3, <1>4, <1>5, FleetAssumption DEF TypeOK, Absent
    <2>2. \A t \in Streams : delivered'[t] = IF t = s THEN Upto(s) ELSE delivered[t]
      BY <1>1 DEF TypeOK
    <2>3. \A t \in Streams : delivered[t] \in Int  BY DEF TypeOK, Absent
    <2>4. QED  BY <2>1, <2>2, <2>3, <1>3, <1>4, <1>5 DEF Grouped
  <1>10. \A e \in Entries : e[1] \in Streams /\ e[2] \in 1 .. MaxEntries  BY DEF Entries
  <1>11. \A p \in pending : p[1] \in Entries /\ p[2] \in Workers  BY DEF TypeOK
  <1>12. \A p \in pending' : p \in pending \/ (p[1] \in Fresh(s) /\ p[2] = w)
    BY <1>1
  <1>13. \A p \in pending : p[1] \notin Fresh(s)
    <2>1. SUFFICES ASSUME NEW p \in pending, p[1] \in Fresh(s) PROVE FALSE
      OBVIOUS
    <2>2. p[1][1] = s /\ p[1][2] > delivered[s]  BY <2>1, <1>6
    <2>3. p[1][2] <= delivered[p[1][1]]  BY <2>1 DEF PendingOnce
    <2>4. p[1][2] \in Int  BY <2>1, <1>10, <1>11
    <2>5. QED  BY <2>2, <2>3, <2>4, <1>4
  <1>14. \A e \in Fresh(s) : classified[e] = 0
    <2>1. SUFFICES ASSUME NEW e \in Fresh(s), classified[e] # 0 PROVE FALSE
      OBVIOUS
    <2>2. e \in Entries /\ classified[e] \in Nat  BY <1>6 DEF TypeOK
    <2>3. classified[e] > 0  BY <2>1, <2>2
    <2>4. e[2] <= delivered[s]  BY <2>2, <2>3, <1>6 DEF ClassifiedIsDelivered
    <2>5. e[2] > delivered[s] /\ e[2] \in Int  BY <2>2, <1>6, <1>10
    <2>6. QED  BY <2>4, <2>5, <1>4
  <1>15. TypeOK'
    <2>1. batch' \in [Workers -> SUBSET Entries]  BY <1>1, <1>6 DEF TypeOK
    <2>2. pending' \subseteq Entries \X Workers  BY <1>1, <1>6 DEF TypeOK
    <2>3. todo' \in [Workers -> SUBSET Streams]  BY <1>1 DEF TypeOK
    <2>4. pc' \in [Workers -> Labels]  BY <1>1 DEF TypeOK, Labels
    <2>5. \A v \in Workers : pc'[v] \in {"process", "ack"} <=> batch'[v] # {}
      BY <1>8 DEF TypeOK
    <2>6. QED  BY <2>1, <2>2, <2>3, <2>4, <2>5, <1>2, <1>9 DEF TypeOK
  <1>16. Intervals'
    <2>1. SUFFICES ASSUME NEW v \in Workers, batch'[v] # {}
                   PROVE  \E t \in Streams, a \in Nat \ {0}, b \in Nat :
                             a <= b /\ b <= delivered'[t] /\ batch'[v] = {t} \X (a .. b)
      BY DEF Intervals
    <2>2. CASE v = w
      <3>1. batch'[v] = {s} \X (delivered[s] + 1 .. Upto(s))  BY <2>2, <1>8 DEF Fresh
      <3>2. delivered[s] + 1 <= Upto(s)  BY <3>1, <2>1, <1>4, <1>5
      <3>3. delivered[s] + 1 \in Nat \ {0}  BY <1>4
      <3>4. QED  BY <3>1, <3>2, <3>3, <1>3, <1>5, <1>9
    <2>3. CASE v # w
      <3>1. PICK t \in Streams, a \in Nat \ {0}, b \in Nat :
               a <= b /\ b <= delivered[t] /\ batch[v] = {t} \X (a .. b)
        BY <2>1, <2>3, <1>8 DEF Intervals
      <3>2. b <= delivered'[t]  BY <3>1, <1>9
      <3>3. QED  BY <3>1, <3>2, <2>3, <1>8
    <2>4. QED  BY <2>2, <2>3
  <1>17. Grouped'
    <2>1. \A t \in Streams : delivered'[t] <= published'[t]  BY <1>2, <1>9
    <2>2. \A v \in Workers : pc'[v] \in {"read", "process", "ack"} =>
             \A t \in todo'[v] : t \in Streams /\ delivered[t] >= 0
      BY <1>2, <1>8 DEF Grouped, TypeOK
    <2>3. \A v \in Workers : pc'[v] \in {"read", "process", "ack"} =>
             \A t \in todo'[v] : delivered'[t] >= 0
      BY <2>2, <1>9
    <2>4. QED  BY <2>1, <2>3 DEF Grouped
  <1>18. PendingOnce'
    <2>1. ASSUME NEW p \in pending' PROVE p[1][2] <= delivered'[p[1][1]]
      <3>1. CASE p \in pending
        <4>1. p[1][2] <= delivered[p[1][1]]  BY <3>1 DEF PendingOnce
        <4>2. QED  BY <4>1, <3>1, <1>9, <1>10, <1>11
      <3>2. CASE p[1] \in Fresh(s)  BY <3>2, <1>6, <1>9
      <3>3. QED  BY <2>1, <3>1, <3>2, <1>12
    <2>2. \A p, q \in pending' : p[1] = q[1] => p[2] = q[2]
      BY <1>12, <1>13 DEF PendingOnce
    <2>3. \A v \in Workers : \A e \in batch'[v] : <<e, v>> \in pending'
      BY <1>1, <1>8 DEF PendingOnce
    <2>4. QED  BY <2>1, <2>2, <2>3 DEF PendingOnce
  <1>19. HeldIsUnclassified'
    <2>1. \A e \in batch'[w] : classified'[e] = 0  BY <1>2, <1>8, <1>14
    <2>2. pc'[w] # "ack"  BY <1>8
    <2>3. QED  BY <2>1, <2>2, <1>2, <1>8 DEF HeldIsUnclassified
  <1>20. ClassifiedIsDelivered' /\ ClassifiedOnce'
    <2>1. \A e \in Entries : classified'[e] > 0 => e[2] <= delivered'[e[1]]
      BY <1>2, <1>9, <1>10 DEF ClassifiedIsDelivered
    <2>2. QED  BY <2>1, <1>2 DEF ClassifiedIsDelivered, ClassifiedOnce
  <1>21. AckedIsClassified'
    <2>1. SUFFICES ASSUME NEW e \in Entries, delivered'[e[1]] >= e[2]
                   PROVE  classified[e] > 0 \/ \E v \in Workers : <<e, v>> \in pending'
      BY <1>2 DEF AckedIsClassified
    <2>2. CASE delivered[e[1]] >= e[2]
      BY <2>2, <1>1 DEF AckedIsClassified, NoneForgotten
    <2>3. CASE ~(delivered[e[1]] >= e[2])
      <3>1. e[1] = s /\ e[2] > delivered[s] /\ e[2] <= Upto(s)
        BY <2>1, <2>3, <1>9, <1>10
      <3>2. e = <<s, e[2]>>  BY <3>1 DEF Entries
      <3>3. e[2] \in delivered[s] + 1 .. Upto(s)  BY <3>1, <1>4, <1>5, <1>10
      <3>4. e \in Fresh(s)  BY <3>2, <3>3 DEF Fresh
      <3>5. QED  BY <3>4, <1>1
    <2>4. QED  BY <2>2, <2>3
  <1>22. PendingIsHeld'
    <2>1. SUFFICES ASSUME NEW p \in pending' PROVE pc'[p[2]] = "gone" \/ p[1] \in batch'[p[2]]
      BY DEF PendingIsHeld
    <2>2. CASE p \in pending
      <3>1. pc[p[2]] = "gone" \/ p[1] \in batch[p[2]]
        BY <2>2 DEF PendingIsHeld, NoneForgotten
      <3>2. p[2] # w  BY <3>1, <1>2, <1>7
      <3>3. QED  BY <3>1, <3>2, <2>2, <1>8, <1>11
    <2>3. CASE p[1] \in Fresh(s) /\ p[2] = w  BY <2>3, <1>8
    <2>4. QED  BY <2>1, <2>2, <2>3, <1>12
  <1>23. QED
    BY <1>15, <1>16, <1>17, <1>18, <1>19, <1>20, <1>21, <1>22 DEF NoneForgotten

\* The first entry of a batch is classified, and nothing else moves.
LEMMA ClassifyStep == ASSUME IInv, NEW w \in Workers, Classify(w) PROVE IInv'
  <1> USE DEF IInv
  <1>1. /\ UNCHANGED <<registry, published, delivered, pending, clock, cached, members,
                       mine, todo, batch>>
        /\ pc[w] = "process" /\ pc' = [pc EXCEPT ![w] = "ack"]
    BY DEF Classify, Goto, redisVars
  <1> DEFINE f == First(batch[w])
  <1>2. f \in batch[w] /\ f \in Entries
    BY <1>1, FirstOfBatch DEF TypeOK
  <1>3. classified[f] = 0  BY <1>1, <1>2 DEF HeldIsUnclassified
  <1>4. classified' = [classified EXCEPT ![f] = 1]
    <2>1. classified' = [classified EXCEPT ![f] = classified[f] + 1]  BY DEF Classify
    <2>2. QED  BY <2>1, <1>3
  <1>5. \A e \in Entries : classified'[e] = IF e = f THEN 1 ELSE classified[e]
    BY <1>4 DEF TypeOK
  <1>6. \A v \in Workers : v # w => pc'[v] = pc[v]  BY <1>1 DEF TypeOK
  <1>7. pc'[w] = "ack"  BY <1>1 DEF TypeOK
  <1>8. TypeOK'
    <2>1. classified' \in [Entries -> Nat]  BY <1>4 DEF TypeOK
    <2>2. pc' \in [Workers -> Labels]  BY <1>1 DEF TypeOK, Labels
    <2>3. \A v \in Workers : pc'[v] \in {"process", "ack"} <=> batch'[v] # {}
      BY <1>1, <1>6, <1>7 DEF TypeOK
    <2>4. QED  BY <1>1, <2>1, <2>2, <2>3 DEF TypeOK
  <1>9. Intervals'  BY <1>1 DEF Intervals
  <1>10. Grouped'  BY <1>1, <1>6 DEF Grouped
  <1>11. PendingOnce'  BY <1>1 DEF PendingOnce
  <1>12. <<f, w>> \in pending  BY <1>2 DEF PendingOnce
  <1>13. HeldIsUnclassified'
    <2>1. SUFFICES ASSUME NEW v \in Workers, NEW e \in batch[v]
                   PROVE  classified'[e] = IF pc'[v] = "ack" /\ e = First(batch[v]) THEN 1 ELSE 0
      BY <1>1 DEF HeldIsUnclassified
    <2>2. e \in Entries /\ <<e, v>> \in pending  BY DEF TypeOK, PendingOnce
    <2>3. CASE v = w  BY <2>1, <2>2, <2>3, <1>1, <1>5, <1>7 DEF HeldIsUnclassified
    <2>4. CASE v # w
      <3>1. e # f
        <4>1. \A p, q \in pending : p[1] = q[1] => p[2] = q[2]  BY DEF PendingOnce
        <4>2. SUFFICES ASSUME e = f PROVE FALSE  OBVIOUS
        <4>3. <<e, v>>[2] = <<f, w>>[2]  BY <4>1, <4>2, <2>2, <1>12
        <4>4. QED  BY <4>3, <2>4
      <3>2. QED  BY <3>1, <2>2, <2>4, <1>5, <1>6 DEF HeldIsUnclassified
    <2>5. QED  BY <2>3, <2>4
  <1>14. f[2] <= delivered[f[1]]
    <2>1. <<f, w>>[1] = f  OBVIOUS
    <2>2. QED  BY <2>1, <1>12 DEF PendingOnce
  <1>15. ClassifiedIsDelivered'
    BY <1>1, <1>5, <1>14 DEF ClassifiedIsDelivered
  <1>16. ClassifiedOnce'  BY <1>5 DEF ClassifiedOnce
  <1>17. AckedIsClassified'
    BY <1>1, <1>5 DEF AckedIsClassified, NoneForgotten
  <1>18. PendingIsHeld'
    BY <1>1, <1>6 DEF PendingIsHeld, NoneForgotten, TypeOK
  <1>19. QED
    BY <1>8, <1>9, <1>10, <1>11, <1>13, <1>15, <1>16, <1>17, <1>18 DEF NoneForgotten

\* The classified entry leaves the pending list and the batch.
LEMMA AcknowledgeStep == ASSUME IInv, NEW w \in Workers, Acknowledge(w) PROVE IInv'
  <1> USE DEF IInv
  <1> DEFINE f == First(batch[w])
  <1>1. /\ UNCHANGED <<registry, published, delivered, clock, cached, members, mine, todo,
                       classified>>
        /\ pc[w] = "ack"
        /\ pending' = {p \in pending : p[1] # f}
        /\ batch' = [batch EXCEPT ![w] = @ \ {f}]
        /\ pc' = [pc EXCEPT ![w] = IF batch[w] = {f} THEN "read" ELSE "process"]
    BY DEF Acknowledge, Goto
  <1>2. PICK s \in Streams, a \in Nat \ {0}, b \in Nat :
           /\ a <= b /\ b <= delivered[s]
           /\ batch[w] = {s} \X (a .. b)
           /\ f = <<s, a>> /\ f \in batch[w] /\ f \in Entries
           /\ batch[w] \ {f} = {s} \X (a + 1 .. b)
    <2>1. batch[w] # {}  BY <1>1 DEF TypeOK
    <2>2. PICK s \in Streams, a \in Nat \ {0}, b \in Nat :
             /\ a <= b /\ b <= delivered[s]
             /\ batch[w] = {s} \X (a .. b)
             /\ First(batch[w]) = <<s, a>>
             /\ <<s, a>> \in batch[w] /\ <<s, a>> \in Entries
             /\ batch[w] \ {<<s, a>>} = {s} \X (a + 1 .. b)
      BY <2>1, FirstOfBatch
    <2>3. f = <<s, a>>  BY <2>2
    <2>4. QED  BY <2>2, <2>3
  <1>3. \A v \in Workers : v # w => batch'[v] = batch[v] /\ pc'[v] = pc[v]
    BY <1>1 DEF TypeOK
  <1>4. /\ batch'[w] = batch[w] \ {f} /\ pc'[w] \in {"read", "process"}
        /\ pc'[w] = "process" <=> batch'[w] # {}
    <2>1. batch'[w] = batch[w] \ {f}  BY <1>1 DEF TypeOK
    <2>2. pc'[w] = IF batch[w] = {f} THEN "read" ELSE "process"  BY <1>1 DEF TypeOK
    <2>3. batch[w] = {f} <=> batch[w] \ {f} = {}  BY <1>2
    <2>4. QED  BY <2>1, <2>2, <2>3
  <1>5. \A v \in Workers : v # w => f \notin batch[v]
    <2>1. SUFFICES ASSUME NEW v \in Workers, f \in batch[v], v # w PROVE FALSE
      OBVIOUS
    <2>2. <<f, v>> \in pending /\ <<f, w>> \in pending  BY <2>1, <1>2 DEF PendingOnce
    <2>3. \A p, q \in pending : p[1] = q[1] => p[2] = q[2]  BY DEF PendingOnce
    <2>4. <<f, v>>[2] = <<f, w>>[2]  BY <2>2, <2>3
    <2>5. QED  BY <2>1, <2>4
  <1>6. TypeOK'
    <2>1. batch' \in [Workers -> SUBSET Entries]  BY <1>1 DEF TypeOK
    <2>2. pc' \in [Workers -> Labels]  BY <1>1 DEF TypeOK, Labels
    <2>3. \A v \in Workers : pc'[v] \in {"process", "ack"} <=> batch'[v] # {}
      BY <1>3, <1>4 DEF TypeOK
    <2>4. pending' \subseteq Entries \X Workers  BY <1>1 DEF TypeOK
    <2>5. QED  BY <1>1, <2>1, <2>2, <2>3, <2>4 DEF TypeOK
  <1>7. Intervals'
    <2>1. SUFFICES ASSUME NEW v \in Workers, batch'[v] # {}
                   PROVE  \E t \in Streams, c \in Nat \ {0}, d \in Nat :
                             c <= d /\ d <= delivered[t] /\ batch'[v] = {t} \X (c .. d)
      BY <1>1 DEF Intervals
    <2>2. CASE v = w
      <3>1. batch'[v] = {s} \X (a + 1 .. b)  BY <2>2, <1>2, <1>4
      <3>2. a + 1 <= b  BY <3>1, <2>1, <1>2
      <3>3. QED  BY <3>1, <3>2, <1>2
    <2>3. CASE v # w  BY <2>1, <2>3, <1>3 DEF Intervals
    <2>4. QED  BY <2>2, <2>3
  <1>8. Grouped'  BY <1>1, <1>3 DEF Grouped
  <1>9. PendingOnce'
    <2>1. \A v \in Workers : \A e \in batch'[v] : e # f /\ e \in batch[v]
      BY <1>3, <1>4, <1>5
    <2>2. \A v \in Workers : \A e \in batch'[v] : <<e, v>> \in pending'
      BY <2>1, <1>1 DEF PendingOnce
    <2>3. QED  BY <2>2, <1>1 DEF PendingOnce
  <1>10. HeldIsUnclassified'
    <2>1. \A e \in batch'[w] : classified'[e] = 0
      BY <1>1, <1>4 DEF HeldIsUnclassified
    <2>2. pc'[w] # "ack"  BY <1>4
    <2>3. QED  BY <2>1, <2>2, <1>1, <1>3 DEF HeldIsUnclassified
  <1>11. ClassifiedIsDelivered' /\ ClassifiedOnce'
    BY <1>1 DEF ClassifiedIsDelivered, ClassifiedOnce
  <1>12. classified[f] = 1  BY <1>1, <1>2 DEF HeldIsUnclassified
  <1>13. AckedIsClassified'
    <2>1. SUFFICES ASSUME NEW e \in Entries, delivered[e[1]] >= e[2]
                   PROVE  classified[e] > 0 \/ \E v \in Workers : <<e, v>> \in pending'
      BY <1>1 DEF AckedIsClassified
    <2>2. CASE e = f  BY <2>2, <1>12
    <2>3. CASE e # f  BY <2>1, <2>3, <1>1 DEF AckedIsClassified, NoneForgotten
    <2>4. QED  BY <2>2, <2>3
  <1>14. PendingIsHeld'
    <2>1. \A p \in pending' : p \in pending /\ p[1] # f /\ p[2] \in Workers
      BY <1>1 DEF TypeOK
    <2>2. \A p \in pending' : pc[p[2]] = "gone" \/ p[1] \in batch[p[2]]
      BY <2>1 DEF PendingIsHeld, NoneForgotten
    <2>3. QED  BY <2>1, <2>2, <1>1, <1>3, <1>4 DEF PendingIsHeld
  <1>15. QED
    BY <1>6, <1>7, <1>8, <1>9, <1>10, <1>11, <1>13, <1>14 DEF NoneForgotten

\* Publishing and the clock touch nothing a worker holds.
LEMMA EnvironmentStep ==
    ASSUME IInv, Tick \/ \E s \in Streams : Publish(s)
    PROVE  IInv'
  <1> USE DEF IInv
  <1>1. CASE Tick
    <2>1. registry' \in [Workers -> Absent .. Cutoff]
      <3>1. \A w \in Workers : registry[w] \in Absent .. Cutoff  BY DEF TypeOK
      <3>2. \A w \in Workers :
               (IF registry[w] = Absent THEN Absent ELSE Older(registry[w], Cutoff))
                  \in Absent .. Cutoff
        BY <3>1, FleetAssumption DEF Older, Absent
      <3>3. QED  BY <1>1, <3>2 DEF Tick
    <2>2. clock' \in [Workers -> [beat : 0 .. BeatEvery + 1, found : 0 .. DiscoverEvery]]
      <3>1. \A w \in Workers : /\ clock[w].beat \in 0 .. BeatEvery + 1
                               /\ clock[w].found \in 0 .. DiscoverEvery
        BY DEF TypeOK
      <3>2. \A w \in Workers : /\ Older(clock[w].beat, BeatEvery + 1) \in 0 .. BeatEvery + 1
                               /\ Older(clock[w].found, DiscoverEvery) \in 0 .. DiscoverEvery
        BY <3>1, FleetAssumption DEF Older
      <3>3. QED  BY <1>1, <3>2 DEF Tick
    <2>3. TypeOK'  BY <1>1, <2>1, <2>2 DEF Tick, TypeOK
    <2>4. QED  BY <1>1, <2>3, Quiet DEF Tick
  <1>2. ASSUME NEW s \in Streams, Publish(s) PROVE IInv'
    <2>1. /\ published' = [published EXCEPT ![s] = @ + 1] /\ published[s] < MaxEntries
          /\ UNCHANGED <<registry, delivered, pending, pc, clock, cached, members, mine,
                         todo, batch, classified>>
      BY <1>2 DEF Publish, workerVars
    <2>2. \A t \in Streams : published[t] \in 0 .. MaxEntries /\ delivered[t] \in Int
      BY DEF TypeOK, Absent
    <2>3. published' \in [Streams -> 0 .. MaxEntries]
      BY <2>1, <2>2, FleetAssumption DEF TypeOK
    <2>4. TypeOK'  BY <2>1, <2>3 DEF TypeOK
    <2>5. \A t \in Streams : delivered'[t] <= published'[t]
      BY <2>1, <2>2 DEF Grouped, TypeOK
    <2>6. Grouped'  BY <2>1, <2>5 DEF Grouped
    <2>7. Intervals' /\ PendingOnce' /\ HeldIsUnclassified'
      BY <2>1 DEF Intervals, PendingOnce, HeldIsUnclassified
    <2>8. ClassifiedIsDelivered' /\ ClassifiedOnce' /\ AckedIsClassified' /\ PendingIsHeld'
      BY <2>1 DEF ClassifiedIsDelivered, ClassifiedOnce, AckedIsClassified, PendingIsHeld,
                  NoneForgotten
    <2>9. QED  BY <2>4, <2>6, <2>7, <2>8 DEF NoneForgotten
  <1>3. QED  BY <1>1, <1>2

\* The end of a round and the start of the next.
LEMMA RoundStep ==
    ASSUME IInv, NEW w \in Workers, Proceed(w) \/ Wake(w)
    PROVE  IInv'
  <1> USE DEF IInv
  <1>1. /\ UNCHANGED <<redisVars, clock, cached, members, mine, todo, batch, classified>>
        /\ \/ pc[w] = "read" /\ pc' = [pc EXCEPT ![w] = "sleep"]
           \/ pc[w] = "sleep" /\ pc' = [pc EXCEPT ![w] = "top"]
    BY DEF Proceed, Wake, Goto
  <1>2. TypeOK'  BY <1>1 DEF TypeOK, Labels, redisVars
  <1>3. QED  BY <1>1, <1>2, Quiet DEF TypeOK, redisVars

\* A worker leaves the registry, or dies with its place in it.
LEMMA EndStep ==
    ASSUME IInv, NEW w \in Workers,
           Shutdown(w) \/ FailMessage(w) \/ FailRedis(w) \/ Die(w)
    PROVE  IInv'
  <1>1. Alive(w)  BY DEF Shutdown, FailMessage, FailRedis, Die, Alive
  <1>2. /\ Forget(w) /\ UNCHANGED <<published, delivered, pending, classified>>
        /\ registry' = registry \/ registry' = [registry EXCEPT ![w] = Absent]
    BY DEF Shutdown, FailMessage, FailRedis, Die, Leave, redisVars
  <1>3. registry' \in [Workers -> Absent .. Cutoff]
    BY <1>2, FleetAssumption DEF IInv, TypeOK, Absent
  <1>4. QED  BY <1>1, <1>2, <1>3, Ends

-----------------------------------------------------------------------------
(* The theorems                                                            *)

LEMMA InitIInv == Init => IInv
  <1> SUFFICES ASSUME Init PROVE IInv
    OBVIOUS
  <1>1. NewClock \in [beat : 0 .. BeatEvery + 1, found : 0 .. DiscoverEvery]
    BY FleetAssumption DEF NewClock
  <1>2. TypeOK
    BY <1>1, FleetAssumption DEF Init, TypeOK, Labels, Absent
  <1>3. Intervals /\ PendingOnce /\ HeldIsUnclassified
    BY DEF Init, Intervals, PendingOnce, HeldIsUnclassified
  <1>4. Grouped  BY DEF Init, Grouped, Absent
  <1>5. ClassifiedIsDelivered /\ ClassifiedOnce
    BY DEF Init, ClassifiedIsDelivered, ClassifiedOnce
  <1>6. AckedIsClassified
    <2>1. \A e \in Entries : e[1] \in Streams /\ e[2] \in 1 .. MaxEntries  BY DEF Entries
    <2>2. \A e \in Entries : ~(delivered[e[1]] >= e[2])
      BY <2>1, FleetAssumption DEF Init, Absent
    <2>3. QED  BY <2>2 DEF AckedIsClassified
  <1>7. PendingIsHeld  BY DEF Init, PendingIsHeld
  <1>8. QED  BY <1>2, <1>3, <1>4, <1>5, <1>6, <1>7 DEF IInv, NoneForgotten

LEMMA NextIInv == ASSUME IInv, [Next]_vars PROVE IInv'
  <1>1. CASE UNCHANGED vars
    <2>1. UNCHANGED <<registry, published, delivered, pending, pc, clock, cached, members,
                      mine, todo, batch, classified>>
      BY <1>1 DEF vars, redisVars, workerVars
    <2>2. TypeOK'  BY <2>1 DEF IInv, TypeOK
    <2>3. QED  BY <2>1, <2>2, Quiet DEF IInv
  <1>2. ASSUME NEW w \in Workers, Start(w) PROVE IInv'  BY <1>2, StartStep
  <1>3. ASSUME NEW w \in Workers, Step(w) PROVE IInv'
    BY <1>3, BeatStep, DiscoverStep, PruneStep, DivideStep, CreateGroupsStep, ReadStep,
       ClassifyStep, AcknowledgeStep, RoundStep DEF Step
  <1>4. ASSUME NEW w \in Workers, Shutdown(w) \/ FailMessage(w) \/ FailRedis(w) \/ Die(w)
        PROVE  IInv'
    BY <1>4, EndStep
  <1>5. ASSUME Tick \/ \E s \in Streams : Publish(s) PROVE IInv'
    BY <1>5, EnvironmentStep
  <1>6. QED  BY <1>1, <1>2, <1>3, <1>4, <1>5 DEF Next

LEMMA Invariance == Spec => []IInv
  <1>1. QED  BY InitIInv, NextIInv, PTL DEF Spec

\* Every reachable state of every instance is well typed.
THEOREM TypeCorrect == Spec => []TypeOK
  <1>1. IInv => TypeOK  BY DEF IInv
  <1>2. QED  BY <1>1, Invariance, PTL

\* However the registry views of any number of workers differ, no message is
\* classified twice: Redis hands an entry to one of them (run_worker's ">").
THEOREM NoSecondClassification == Spec => []ClassifiedOnce
  <1>1. IInv => ClassifiedOnce  BY DEF IInv
  <1>2. QED  BY <1>1, Invariance, PTL

\* Whatever ends a worker, a delivered message is classified or pending, and a
\* living worker still has before it what is pending for it.
THEOREM NoMessageForgotten == Spec => []NoneForgotten
  <1>1. IInv => NoneForgotten  BY DEF IInv
  <1>2. QED  BY <1>1, Invariance, PTL

-----------------------------------------------------------------------------
(* Who reads which stream                                                  *)

\* Position numbers a finite set of numbers from 0, with no gap and no number
\* given twice.
LEMMA PositionRange ==
    ASSUME NEW S \in SUBSET Nat, IsFiniteSet(S), NEW x \in S
    PROVE  Position(x, S) \in 0 .. Cardinality(S) - 1
  <1> DEFINE B == {y \in S : y < x}
  <1>1. IsFiniteSet(S \ {x}) /\ Cardinality(S \ {x}) = Cardinality(S) - 1
    BY FS_RemoveElement
  <1>2. B \in SUBSET (S \ {x})  OBVIOUS
  <1>3. IsFiniteSet(B) /\ Cardinality(B) <= Cardinality(S \ {x})
    BY <1>1, <1>2, FS_Subset
  <1>4. Cardinality(B) \in Nat /\ Cardinality(S) \in Nat  BY <1>3, FS_CardinalityType
  <1>5. QED  BY <1>1, <1>3, <1>4 DEF Position

LEMMA PositionOrder ==
    ASSUME NEW S \in SUBSET Nat, IsFiniteSet(S), NEW x \in S, NEW y \in S, x < y
    PROVE  Position(x, S) < Position(y, S)
  <1> DEFINE A == {z \in S : z < x}
             B == {z \in S : z < y}
  <1>1. A \in SUBSET S /\ B \in SUBSET S  OBVIOUS
  <1>2. IsFiniteSet(A) /\ IsFiniteSet(B)  BY <1>1, FS_Subset
  <1>3. x \notin A /\ A \cup {x} \in SUBSET B
    <2>1. \A z \in S : z \in Nat  OBVIOUS
    <2>2. \A z \in A : z \in S /\ z < y  BY <2>1
    <2>3. x \notin A  BY <2>1
    <2>4. QED  BY <2>2, <2>3
  <1>4. Cardinality(A \cup {x}) = Cardinality(A) + 1  BY <1>2, <1>3, FS_AddElement
  <1>5. Cardinality(A \cup {x}) <= Cardinality(B)  BY <1>2, <1>3, FS_Subset
  <1>6. Cardinality(A) \in Nat /\ Cardinality(B) \in Nat  BY <1>2, FS_CardinalityType
  <1>7. QED  BY <1>4, <1>5, <1>6 DEF Position

LEMMA PositionBijects ==
    ASSUME NEW S \in SUBSET Nat, IsFiniteSet(S), NEW r \in 0 .. Cardinality(S) - 1
    PROVE  \E x \in S : Position(x, S) = r /\ \A y \in S \ {x} : Position(y, S) # r
  <1> DEFINE f == [x \in S |-> Position(x, S)]
             T == 0 .. Cardinality(S) - 1
  <1>1. Cardinality(S) \in Nat  BY FS_CardinalityType
  <1>2. IsFiniteSet(T) /\ Cardinality(T) = Cardinality(S)
    BY <1>1, FS_Interval
  <1>3. f \in [S -> T]  BY PositionRange
  <1>4. ASSUME NEW x \in S, NEW y \in S, x # y PROVE Position(x, S) # Position(y, S)
    <2>1. \A z \in S : Position(z, S) \in Int  BY <1>1, PositionRange
    <2>2. CASE x < y  BY <2>1, <2>2, PositionOrder
    <2>3. CASE y < x  BY <2>1, <2>3, PositionOrder
    <2>4. QED  BY <1>4, <2>2, <2>3
  <1>5. f \in Injection(S, T)
    <2>1. \A x, y \in S : f[x] = f[y] => x = y  BY <1>4
    <2>2. QED  BY <1>3, <2>1 DEF Injection, IsInjective
  <1> HIDE DEF T
  <1>6. f \in Surjection(S, T)
    <2> HIDE DEF f
    <2>1. QED  BY <1>2, <1>5, FS_Injection
  <1>7. PICK x \in S : f[x] = r
    BY <1>6 DEF Surjection, T
  <1>8. Position(x, S) = r /\ \A y \in S \ {x} : Position(y, S) # r
    BY <1>4, <1>7
  <1>9. QED  BY <1>8

\* What a settled worker reads follows from what it listed and discovered.
AsDivided ==
    \A w \in Settled : mine[w] = Assigned(w, members[w], cached[w])

LEMMA DividedInit == Init => AsDivided
  BY DEF Init, AsDivided, Settled

LEMMA DividedKept ==
    ASSUME NEW v \in Workers, mine[v] = Assigned(v, members[v], cached[v]),
           mine'[v] = mine[v], members'[v] = members[v], cached'[v] = cached[v]
    PROVE  (mine[v] = Assigned(v, members[v], cached[v]))'
  BY DEF Assigned, Rank, Total, Position

LEMMA DividedStep ==
    ASSUME TypeOK, AsDivided, [Next]_vars
    PROVE  AsDivided'
  <1>1. ASSUME NEW w \in Workers, Discover(w) PROVE AsDivided'
    <2>1. \A v \in Workers \ {w} :
             /\ pc'[v] = pc[v] /\ mine'[v] = mine[v] /\ members'[v] = members[v]
             /\ cached'[v] = cached[v]
      BY <1>1 DEF Discover, Goto, TypeOK
    <2>2. w \in Settled' => mine'[w] = {} /\ cached'[w] = {}
      BY <1>1 DEF Discover, Goto, Settled, TypeOK
    <2>3. w \in Settled' => (mine[w] = Assigned(w, members[w], cached[w]))'
      BY <2>2 DEF Assigned
    <2>4. \A v \in Settled' \ {w} : v \in Workers /\ mine[v] = Assigned(v, members[v], cached[v])
      BY <2>1 DEF AsDivided, Settled
    <2>5. \A v \in Settled' \ {w} : (mine[v] = Assigned(v, members[v], cached[v]))'
      BY <2>1, <2>4, DividedKept
    <2>6. QED  BY <2>3, <2>5 DEF AsDivided
  <1>2. ASSUME NEW w \in Workers, Divide(w) PROVE AsDivided'
    <2>1. \A v \in Workers \ {w} :
             /\ pc'[v] = pc[v] /\ mine'[v] = mine[v] /\ members'[v] = members[v]
      BY <1>2 DEF Divide, Goto, TypeOK
    <2>2. mine'[w] = Assigned(w, members'[w], cached[w]) /\ cached' = cached
      BY <1>2 DEF Divide, TypeOK
    <2>3. (mine[w] = Assigned(w, members[w], cached[w]))'
      BY <2>2 DEF Assigned, Rank, Total, Position
    <2>4. \A v \in Settled' \ {w} : v \in Workers /\ mine[v] = Assigned(v, members[v], cached[v])
      BY <2>1 DEF AsDivided, Settled
    <2>5. \A v \in Settled' \ {w} : (mine[v] = Assigned(v, members[v], cached[v]))'
      BY <2>1, <2>2, <2>4, DividedKept
    <2>6. QED  BY <2>3, <2>5 DEF AsDivided
  <1>3. ASSUME NEW w \in Workers,
               \/ Start(w) \/ Beat(w) \/ Prune(w) \/ CreateGroups(w) \/ Read(w)
               \/ Classify(w) \/ Acknowledge(w) \/ Proceed(w) \/ Wake(w)
        PROVE  AsDivided'
    <2>1. UNCHANGED <<mine, members, cached>>
      BY <1>3 DEF Start, Beat, Prune, CreateGroups, Read, Classify, Acknowledge, Proceed,
                  Wake, redisVars, workerVars
    <2>2. \A v \in Workers \ {w} : pc'[v] = pc[v]
      BY <1>3 DEF Start, Beat, Prune, CreateGroups, Read, Classify, Acknowledge, Proceed,
                  Wake, Goto, TypeOK
    <2>3. w \in Settled' => w \in Settled
      BY <1>3 DEF Start, Beat, Prune, CreateGroups, Read, Classify, Acknowledge, Proceed,
                  Wake, Goto, TypeOK, Settled
    <2>4. Settled' \subseteq Settled  BY <2>2, <2>3 DEF Settled
    <2>5. QED  BY <2>1, <2>4 DEF AsDivided, Assigned, Rank, Total, Position
  <1>4. ASSUME NEW w \in Workers,
               Shutdown(w) \/ FailMessage(w) \/ FailRedis(w) \/ Die(w)
        PROVE  AsDivided'
    <2>1. Forget(w)
      BY <1>4 DEF Shutdown, FailMessage, FailRedis, Die, Leave
    <2>2. \A v \in Workers \ {w} :
             /\ pc'[v] = pc[v] /\ mine'[v] = mine[v] /\ members'[v] = members[v]
             /\ cached'[v] = cached[v]
      BY <2>1 DEF Forget, Goto, TypeOK
    <2>3. w \notin Settled'  BY <2>1 DEF Forget, Goto, Settled, TypeOK
    <2>4. \A v \in Settled' : v \in Workers \ {w} /\ mine[v] = Assigned(v, members[v], cached[v])
      BY <2>2, <2>3 DEF AsDivided, Settled
    <2>5. \A v \in Settled' : (mine[v] = Assigned(v, members[v], cached[v]))'
      BY <2>2, <2>4, DividedKept
    <2>6. QED  BY <2>5 DEF AsDivided
  <1>5. ASSUME Tick \/ (\E s \in Streams : Publish(s)) \/ UNCHANGED vars PROVE AsDivided'
    <2>1. UNCHANGED <<pc, mine, members, cached>>
      BY <1>5 DEF Tick, Publish, vars, workerVars
    <2>2. QED  BY <2>1 DEF AsDivided, Settled, Assigned, Rank, Total, Position
  <1>6. QED  BY <1>1, <1>2, <1>3, <1>4, <1>5 DEF Next, Step

\* Workers that settled with one list and one set of streams divide it: the
\* positions in a list are the remainders, each of them once.
LEMMA OneByRank ==
    ASSUME TypeOK, AsDivided, NEW w \in Settled, NEW s \in cached[w],
           \A v \in Settled : members[v] = Settled /\ cached[v] = cached[w]
    PROVE  \E v \in Settled : s \in mine[v] /\ \A u \in Settled \ {v} : s \notin mine[u]
  <1> DEFINE n == Cardinality(Settled)
             p == Position(s, cached[w])
  <1>1. Settled \in SUBSET Nat /\ IsFiniteSet(Settled) /\ Settled # {}
    BY FleetAssumption, FS_Subset DEF Settled
  <1>2. cached[w] \in SUBSET Nat /\ IsFiniteSet(cached[w])
    <2>1. cached[w] \in SUBSET Streams  BY DEF TypeOK, Settled
    <2>2. QED  BY <2>1, FleetAssumption, FS_Subset
  <1>3. n \in Nat \ {0}  BY <1>1, FS_CardinalityType, FS_EmptySet
  <1>4. p \in Nat
    <2>1. Cardinality(cached[w]) \in Nat  BY <1>2, FS_CardinalityType
    <2>2. QED  BY <1>2, <2>1, PositionRange
  <1> HIDE DEF n, p
  <1>5. p % n \in 0 .. n - 1  BY <1>3, <1>4
  <1>6. PICK v \in Settled : Position(v, Settled) = p % n
                             /\ \A u \in Settled \ {v} : Position(u, Settled) # p % n
    BY <1>1, <1>5, PositionBijects DEF n
  <1>7. \A u \in Settled : s \in mine[u] <=> p % n = Position(u, Settled)
    BY <1>1 DEF AsDivided, Assigned, Rank, Total, n, p
  <1>8. QED  BY <1>6, <1>7

\* Whatever faults, prunings and late views came before: once the living workers
\* have ranked themselves by the same list of just them, every stream has exactly
\* one of them (get_my_streams), for any number of workers and streams.
THEOREM StreamsAreDivided == Spec => []OneWorkerPerStream
  <1>1. TypeOK /\ AsDivided => OneWorkerPerStream
    <2> SUFFICES ASSUME TypeOK, AsDivided, NEW w \in Settled,
                        \A v \in Settled : members[v] = Settled /\ cached[v] = cached[w],
                        NEW s \in cached[w]
                 PROVE  \E v \in Settled :
                           s \in mine[v] /\ \A u \in Settled \ {v} : s \notin mine[u]
      BY DEF OneWorkerPerStream
    <2>1. QED  BY OneByRank
  <1>2. Init => AsDivided  BY DividedInit
  <1>3. TypeOK /\ AsDivided /\ [Next]_vars => AsDivided'  BY DividedStep
  <1>4. QED  BY <1>1, <1>2, <1>3, TypeCorrect, PTL DEF Spec
=============================================================================
