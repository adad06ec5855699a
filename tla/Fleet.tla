-------------------------------- MODULE Fleet --------------------------------
(***************************************************************************)
(* The second message worker: any number of processes that register in a    *)
(* sorted set, send heartbeats, and divide the streams of all workspaces    *)
(* among themselves by their rank in the set.                               *)
(*                                                                          *)
(* Every worker decides for itself, from a registry and a list of streams   *)
(* it has read at some time.  Ages stand for time stamps: they grow with    *)
(* Tick and stop where the code no longer tells them apart.                 *)
(***************************************************************************)
EXTENDS Integers, FiniteSets

CONSTANTS
    Workers,        \* worker ids, numbered in the order of their names
    Streams,        \* "messages:<workspace>", numbered likewise
    BatchSize,      \* entries for each read
    BeatEvery,      \* WORKER_HEARTBEAT_TTL / 2, in ticks
    DiscoverEvery,  \* STREAM_DISCOVERY_INTERVAL
    Cutoff,         \* the 60 s after which a silent worker is pruned
    Faults,         \* a subset of {"die", "message", "redis"}
    MaxEntries      \* bound: entries published to a stream

ASSUME FleetAssumption ==
    /\ Workers \subseteq Nat /\ IsFiniteSet(Workers)
    /\ Streams \subseteq Nat /\ IsFiniteSet(Streams)
    /\ BatchSize \in Nat \ {0} /\ MaxEntries \in Nat
    /\ BeatEvery \in Nat /\ DiscoverEvery \in Nat /\ Cutoff \in Nat \ {0}

VARIABLES
    registry,     \* "active-workers": [Workers -> age of the score, or Absent]
    pc,           \* [Workers -> where the process is]
    clock,        \* [Workers -> ages of the last heartbeat and discovery]
    cached,       \* [Workers -> streams discovered last]
    members,      \* [Workers -> workers listed at the last ranking]
    mine,         \* [Workers -> streams assigned then]
    todo,         \* [Workers -> of these, the streams not read yet]
    batch,        \* [Workers -> entries read and not finished]
    published,    \* [Streams -> entries so far]
    delivered,    \* [Streams -> last-delivered entry of the group, or Absent]
    pending,      \* <<entry, worker>>: the pending lists of the groups
    classified    \* [entries -> times process_message has succeeded]

redisVars  == <<registry, published, delivered, pending>>
workerVars == <<pc, clock, cached, members, mine, todo, batch>>
vars == <<redisVars, workerVars, classified>>

Absent  == -1
Entries == Streams \X (1 .. MaxEntries)

Alive(w) == pc[w] \notin {"off", "gone"}

\* Position in the sorted list of a set.
Position(x, set) == Cardinality({y \in set : y < x})

\* Variant: the order in which the sorted set returns its members, by score.
RankByScore(w, listed) ==
    IF w \in listed
    THEN Cardinality({v \in listed : registry[v] > registry[w]
                                     \/ (registry[v] = registry[w] /\ v < w)})
    ELSE 0

\* get_worker_rank: a worker that is not listed takes rank 0.
Rank(w, listed) == IF w \in listed THEN Position(w, listed) ELSE 0

Total(listed) == IF listed = {} THEN 1 ELSE Cardinality(listed)

\* get_my_streams: index % total == rank.
Assigned(w, listed, streams) ==
    {s \in streams : Position(s, streams) % Total(listed) = Rank(w, listed)}

\* Both of its ages make the first round beat and discover.
NewClock == [beat |-> BeatEvery + 1, found |-> DiscoverEvery]

Goto(w, label) == pc' = [pc EXCEPT ![w] = label]

-----------------------------------------------------------------------------
(* One round of run_worker                                                 *)

Start(w) ==
    /\ pc[w] = "off"
    /\ registry' = [registry EXCEPT ![w] = 0]
    /\ Goto(w, "top")
    /\ UNCHANGED <<published, delivered, pending, clock, cached, members, mine, todo, batch,
                   classified>>

Beat(w) ==
    /\ pc[w] = "top"
    /\ IF clock[w].beat > BeatEvery
       THEN /\ registry' = [registry EXCEPT ![w] = 0]
            /\ clock' = [clock EXCEPT ![w].beat = 0]
       ELSE UNCHANGED <<registry, clock>>
    /\ Goto(w, "discover")
    /\ UNCHANGED <<published, delivered, pending, cached, members, mine, todo, batch,
                   classified>>

\* discover_streams: KEYS messages:*, unless a recent answer was not empty.
Discover(w) ==
    /\ pc[w] = "discover"
    /\ IF clock[w].found < DiscoverEvery /\ cached[w] # {}
       THEN UNCHANGED <<cached, clock>>
       ELSE /\ cached' = [cached EXCEPT ![w] = {s \in Streams : published[s] > 0}]
            /\ clock' = [clock EXCEPT ![w].found = 0]
    /\ Goto(w, IF cached'[w] = {} THEN "sleep" ELSE "prune")
    /\ mine' = IF cached'[w] = {} THEN [mine EXCEPT ![w] = {}] ELSE mine
    /\ UNCHANGED <<redisVars, members, todo, batch, classified>>

\* Variant: nobody is taken off the registry.
PruneNobody(w) ==
    /\ pc[w] = "prune"
    /\ Goto(w, "rank")
    /\ UNCHANGED <<redisVars, clock, cached, members, mine, todo, batch, classified>>

\* get_active_workers removes the silent ...
Prune(w) ==
    /\ pc[w] = "prune"
    /\ registry' = [v \in Workers |-> IF registry[v] >= Cutoff THEN Absent ELSE registry[v]]
    /\ Goto(w, "rank")
    /\ UNCHANGED <<published, delivered, pending, clock, cached, members, mine, todo, batch,
                   classified>>

\* ... and lists the others, which gives the rank and the streams.
Divide(w) ==
    /\ pc[w] = "rank"
    /\ LET listed == {v \in Workers : registry[v] # Absent} IN
          /\ members' = [members EXCEPT ![w] = listed]
          /\ mine' = [mine EXCEPT ![w] = Assigned(w, listed, cached[w])]
    /\ Goto(w, IF mine'[w] = {} THEN "sleep" ELSE "group")
    /\ UNCHANGED <<redisVars, clock, cached, todo, batch, classified>>

\* ensure_consumer_group for each, from the beginning of the stream.
CreateGroups(w) ==
    /\ pc[w] = "group"
    /\ delivered' = [s \in Streams |-> IF s \in mine[w] /\ delivered[s] = Absent
                                       THEN 0 ELSE delivered[s]]
    /\ todo' = [todo EXCEPT ![w] = mine[w]]
    /\ Goto(w, "read")
    /\ UNCHANGED <<registry, published, pending, clock, cached, members, mine, batch,
                   classified>>

\* The last-delivered entry after a read of s, and the entries it hands out.
Upto(s) == IF published[s] < delivered[s] + BatchSize
           THEN published[s] ELSE delivered[s] + BatchSize

Fresh(s) == {s} \X (delivered[s] + 1 .. Upto(s))

\* Variant: entries pending for others are claimed along with the new ones.
ReadClaiming(w) ==
    /\ pc[w] = "read"
    /\ \E s \in todo[w] :
          LET claimed == {e \in Entries : e[1] = s /\ \E v \in Workers : <<e, v>> \in pending}
              taken   == Fresh(s) \cup claimed
          IN  /\ \A t \in todo[w] : s <= t
              /\ todo' = [todo EXCEPT ![w] = @ \ {s}]
              /\ batch' = [batch EXCEPT ![w] = taken]
              /\ delivered' = [delivered EXCEPT ![s] = Upto(s)]
              /\ pending' = {p \in pending : p[1] \notin claimed} \cup (taken \X {w})
              /\ Goto(w, IF taken = {} THEN "read" ELSE "process")
    /\ UNCHANGED <<registry, published, clock, cached, members, mine, classified>>

\* XREADGROUP of the next assigned stream, ">": entries nobody has been given.
Read(w) ==
    /\ pc[w] = "read"
    /\ \E s \in todo[w] :
          /\ \A t \in todo[w] : s <= t
          /\ todo' = [todo EXCEPT ![w] = @ \ {s}]
          /\ batch' = [batch EXCEPT ![w] = Fresh(s)]
          /\ delivered' = [delivered EXCEPT ![s] = Upto(s)]
          /\ pending' = pending \cup (Fresh(s) \X {w})
          /\ Goto(w, IF Fresh(s) = {} THEN "read" ELSE "process")
    /\ UNCHANGED <<registry, published, clock, cached, members, mine, classified>>

First(entries) == CHOOSE e \in entries : \A f \in entries : e[2] <= f[2]

\* process_message succeeds: the text is classified, and that is all.
Classify(w) ==
    /\ pc[w] = "process"
    /\ classified' = [classified EXCEPT ![First(batch[w])] = @ + 1]
    /\ Goto(w, "ack")
    /\ UNCHANGED <<redisVars, clock, cached, members, mine, todo, batch>>

Acknowledge(w) ==
    /\ pc[w] = "ack"
    /\ LET e == First(batch[w]) IN
          /\ pending' = {p \in pending : p[1] # e}
          /\ batch' = [batch EXCEPT ![w] = @ \ {e}]
          /\ Goto(w, IF batch[w] = {e} THEN "read" ELSE "process")
    /\ UNCHANGED <<registry, published, delivered, clock, cached, members, mine, todo,
                   classified>>

\* Every stream has been read: the pause of the loop.
Proceed(w) ==
    /\ pc[w] = "read" /\ todo[w] = {}
    /\ Goto(w, "sleep")
    /\ UNCHANGED <<redisVars, clock, cached, members, mine, todo, batch, classified>>

Wake(w) ==
    /\ pc[w] = "sleep"
    /\ Goto(w, "top")
    /\ UNCHANGED <<redisVars, clock, cached, members, mine, todo, batch, classified>>

-----------------------------------------------------------------------------
(* Ends of a worker                                                        *)

\* What a process knew goes with it.
Forget(w) ==
    /\ clock' = [clock EXCEPT ![w] = NewClock]
    /\ cached' = [cached EXCEPT ![w] = {}] /\ members' = [members EXCEPT ![w] = {}]
    /\ mine' = [mine EXCEPT ![w] = {}] /\ todo' = [todo EXCEPT ![w] = {}]
    /\ batch' = [batch EXCEPT ![w] = {}]
    /\ Goto(w, "gone")

\* The finally clause: ZREM. What the worker has read and not acknowledged stays.
Leave(w) ==
    /\ registry' = [registry EXCEPT ![w] = Absent]
    /\ Forget(w)
    /\ UNCHANGED <<published, delivered, pending, classified>>

\* SIGTERM is seen at the head of the loop.
Shutdown(w) == pc[w] = "top" /\ Leave(w)

\* Variant: a failing message is logged and the loop goes on.
SkipMessage(w) ==
    /\ pc[w] = "process" /\ "message" \in Faults
    /\ LET e == First(batch[w]) IN
          /\ batch' = [batch EXCEPT ![w] = @ \ {e}]
          /\ Goto(w, IF batch[w] = {e} THEN "read" ELSE "process")
    /\ UNCHANGED <<redisVars, clock, cached, members, mine, todo, classified>>

\* process_message fails: each of the three handlers logs with keyword arguments
\* the standard logger does not take, and the TypeError passes them all.
FailMessage(w) ==
    /\ pc[w] = "process"
    /\ "message" \in Faults
    /\ Leave(w)

\* A Redis call fails, with the same result; the ZREM may fail, too.
FailRedis(w) ==
    /\ pc[w] \in {"top", "discover", "prune", "rank", "group", "read", "ack"}
    /\ "redis" \in Faults
    /\ Leave(w)

\* The process is killed: its entry stays in the registry.
Die(w) ==
    /\ Alive(w) /\ "die" \in Faults
    /\ Forget(w)
    /\ UNCHANGED <<redisVars, classified>>

-----------------------------------------------------------------------------
\* publish_message_to_stream.
Publish(s) ==
    /\ published[s] < MaxEntries
    /\ published' = [published EXCEPT ![s] = @ + 1]
    /\ UNCHANGED <<registry, delivered, pending, workerVars, classified>>

Older(age, limit) == IF age < limit THEN age + 1 ELSE age

Tick ==
    /\ registry' = [w \in Workers |-> IF registry[w] = Absent THEN Absent
                                      ELSE Older(registry[w], Cutoff)]
    /\ clock' = [w \in Workers |-> [beat  |-> Older(clock[w].beat, BeatEvery + 1),
                                    found |-> Older(clock[w].found, DiscoverEvery)]]
    /\ UNCHANGED <<published, delivered, pending, pc, cached, members, mine, todo, batch,
                   classified>>

Init ==
    /\ registry = [w \in Workers |-> Absent]
    /\ pc = [w \in Workers |-> "off"]
    /\ clock = [w \in Workers |-> NewClock]
    /\ cached = [w \in Workers |-> {}] /\ members = [w \in Workers |-> {}]
    /\ mine = [w \in Workers |-> {}] /\ todo = [w \in Workers |-> {}]
    /\ batch = [w \in Workers |-> {}]
    /\ published = [s \in Streams |-> 0] /\ delivered = [s \in Streams |-> Absent]
    /\ pending = {} /\ classified = [e \in Entries |-> 0]

Step(w) == Beat(w) \/ Discover(w) \/ Prune(w) \/ Divide(w) \/ CreateGroups(w) \/ Read(w)
           \/ Classify(w) \/ Acknowledge(w) \/ Proceed(w) \/ Wake(w)

Next ==
    \/ \E w \in Workers : \/ Start(w) \/ Step(w)
                          \/ Shutdown(w) \/ FailMessage(w) \/ FailRedis(w) \/ Die(w)
    \/ \E s \in Streams : Publish(s)
    \/ Tick

\* The loop has no exit but those above, and time goes on.
Fairness == WF_vars(Tick) /\ \A w \in Workers : WF_vars(Step(w))

Spec == Init /\ [][Next]_vars /\ Fairness

-----------------------------------------------------------------------------
(* Properties                                                              *)

Labels == {"off", "top", "discover", "prune", "rank", "group", "read", "process", "ack",
           "sleep", "gone"}

TypeOK ==
    /\ registry \in [Workers -> Absent .. Cutoff]
    /\ pc \in [Workers -> Labels]
    /\ clock \in [Workers -> [beat : 0 .. BeatEvery + 1, found : 0 .. DiscoverEvery]]
    /\ cached \in [Workers -> SUBSET Streams]
    /\ members \in [Workers -> SUBSET Workers]
    /\ mine \in [Workers -> SUBSET Streams] /\ todo \in [Workers -> SUBSET Streams]
    /\ batch \in [Workers -> SUBSET Entries]
    /\ published \in [Streams -> 0 .. MaxEntries]
    /\ delivered \in [Streams -> Absent .. MaxEntries]
    /\ pending \subseteq Entries \X Workers
    /\ classified \in [Entries -> Nat]
    /\ \A w \in Workers : pc[w] \in {"process", "ack"} <=> batch[w] # {}

\* However the views of the workers differ, and two of them read one stream at
\* the same time: no message is classified twice.
ClassifiedOnce == \A e \in Entries : classified[e] <= 1

\* A message is off the pending list only when it has been classified.
AckedIsClassified ==
    \A e \in Entries :
        delivered[e[1]] >= e[2] => classified[e] > 0 \/ \E w \in Workers : <<e, w>> \in pending

\* A message is left pending only by a worker that has ended: the living one
\* that was given it still has it before it.
PendingIsHeld == \A p \in pending : pc[p[2]] = "gone" \/ p[1] \in batch[p[2]]

\* No message is forgotten: one that was delivered is classified or pending, and a
\* pending one is in the hands of the worker it was given to, while that lives.
NoneForgotten == AckedIsClassified /\ PendingIsHeld

Settled == {w \in Workers : pc[w] \in {"group", "read", "process", "ack", "sleep"}}

\* When the living workers have ranked themselves by the same registry, which
\* lists just them, and the same streams, every stream has one of them.
OneWorkerPerStream ==
    \A w \in Settled :
        /\ Settled = {v \in Workers : Alive(v)}
        /\ \A v \in Settled : members[v] = Settled /\ cached[v] = cached[w]
        => \A s \in cached[w] : \E v \in Settled :
              s \in mine[v] /\ \A u \in Settled \ {v} : s \notin mine[u]

\* Every message is handed to a worker as long as one is alive, whoever else has
\* died with a place in the registry.
PublishedIsTaken ==
    \A s \in Streams : \A n \in 1 .. MaxEntries :
        published[s] >= n ~> (delivered[s] >= n \/ \A w \in Workers : ~Alive(w))
=============================================================================
