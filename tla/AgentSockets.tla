----------------------------- MODULE AgentSockets -----------------------------
(***************************************************************************)
(* The WebSocket connections of one workspace in one API process: a list    *)
(* that handlers append to and remove from while broadcasts iterate over it.*)
(*                                                                          *)
(* Handlers are coroutines on one event loop: a step runs from one await to *)
(* the next.  A broadcast awaits each send, so the list may change under    *)
(* its cursor.  Each tab is one connection object and connects once.        *)
(***************************************************************************)
EXTENDS Integers, Sequences, FiniteSets

CONSTANTS
    Tabs,         \* browser tabs
    Requests,     \* HTTP requests that broadcast (accept, reply)
    UserOf,       \* [Tabs -> the agent the tab belongs to]
    AtStart,      \* the tabs that are connected already, in order
    Talkers       \* bound: tabs that send a typing or presence message, once

ASSUME AgentSocketsAssumption ==
    /\ Tabs \cap Requests = {}
    /\ AtStart \in Seq(Tabs)
    /\ \A i, j \in DOMAIN AtStart : AtStart[i] = AtStart[j] => i = j

Broadcasters == Tabs \cup Requests

VARIABLES
    conns,        \* _connections[workspace], in order
    net,          \* [Tabs -> "none", "live" or "gone"]: the peer
    pc,           \* [Broadcasters -> where the handler is]
    announced,    \* tabs that have sent a typing or presence message
    cast          \* [Broadcasters -> locals of broadcast_to_workspace]

socketVars == <<conns, net, pc, announced, cast>>

\* cursor: connections visited; dead: sends that failed; copies: ghost, sends
\* that succeeded; audience, removed: ghosts for the properties.
NoCast == [cursor |-> 0, dead |-> {}, copies |-> [t \in Tabs |-> 0],
           audience |-> {}, removed |-> 0]

Listed == {conns[i] : i \in DOMAIN conns}

\* exclude_user: a tab's broadcasts skip the tabs of its own user.
Addressed(b) == {t \in Listed : b \in Requests \/ UserOf[t] # UserOf[b]}

Kept(list, gone) == {i \in DOMAIN list : list[i] \notin gone}

\* Where position i comes when the positions kept close up.
Rank(kept, i) == Cardinality({j \in kept : j <= i})

Without(list, gone) ==
    LET kept == Kept(list, gone)
    IN  [n \in 1 .. Cardinality(kept) |-> list[CHOOSE i \in kept : Rank(kept, i) = n]]

\* Every broadcast in progress notes removals from the list.
NoteRemoval(casts, gone) ==
    [b \in Broadcasters |->
        [casts[b] EXCEPT !.removed = @ + Cardinality(gone \cap Listed)]]

Casting(b) == pc[b] \in {"greeting", "announcing", "leaving", "casting"}

Start(b) == [NoCast EXCEPT !.audience = Addressed(b)]

-----------------------------------------------------------------------------
(* broadcast_to_workspace                                                  *)

\* Positions the iterator may stop at next.
Ahead(b) == {i \in DOMAIN conns : i > cast[b].cursor /\ conns[i] \in Addressed(b)}

\* Variant: the first send that fails ends the broadcast.
SendUntilFailure(b) ==
    /\ Casting(b) /\ Ahead(b) # {}
    /\ LET i == CHOOSE i \in Ahead(b) : \A j \in Ahead(b) : i <= j
           t == conns[i]
       IN  cast' = [cast EXCEPT ![b] =
                       IF net[t] = "live"
                       THEN [@ EXCEPT !.cursor = i, !.copies[t] = @ + 1]
                       ELSE [@ EXCEPT !.cursor = Len(conns), !.dead = @ \cup {t}]]
    /\ UNCHANGED <<conns, net, pc, announced>>

\* conn.send: False when the browser has gone.
AfterSend(b, i, t) ==
    IF net[t] = "live" THEN [cast[b] EXCEPT !.cursor = i, !.copies[t] = @ + 1]
    ELSE [cast[b] EXCEPT !.cursor = i, !.dead = @ \cup {t}]

\* One send. The next connection is the one at the cursor now.
Send(b) ==
    /\ Casting(b) /\ Ahead(b) # {}
    /\ LET i == CHOOSE i \in Ahead(b) : \A j \in Ahead(b) : i <= j
       IN  cast' = [cast EXCEPT ![b] = AfterSend(b, i, conns[i])]
    /\ UNCHANGED <<conns, net, pc, announced>>

\* Where the handler goes on after a broadcast.
After(b) == CASE pc[b] = "greeting"   -> "open"
              [] pc[b] = "announcing" -> "open"
              [] OTHER                -> "done"

\* The loop ends; the dead connections are removed in one go.
EndCast(b) ==
    /\ Casting(b) /\ Ahead(b) = {}
    /\ conns' = Without(conns, cast[b].dead)
    /\ cast' = [NoteRemoval(cast, cast[b].dead) EXCEPT ![b] = NoCast]
    /\ pc' = [pc EXCEPT ![b] = After(b)]
    /\ UNCHANGED <<net, announced>>

-----------------------------------------------------------------------------
(* Handlers                                                                *)

\* Variant: the newest connection is served first.
ConnectInFront(t) ==
    /\ pc[t] = "closed"
    /\ conns' = <<t>> \o conns
    /\ net' = [net EXCEPT ![t] = "live"]
    /\ pc' = [pc EXCEPT ![t] = "listing"]
    /\ UNCHANGED <<announced, cast>>

\* connect: accepted, then appended; the presence list is sent to the tab itself.
Connect(t) ==
    /\ pc[t] = "closed"
    /\ conns' = Append(conns, t)
    /\ net' = [net EXCEPT ![t] = "live"]
    /\ pc' = [pc EXCEPT ![t] = "listing"]
    /\ UNCHANGED <<announced, cast>>

\* ... then presence.online is broadcast.
Greet(t) ==
    /\ pc[t] = "listing"
    /\ pc' = [pc EXCEPT ![t] = "greeting"]
    /\ cast' = [cast EXCEPT ![t] = Start(t)]
    /\ UNCHANGED <<conns, net, announced>>

\* The tab sends typing or presence.update.
Announce(t) ==
    /\ pc[t] = "open" /\ net[t] = "live" /\ t \in Talkers \ announced
    /\ announced' = announced \cup {t}
    /\ pc' = [pc EXCEPT ![t] = "announcing"]
    /\ cast' = [cast EXCEPT ![t] = Start(t)]
    /\ UNCHANGED <<conns, net>>

\* The browser goes away.
Vanish(t) ==
    /\ net[t] = "live"
    /\ net' = [net EXCEPT ![t] = "gone"]
    /\ UNCHANGED <<conns, pc, announced, cast>>

\* Variant: the connection stays listed.
NoticeOnly(t) ==
    /\ pc[t] = "open" /\ net[t] = "gone"
    /\ pc' = [pc EXCEPT ![t] = "leaving"]
    /\ cast' = [cast EXCEPT ![t] = Start(t)]
    /\ UNCHANGED <<conns, net, announced>>

\* WebSocketDisconnect out of receive_text: removed, if still listed, and
\* presence.offline is broadcast, whatever other tabs the user has.
Notice(t) ==
    /\ pc[t] = "open" /\ net[t] = "gone"
    /\ conns' = Without(conns, {t})
    /\ pc' = [pc EXCEPT ![t] = "leaving"]
    /\ cast' = [NoteRemoval(cast, {t}) EXCEPT
                   ![t] = [Start(t) EXCEPT !.audience = Addressed(t) \ {t}]]
    /\ UNCHANGED <<net, announced>>

\* Anything else out of the loop is caught by nobody: a binary frame, JSON that is
\* no object, or the RuntimeError of a receive after a send of its own has failed.
\* The server closes the socket; nobody calls disconnect.
HandlerFails(t) ==
    /\ pc[t] = "open" /\ net[t] # "none"
    /\ net' = [net EXCEPT ![t] = "gone"]
    /\ pc' = [pc EXCEPT ![t] = "failed"]
    /\ UNCHANGED <<conns, announced, cast>>

\* accept_escalation, agent_reply: broadcast to everybody after the commit.
Publish(q) ==
    /\ pc[q] = "closed"
    /\ pc' = [pc EXCEPT ![q] = "casting"]
    /\ cast' = [cast EXCEPT ![q] = Start(q)]
    /\ UNCHANGED <<conns, net, announced>>

-----------------------------------------------------------------------------
SocketInit ==
    /\ conns = AtStart
    /\ net = [t \in Tabs |-> IF t \in Listed THEN "live" ELSE "none"]
    /\ pc = [b \in Broadcasters |-> IF b \in Listed THEN "open" ELSE "closed"]
    /\ announced = {}
    /\ cast = [b \in Broadcasters |-> NoCast]

SocketNext ==
    \/ \E b \in Broadcasters : Send(b) \/ EndCast(b)
    \/ \E t \in Tabs : \/ Connect(t) \/ Greet(t) \/ Announce(t)
                      \/ Vanish(t) \/ Notice(t) \/ HandlerFails(t)
    \/ \E q \in Requests : Publish(q)

\* The event loop resumes every coroutine that can go on; browsers and requests
\* do as they like.
Resume(b) == Send(b) \/ EndCast(b) \/ (b \in Tabs /\ (Greet(b) \/ Notice(b)))

Fairness == \A b \in Broadcasters : WF_socketVars(Resume(b))

SocketSpec == SocketInit /\ [][SocketNext]_socketVars /\ Fairness

-----------------------------------------------------------------------------
(* Properties                                                              *)

SocketTypeOK ==
    /\ conns \in Seq(Tabs)
    /\ \A i, j \in DOMAIN conns : conns[i] = conns[j] => i = j
    /\ net \in [Tabs -> {"none", "live", "gone"}]
    /\ pc \in [Broadcasters -> {"closed", "listing", "greeting", "open", "announcing",
                                "leaving", "casting", "done", "failed"}]
    /\ announced \subseteq Tabs
    /\ cast \in [Broadcasters -> [cursor : Nat, dead : SUBSET Tabs,
                                  copies : [Tabs -> Nat],
                                  audience : SUBSET Tabs, removed : Nat]]

\* However the list changes under a broadcast, nobody gets an event twice.
NoDuplicates == \A b \in Broadcasters, t \in Tabs : cast[b].copies[t] <= 1

\* A broadcast passes over a connection only because another one was removed
\* from the list before the cursor: of the tabs listed when it began and still
\* listed at its end, it misses no more than there were removals.
MissedWithinRemovals ==
    [][\A b \in Broadcasters :
          Casting(b) /\ ~Casting(b)' =>
             Cardinality({t \in cast[b].audience \cap Listed :
                             t \notin cast[b].dead /\ cast[b].copies[t] = 0})
                <= cast[b].removed]_socketVars

\* Nobody whose tab is alive drops out of the list: whichever broadcast finds
\* dead connections removes those and no other.
LiveIsListed ==
    \A t \in Tabs : net[t] = "live" => t \in Listed

\* However lists change under broadcasts, a live tab stays listed and is told once.
LiveAreToldOnce == LiveIsListed /\ NoDuplicates

\* A connection whose browser has gone leaves the list, the handler's own
\* broadcasts notwithstanding, or its handler has ended with an exception: nobody
\* removes those but a broadcast that still tries to reach them.
GoneIsRemoved ==
    \A t \in Tabs : net[t] = "gone" ~> t \notin Listed \/ pc[t] = "failed"
=============================================================================
