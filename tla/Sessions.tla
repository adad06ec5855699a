------------------------------- MODULE Sessions -------------------------------
(***************************************************************************)
(* Login, refresh, logout and authenticated requests of the dashboard users *)
(* of one workspace, with the token blacklist in Redis.                     *)
(*                                                                          *)
(* A token is its payload: kind, user and expiry in whole seconds.  Nothing *)
(* else tells two tokens apart, so two pairs issued to a user within one    *)
(* second are the same pair.  Each await of a handler ends a step.          *)
(***************************************************************************)
EXTENDS Integers, FiniteSets

CONSTANTS
    Users,           \* dashboard users of the workspace
    Calls,           \* requests in progress at once
    TicksPerSecond,  \* the clock is finer than the expiries
    AccessLife,      \* jwt_access_token_expire_minutes, in seconds
    RefreshLife,     \* jwt_refresh_token_expire_days, in seconds
    MaxTime,         \* bound: ticks of the clock
    MaxCalls         \* bound: requests started

ASSUME SessionsAssumption ==
    /\ TicksPerSecond \in Nat \ {0}
    /\ AccessLife \in Nat /\ RefreshLife \in Nat /\ MaxTime \in Nat
    /\ MaxCalls \in Nat
    /\ IsFiniteSet(Calls) /\ Calls # {} /\ Users # {}

VARIABLES
    now,         \* the clock, in ticks
    active,      \* users whose row says is_active
    workspace,   \* its status
    issued,      \* pairs created, as <<user, second>>
    held,        \* [Users -> second of the pair the client got last]
    blacklist,   \* [Tokens -> tick at which the Redis key expires]
    call,        \* [Calls -> locals of a handler]
    revoked,     \* tokens blacklisted at some time
    late,        \* [Users -> effects since the user was suspended]
    started,     \* requests started
    key,         \* the developer API key: "none", "active" or "revoked"
    keyLate      \* public requests answered since it was revoked

sessionVars == <<now, active, workspace, issued, held, blacklist, call, revoked, late,
                 started, key, keyLate>>
keyVars == <<key, keyLate>>

Second(t) == t \div TicksPerSecond

Seconds == 0 .. Second(MaxTime)

Tokens == [kind : {"access", "refresh"}, user : Users, at : Seconds]

\* The exp claim, in seconds: the encoder drops the fraction.
Expiry(t) == t.at + IF t.kind = "access" THEN AccessLife ELSE RefreshLife

\* decode_token: the library compares whole seconds and accepts the last one.
Decodes(t) == Second(now) <= Expiry(t)

Blacklisted(t) == now < blacklist[t]

\* int(exp - now) seconds remain; a token with none left is not blacklisted.
Remaining(t) == LET left == Expiry(t) * TicksPerSecond - now
                IN  IF left > 0 THEN left \div TicksPerSecond ELSE 0

\* Variant: every token is blacklisted for one second.
BlacklistedBriefly(t) ==
    [blacklist EXCEPT ![t] = IF Remaining(t) > 0 THEN now + TicksPerSecond ELSE @]

\* blacklist_token: SET with the remaining seconds as its expiry.
BlacklistedFor(t) ==
    [blacklist EXCEPT ![t] =
        IF Remaining(t) > 0 THEN now + Remaining(t) * TicksPerSecond ELSE @]

NoToken == [kind |-> "access", user |-> CHOOSE u \in Users : TRUE, at |-> 0]
NoCall  == [pc |-> "idle", op |-> "none", token |-> NoToken, other |-> NoToken]

-----------------------------------------------------------------------------
(* Steps shared by the handlers                                            *)

Begin(c, record) ==
    /\ call[c].pc = "idle"
    /\ started < MaxCalls
    /\ started' = started + 1
    /\ call' = [call EXCEPT ![c] = record]

Goto(c, pc) == call' = [call EXCEPT ![c].pc = pc] /\ UNCHANGED started
Return(c)   == call' = [call EXCEPT ![c] = NoCall] /\ UNCHANGED started

\* What a call does for a user who has been suspended meanwhile.
Effect(u) == late' = IF u \in active THEN late ELSE [late EXCEPT ![u] = @ + 1]

\* create_access_token and create_refresh_token.
GivePair(u, second) ==
    /\ issued' = issued \cup {<<u, second>>}
    /\ held' = [held EXCEPT ![u] = second]

\* The token decodes, has the right type and is not on the blacklist.
Accept(c, op, t, other) ==
    /\ <<t.user, t.at>> \in issued /\ <<other.user, other.at>> \in issued
    /\ Decodes(t) /\ ~Blacklisted(t)
    /\ Begin(c, [pc |-> "checked", op |-> op, token |-> t, other |-> other])
    /\ UNCHANGED <<now, active, workspace, issued, held, blacklist, revoked, late, keyVars>>

\* The user is loaded in a transaction of its own; 401 unless active.
LoadUser(c) ==
    /\ call[c].pc = "checked"
    /\ IF call[c].token.user \in active THEN Goto(c, "loaded") ELSE Return(c)
    /\ UNCHANGED <<now, active, workspace, issued, held, blacklist, revoked, late, keyVars>>

-----------------------------------------------------------------------------
(* Handlers                                                                *)

\* login: the workspace is looked up by slug and must be active.
FindWorkspace(c, u) ==
    /\ workspace = "active"
    /\ Begin(c, [NoCall EXCEPT !.pc = "found", !.op = "login",
                               !.token = [NoToken EXCEPT !.user = u]])
    /\ UNCHANGED <<now, active, workspace, issued, held, blacklist, revoked, late, keyVars>>

\* ... then the user, with the right password, must be active.
Login(c) ==
    /\ call[c].pc = "found"
    /\ LET u == call[c].token.user IN
          IF u \in active THEN GivePair(u, Second(now)) ELSE UNCHANGED <<issued, held>>
    /\ Return(c)
    /\ UNCHANGED <<now, active, workspace, blacklist, revoked, late, keyVars>>

\* refresh: any refresh token the client still has, used before or not.
StartRefresh(c, u, at) ==
    LET t == [kind |-> "refresh", user |-> u, at |-> at]
    IN  Accept(c, "refresh", t, t)

\* ... blacklists it ...
Rotate(c) ==
    /\ call[c].pc = "loaded" /\ call[c].op = "refresh"
    /\ blacklist' = BlacklistedFor(call[c].token)
    /\ revoked' = revoked \cup {call[c].token}
    /\ Goto(c, "rotated")
    /\ UNCHANGED <<now, active, workspace, issued, held, late, keyVars>>

\* Variant: the new pair expires with the old one.
IssueSameExpiry(c) ==
    /\ call[c].pc = "rotated"
    /\ GivePair(call[c].token.user, call[c].token.at)
    /\ Effect(call[c].token.user)
    /\ Return(c)
    /\ UNCHANGED <<now, active, workspace, blacklist, revoked, keyVars>>

\* ... and issues a pair, without looking at the user again.
IssueRotated(c) ==
    /\ call[c].pc = "rotated"
    /\ GivePair(call[c].token.user, Second(now))
    /\ Effect(call[c].token.user)
    /\ Return(c)
    /\ UNCHANGED <<now, active, workspace, blacklist, revoked, keyVars>>

\* logout: authenticated by the access token, names a refresh token.
StartLogout(c, u, at, other) ==
    Accept(c, "logout", [kind |-> "access", user |-> u, at |-> at],
                        [kind |-> "refresh", user |-> u, at |-> other])

\* ... blacklists the first, if it still decodes ...
RevokeAccess(c) ==
    /\ call[c].pc = "loaded" /\ call[c].op = "logout"
    /\ IF Decodes(call[c].token)
       THEN /\ blacklist' = BlacklistedFor(call[c].token)
            /\ revoked' = revoked \cup {call[c].token}
       ELSE UNCHANGED <<blacklist, revoked>>
    /\ Goto(c, "half")
    /\ UNCHANGED <<now, active, workspace, issued, held, late, keyVars>>

\* ... then the other.
RevokeRefresh(c) ==
    /\ call[c].pc = "half"
    /\ IF Decodes(call[c].other)
       THEN /\ blacklist' = BlacklistedFor(call[c].other)
            /\ revoked' = revoked \cup {call[c].other}
       ELSE UNCHANGED <<blacklist, revoked>>
    /\ Return(c)
    /\ UNCHANGED <<now, active, workspace, issued, held, late, keyVars>>

\* agent_websocket: an access token that decodes is enough. Neither the blacklist
\* nor is_active is looked at, now or as long as the socket is open.
OpenSocket(c, u, at) ==
    LET t == [kind |-> "access", user |-> u, at |-> at] IN
    /\ <<u, at>> \in issued /\ Decodes(t)
    /\ Begin(c, [pc |-> "listening", op |-> "socket", token |-> t, other |-> t])
    /\ UNCHANGED <<now, active, workspace, issued, held, blacklist, revoked, late, keyVars>>

\* The browser closes it, or the connection is lost.
CloseSocket(c) ==
    /\ call[c].pc = "listening"
    /\ Return(c)
    /\ UNCHANGED <<now, active, workspace, issued, held, blacklist, revoked, late, keyVars>>

\* get_current_user, for any other endpoint; the handler follows when "loaded".
StartUse(c, u, at) ==
    LET t == [kind |-> "access", user |-> u, at |-> at]
    IN  Accept(c, "use", t, t)

-----------------------------------------------------------------------------
(* The developer API key                                                   *)

\* create_api_key: the owner gets the key once; only its hash is stored.
CreateKey(c) ==
    /\ call[c].pc = "loaded" /\ call[c].op = "use"
    /\ key = "none"
    /\ key' = "active"
    /\ Effect(call[c].token.user)
    /\ Return(c)
    /\ UNCHANGED <<now, active, workspace, issued, held, blacklist, revoked, keyLate>>

\* revoke_api_key: "immediately", for requests that are not verified yet.
RevokeKey(c) ==
    /\ call[c].pc = "loaded" /\ call[c].op = "use"
    /\ key = "active"
    /\ key' = "revoked"
    /\ Effect(call[c].token.user)
    /\ Return(c)
    /\ UNCHANGED <<now, active, workspace, issued, held, blacklist, revoked, keyLate>>

\* Variant: a key that exists is as good as an active one.
VerifyAnyKey(c) ==
    /\ key # "none"
    /\ Begin(c, [NoCall EXCEPT !.pc = "verified", !.op = "key"])
    /\ UNCHANGED <<now, active, workspace, issued, held, blacklist, revoked, late, keyVars>>

\* _verify_api_key, in a session of its own; last_used_at follows in another.
VerifyKey(c) ==
    /\ key = "active"
    /\ Begin(c, [NoCall EXCEPT !.pc = "verified", !.op = "key"])
    /\ UNCHANGED <<now, active, workspace, issued, held, blacklist, revoked, late, keyVars>>

\* The public endpoint answers from a third session.
ServeKey(c) ==
    /\ call[c].pc = "verified"
    /\ keyLate' = IF key = "revoked" THEN keyLate + 1 ELSE keyLate
    /\ Return(c)
    /\ UNCHANGED <<now, active, workspace, issued, held, blacklist, revoked, late, key>>

-----------------------------------------------------------------------------
(* The platform operator, and time                                         *)

\* suspend_user (or update_user with is_active); tokens are left alone.
Suspend(u) ==
    /\ u \in active
    /\ active' = active \ {u}
    /\ late' = [late EXCEPT ![u] = 0]
    /\ UNCHANGED <<now, workspace, issued, held, blacklist, call, revoked, started,
                   keyVars>>

\* activate_user, or the superadmin scripts.
Activate(u) ==
    /\ u \notin active
    /\ active' = active \cup {u}
    /\ late' = [late EXCEPT ![u] = 0]
    /\ UNCHANGED <<now, workspace, issued, held, blacklist, call, revoked, started,
                   keyVars>>

\* update_workspace: of the statuses, login looks at "active" only.
SetStatus(status) ==
    /\ workspace # status
    /\ workspace' = status
    /\ UNCHANGED <<now, active, issued, held, blacklist, call, revoked, late,
                   started, keyVars>>

Tick ==
    /\ now < MaxTime
    /\ now' = now + 1
    /\ UNCHANGED <<active, workspace, issued, held, blacklist, call, revoked, late, started,
                   keyVars>>

-----------------------------------------------------------------------------
SessionInit ==
    /\ now = 0
    /\ active = Users
    /\ workspace = "active"
    /\ issued = {}
    /\ held = [u \in Users |-> -1]
    /\ blacklist = [t \in Tokens |-> 0]
    /\ call = [c \in Calls |-> NoCall]
    /\ revoked = {}
    /\ late = [u \in Users |-> 0]
    /\ started = 0
    /\ key \in {"none", "active"}
    /\ keyLate = 0

SessionStep ==
    \/ \E c \in Calls, u \in Users :
          \/ FindWorkspace(c, u)
          \/ \E at \in Seconds : \/ StartRefresh(c, u, at)
                                 \/ StartUse(c, u, at)
                                 \/ OpenSocket(c, u, at)
                                 \/ \E other \in Seconds : StartLogout(c, u, at, other)
    \/ \E c \in Calls : \/ LoadUser(c) \/ Login(c) \/ Rotate(c) \/ IssueRotated(c)
                        \/ RevokeAccess(c) \/ RevokeRefresh(c)
                        \/ CreateKey(c) \/ RevokeKey(c) \/ VerifyKey(c) \/ ServeKey(c)
                        \/ CloseSocket(c)
    \/ \E u \in Users : Suspend(u) \/ Activate(u)
    \/ \E status \in {"active", "suspended"} : SetStatus(status)
    \/ Tick

-----------------------------------------------------------------------------
(* Properties                                                              *)

SessionTypeOK ==
    /\ now \in 0 .. MaxTime
    /\ active \subseteq Users
    /\ workspace \in {"active", "suspended"}
    /\ issued \subseteq Users \X Seconds
    /\ held \in [Users -> Seconds \cup {-1}]
    /\ blacklist \in [Tokens -> Nat]
    /\ call \in [Calls -> [pc : {"idle", "found", "checked", "loaded", "rotated", "half",
                                 "editing", "verified", "listening"},
                           op : {"none", "login", "refresh", "logout", "use", "key", "socket"},
                           token : Tokens, other : Tokens]]
    /\ revoked \subseteq Tokens
    /\ late \in [Users -> Nat]
    /\ started \in 0 .. MaxCalls
    /\ key \in {"none", "active", "revoked"}
    /\ keyLate \in Nat

\* A token taken back by a refresh or a logout still opens a WebSocket, and nothing
\* else: every request that comes in with it is refused until its last second. The
\* blacklist entry lasts whole seconds rounded down, and the decoder accepts the
\* whole second in which the token expires.
RevokedOnlyListens ==
    [][\A c \in Calls :
          /\ call[c].pc = "idle" /\ call'[c].pc \in {"checked", "listening"}
          /\ call'[c].token \in revoked
          => \/ call'[c].op = "socket"
             \/ now + TicksPerSecond > Expiry(call'[c].token) * TicksPerSecond]_sessionVars

\* Whenever the pair a client holds changes, its new refresh token can be used:
\* the rotation never hands out a token it has taken back, unless it hands out
\* the very pair the client had, within the same second.
NewPairWorks ==
    [][\A u \in Users : held'[u] # held[u] =>
          now' >= blacklist'[[kind |-> "refresh", user |-> u, at |-> held'[u]]]]_sessionVars

\* A suspended user's requests have an effect only if they had passed the check
\* of is_active before: no more of them than requests in progress. Of the user's
\* open sockets it says nothing: they hear every event until they are closed.
LateWithinCalls == \A u \in Users : late[u] <= Cardinality(Calls)

\* ... and of the requests under an API key only those that were verified while
\* the request that revoked it was in progress.
RevokedKeyStops == keyLate < Cardinality(Calls)
=============================================================================
