--------------------------- MODULE MCAgentSockets ---------------------------
(* Three tabs of two agents, two of them connected, and a request.          *)
EXTENDS AgentSockets, TLC

CONSTANTS t1, t2, t3, q1, u1, u2

MCUserOf == (t1 :> u1) @@ (t2 :> u2) @@ (t3 :> u1)

MCAtStart == <<t1, t2>>
=============================================================================
