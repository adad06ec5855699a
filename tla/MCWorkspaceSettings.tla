------------------------ MODULE MCWorkspaceSettings ------------------------
(* One user with two browser tabs, one worker.                              *)
EXTENDS WorkspaceSettings, TLC

CONSTANTS u1, c1, c2, w1

MCSymmetry == Permutations({c1, c2})
=============================================================================
