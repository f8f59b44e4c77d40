---------------------------- MODULE MCDBusLocks ----------------------------
(* Model values for DBusLocks.                                             *)
EXTENDS DBusLocks, TLC

CONSTANTS a1, a2

MCPids == (a1 :> 1) @@ (a2 :> 2)
OtherKills == {k \in Agents \X Agents : k[1] # k[2]}
=============================================================================
