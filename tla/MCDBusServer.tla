---------------------------- MODULE MCDBusServer ----------------------------
(* Model values for DBusServer.                                            *)
EXTENDS DBusServer, TLC

CONSTANTS a1, a2

MCPids == (a1 :> 1) @@ (a2 :> 2)

AnyKills == Agents \X Agents
=============================================================================
