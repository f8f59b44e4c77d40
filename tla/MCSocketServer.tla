--------------------------- MODULE MCSocketServer ---------------------------
(* Model values for SocketServer.                                          *)
EXTENDS SocketServer, TLC

CONSTANTS a1, a2, a3

MCPids == (a1 :> 1) @@ (a2 :> 2) @@ (a3 :> 3)

\* a3 is started once a1 is gone and gets its pid.
ReusedPids == (a1 :> 1) @@ (a2 :> 2) @@ (a3 :> 1)

\* The pid of a1 does not fit (PidMod = 4): what is left of it is that of a2.
WidePids == (a1 :> 6) @@ (a2 :> 2) @@ (a3 :> 3)
=============================================================================
