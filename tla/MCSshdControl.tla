--------------------------- MODULE MCSshdControl ---------------------------
(* Model values and small sets for SshdControl.                            *)
EXTENDS SshdControl

CONSTANTS p830, p22, i1, i2

MCPids == 1..3
=============================================================================
