---------------------------- MODULE MCOvsEffects ----------------------------
(* Model values for OvsEffects.                                            *)
EXTENDS OvsEffects, TLC

CONSTANTS eth0, tap0, int0, r1, r2, x, y, v1, v2

\* Certificates; the columns of a port; the settings of a usual device, of a
\* device without other flags, and of a port of the switch, which OpenFlow
\* may not list.
MCAreas == {{<<"cert">>}, {<<"iface", eth0>>}}
              \cup {{<<"dev", p>>, <<"of", p>>} : p \in {eth0, tap0, int0}}

MCSymmetry == Permutations({r1, r2}) \cup Permutations({x, y})
=============================================================================
