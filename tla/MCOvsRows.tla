----------------------------- MODULE MCOvsRows -----------------------------
(* Model values for OvsRows.                                               *)
EXTENDS OvsRows, TLC

CONSTANTS b1, b2, p1, p2, q1, q2, t1, t2, c1, k1, k2, k3

\* Ports and queues are interchangeable; QoS rows are chosen in a fixed order.
MCSymmetry == Permutations({p1, p2}) \cup Permutations({q1, q2}) \cup Permutations({t1, t2})
=============================================================================
