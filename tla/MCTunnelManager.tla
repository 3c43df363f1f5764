-------------------------- MODULE MCTunnelManager --------------------------
(* Small instances of TunnelManager for TLC: two servers, so that a switch  *)
(* and a removal of the other one happen, and two slots, so that a second  *)
(* operation could start beside the first if a guard let it.               *)
EXTENDS TunnelManager, TLC

CONSTANTS t1, t2, s1, s2

MCTunnels == {t1, t2}
MCSlots == {s1, s2}
\* Nothing tells servers or slots apart (used by the runs without liveness).
Interchangeable == Permutations(MCTunnels) \cup Permutations(MCSlots)
=============================================================================
