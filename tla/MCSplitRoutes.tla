--------------------------- MODULE MCSplitRoutes ---------------------------
(* Two addresses that names resolve to and the tunnel's DNS, with the       *)
(* symmetry TLC may use: nothing tells the two, or two queries, apart.      *)
EXTENDS SplitRoutes, TLC

CONSTANTS a, b, d, q1, q2

Alike == Permutations({a, b}) \cup Permutations({q1, q2})
=============================================================================
