----------------------------- MODULE MCEngine -----------------------------
(* NatsMQEngine on small instances: two nodes, one of which may close, and  *)
(* messages whose subscriptions take the keys a and b in opposite orders.   *)
EXTENDS NatsMQEngine

CONSTANTS m1, m2, a, b, n1, n2

MCMsg == {m1, m2}
MCNode == {n1, n2}
MCKey == {a, b}
MCKeys == [m \in MCMsg |-> IF m = m1 THEN <<a, b>> ELSE <<b, a>>]

(* Two concurrencies of m1 resolve to one key of limit 1: it is never locked. *)
MCSameKey == [m \in MCMsg |-> IF m = m1 THEN <<a, a>> ELSE <<a>>]

MCLimit == [r \in MCKey |-> 1]
=============================================================================
