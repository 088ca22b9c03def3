--------------------------- MODULE MCLocalStore ---------------------------
(* LocalConcurrencyStore on a small instance: two resources with limit 1   *)
(* (a request may name both) and one with limit 2, with four locks, so that *)
(* every limit can be reached and overrun.                                  *)
EXTENDS LocalConcurrencyStore

CONSTANTS r1, r2, r3

MCResource == {r1, r2, r3}
MCLimit == [r \in MCResource |-> IF r = r2 THEN 2 ELSE 1]
=============================================================================
