--------------------------- MODULE MCRedisStore ---------------------------
(* RedisConcurrencyStore on a small instance: subjects with limits 1 and 2  *)
(* and four locks, so that both limits can be reached and overrun at once.  *)
EXTENDS RedisConcurrencyStore

CONSTANTS r1, r2

MCResource == {r1, r2}
MCLimit == [r \in MCResource |-> IF r = r1 THEN 1 ELSE 2]
=============================================================================
