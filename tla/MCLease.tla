------------------------------ MODULE MCLease ------------------------------
(* Two callers of using on a resource of limit 1.                           *)
EXTENDS LeaseExtension

CONSTANTS u1, u2, r

AllOnOne == [u \in Caller |-> r]
LimitOne == [x \in Resource |-> 1]
=============================================================================
