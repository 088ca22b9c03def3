-------------------------- MODULE LeaseSemaphore --------------------------
(***************************************************************************)
(* What a concurrency store of NatsMQ promises its callers                 *)
(* (IConcurrencyStore, docs/concurrency.md): a lock is a lease on some     *)
(* resources, and no resource is ever under more unexpired leases than its *)
(* limit.  A lease ends when its owner releases it, when its time to live  *)
(* runs out, or when the store is closed; the promise does not say which.  *)
(* LocalConcurrencyStore and RedisConcurrencyStore implement this module.  *)
(***************************************************************************)
EXTENDS Naturals, FiniteSets

CONSTANTS Lock,      (* the identities of locks (ILock.value)                *)
          Resource,  (* the resources (lock keys) locks are taken on         *)
          Limit      (* the limit the callers of each resource pass          *)

(* What the proofs about the constants rest on; the stores that implement   *)
(* this module assume it of theirs.  A limit is options.limit || 1.         *)
SemaphoreConstants == /\ IsFiniteSet(Lock)
                      /\ Limit \in [Resource -> Nat \ {0}]

VARIABLE leases      (* the resources on which each lock is an unexpired lease *)

Holders(r) == {l \in Lock : r \in leases[l]}

TypeOK == leases \in [Lock -> SUBSET Resource]

(* No resource is under more unexpired leases than its limit.              *)
LimitRespected == \A r \in Resource : Cardinality(Holders(r)) <= Limit[r]
-----------------------------------------------------------------------------
Init == leases = [l \in Lock |-> {}]

(* A lock that is no lease becomes one on R: every resource of R has room.  *)
Grant(l, R) ==
    /\ leases[l] = {}
    /\ \A r \in R : Cardinality(Holders(r)) < Limit[r]
    /\ leases' = [leases EXCEPT ![l] = R]

(* The leases of the locks in S end.                                        *)
End(S) == leases' = [l \in Lock |-> IF l \in S THEN {} ELSE leases[l]]

Next == \/ \E l \in Lock, R \in SUBSET Resource : Grant(l, R)
        \/ \E S \in SUBSET Lock : End(S)

Spec == Init /\ [][Next]_leases
=============================================================================
