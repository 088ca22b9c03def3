----------------------------- MODULE MCRedlock -----------------------------
(* Two callers that want one resource, on three servers.  One retries, the  *)
(* other extends its lock.                                                  *)
EXTENDS Redlock, TLC
CONSTANTS a, b, x, k1, k2, k3
MCResources == [c \in Caller |-> Resource]
MCRetryCount == (a :> 1) @@ (b :> 0)
MCSymmetry == Permutations(Client)
=============================================================================
