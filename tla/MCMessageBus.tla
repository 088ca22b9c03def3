---------------------------- MODULE MCMessageBus ----------------------------
(* An emit to two transports and its retry with the same idempotency key,   *)
(* for a handler on two processes and one that wants every internal copy.   *)
EXTENDS MessageBus, TLC

CONSTANTS p, q, mail, audit, m1, m2

MCMode == [internal |-> "internal", nats |-> "jetstream", redis |-> "stream",
           channel |-> "published"]
MCHomeOf == (mail :> {p, q}) @@ (audit :> {p})
MCListensOn == (mail :> DOMAIN MCMode) @@ (audit :> {"internal"})
MCIdOf == [m \in Message |-> "key"]
MCSenderOf == [m \in Message |-> p]
MCTargetsOf == (m1 :> {"internal", "nats"}) @@ (m2 :> {"redis", "channel"})
=============================================================================
