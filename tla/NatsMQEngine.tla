--------------------------- MODULE NatsMQEngine ---------------------------
(***************************************************************************)
(* The engine of NatsMQ (natsmq/engine/index.ts) on every node of the      *)
(* cluster: one pull consumer shared by the nodes, processMessage for each *)
(* delivery, the Redis concurrency store for its locks, close, and what    *)
(* can go wrong around them.                                               *)
(*                                                                         *)
(* A delivery d = <<m, k>> is the k-th time JetStream hands out message m  *)
(* (msg.info.redeliveryCount = k); processMessage runs once for each, all  *)
(* of them interleaved.  The store is RedisConcurrencyStore; its lock ids  *)
(* are the slots <<d, i>>, the lock delivery d takes for the i-th          *)
(* concurrency of its subscription, and the array "locks" of               *)
(* processMessage is the set of slots of d with a handle.                  *)
(***************************************************************************)
EXTENDS Integers, Sequences, FiniteSets, FiniteSetsExt

CONSTANTS Node, Msg, Key,
          Keys,               (* the lock keys of each message, in order     *)
          Limit,              (* the limit of each key                       *)
          MaxTtl,             (* the ttl of a lock (ttlMs || 60000)          *)
          MaxDeliver,         (* options.max_deliver || 100, as the code has *)
          ConsumerMaxDeliver, (* max_deliver of the consumer on the server   *)
          Garbled,            (* messages whose data is not JSON             *)
          MayClose,           (* the nodes somebody may call close on        *)
          Faults,             (* the kinds of fault that may occur, each once *)
          MaxFaults,          (* how many of them occur in one behaviour     *)
          TtlCoversHandler,   (* does no lock expire before its handler ends? *)
          Absent

Delivery == Msg \X (1..ConsumerMaxDeliver)
Slots == UNION {{d} \X DOMAIN Keys[d[1]] : d \in Delivery}

ASSUME EngineAssumption ==
       /\ IsFiniteSet(Msg)
       /\ Keys \in [Msg -> Seq(Key)]
       /\ Limit \in [Key -> Nat \ {0}]
       /\ MaxTtl \in Nat \ {0}
       /\ Absent \notin Node \cup Key \cup [key : Key, left : 0..MaxTtl]
       /\ MaxDeliver \in Nat \ {0} /\ ConsumerMaxDeliver \in Nat \ {0}
       /\ Garbled \subseteq Msg
       /\ MayClose \subseteq Node
       /\ Faults \subseteq {"crash", "stall", "store", "metrics", "dls"}
       /\ MaxFaults \in Nat
       /\ TtlCoversHandler \in BOOLEAN

VARIABLES zset, handle,  (* the store                                        *)
          js,            (* where JetStream has each message                 *)
          delivered,     (* how often it was delivered                       *)
          status,        (* of the engine on each node                       *)
          pc,            (* where processMessage is for each delivery        *)
          at,            (* the node it runs on                              *)
          why,           (* the error handleFailure was called with          *)
          effects,       (* how often a handler of the message has returned  *)
          dead,          (* the messages on the dead letter subject          *)
          faults         (* the faults that have occurred                    *)

store == <<zset, handle>>
vars == <<zset, handle, js, delivered, status, pc, at, why, effects, dead, faults>>

Store == INSTANCE RedisConcurrencyStore
           WITH Lock <- Slots, Resource <- Key, LateExtend <- FALSE

MsgState == {"unsent", "ready", "sent", "acked", "termed", "exhausted"}
Status == {"up", "closing", "deaf", "closed", "down"}
Place == {"idle", "locking", "unwinding", "backoff", "aborting", "handling",
          "handled", "recording", "failing", "terming", "releasing", "done"}

Init == /\ Store!Init
        /\ js = [m \in Msg |-> "unsent"]
        /\ delivered = [m \in Msg |-> 0]
        /\ status = [n \in Node |-> "up"]
        /\ pc = [d \in Delivery |-> "idle"]
        /\ at = [d \in Delivery |-> Absent]
        /\ why = [d \in Delivery |-> "none"]
        /\ effects = [m \in Msg |-> 0]
        /\ dead = {}
        /\ faults = {}

(* One of the faults allowed occurs.                                        *)
Strike(f) == /\ f \in Faults \ faults
             /\ Cardinality(faults) < MaxFaults
             /\ faults' = faults \cup {f}

KeysOf(d) == Keys[d[1]]

(* The locks array: the concurrencies d has a lock for.                     *)
locks(d) == {i \in DOMAIN KeysOf(d) : handle[<<d, i>>] # Absent}

Connected(n) == n \in {k \in Node : status[k] \in {"up", "closing", "deaf"}}

(* The places where nothing has failed yet for d.                           *)
Running == {"idle", "locking", "unwinding", "backoff", "handling", "handled", "recording"}

(* processMessage has begun for d, is not over, and its node is alive.      *)
Working(d) == pc[d] \notin {"idle", "done"}

(* d goes on at p.                                                          *)
Goto(d, p) == /\ pc' = [pc EXCEPT ![d] = p]
              /\ at' = [at EXCEPT ![d] = IF p = "done" THEN Absent ELSE @]

(* Where the code goes when the locks taken so far have been released.      *)
AfterRelease == [unwinding |-> "backoff", aborting |-> "failing", releasing |-> "done"]

(* The loop that releases every lock of d; without a lock it is no step.    *)
ReleaseLoop(d, p) == Goto(d, IF locks(d) = {} THEN AfterRelease[p] ELSE p)
-----------------------------------------------------------------------------
(***************************************************************************)
(* JetStream, as far as the engine sees it.  An answer of a worker whose   *)
(* connection is closed goes nowhere; an ack counts whichever delivery it  *)
(* is for; a nak returns the message for another delivery if there is one  *)
(* left, and otherwise the server drops it without a word.                 *)
(***************************************************************************)
Requeued(m) == IF delivered[m] >= ConsumerMaxDeliver THEN "exhausted" ELSE "ready"

ack(d) == js' = [js EXCEPT ![d[1]] =
            IF Connected(at[d]) /\ @ \in {"ready", "sent"} THEN "acked" ELSE @]

nak(d) == js' = [js EXCEPT ![d[1]] =
            IF Connected(at[d]) /\ @ = "sent" THEN Requeued(d[1]) ELSE @]

term(d) == js' = [js EXCEPT ![d[1]] =
             IF Connected(at[d]) /\ @ \in {"ready", "sent"} THEN "termed" ELSE @]

publish(m) ==
    /\ js[m] = "unsent"
    /\ \E n \in Node : status[n] = "up"
    /\ js' = [js EXCEPT ![m] = "ready"]
    /\ UNCHANGED <<store, delivered, status, pc, at, why, effects, dead, faults>>

(* The server sends m to the consume loop of node n.                        *)
SentTo(m, n) ==
    /\ js[m] = "ready"
    /\ delivered' = [delivered EXCEPT ![m] = @ + 1]

(* ack_wait passes: no connected worker is left to send working(), or there *)
(* is one, and its event loop or its connection was stuck.                  *)
AckWaitExpires(m) ==
    LET d == <<m, delivered[m]>> IN
    /\ js[m] = "sent"
    /\ IF Connected(at[d]) THEN Strike("stall") ELSE UNCHANGED faults
    /\ js' = [js EXCEPT ![m] = Requeued(m)]
    /\ UNCHANGED <<store, delivered, status, pc, at, why, effects, dead>>
-----------------------------------------------------------------------------
(***************************************************************************)
(* The consume loop.                                                       *)
(***************************************************************************)
Deliver(m, n) ==
    LET d == <<m, delivered[m] + 1>> IN
    /\ status[n] = "up"
    /\ SentTo(m, n)
    /\ js' = [js EXCEPT ![m] = "sent"]
    /\ pc' = [pc EXCEPT ![d] = IF KeysOf(d) = <<>> THEN "handling" ELSE "locking"]
    /\ at' = [at EXCEPT ![d] = n]
    /\ UNCHANGED <<store, status, why, effects, dead, faults>>

(* While close waits, the loop naks the next message and ends; what the     *)
(* server sends to this pull after that is read by nobody.                  *)
DeliverWhileClosing(m, n) ==
    LET d == <<m, delivered[m] + 1>> IN
    /\ SentTo(m, n)
    /\ \/ /\ status[n] = "closing"
          /\ status' = [status EXCEPT ![n] = "deaf"]
          /\ js' = [js EXCEPT ![m] =
                      IF d[2] >= ConsumerMaxDeliver THEN "exhausted" ELSE "ready"]
       \/ /\ status[n] = "deaf"
          /\ js' = [js EXCEPT ![m] = "sent"]
          /\ UNCHANGED status
    /\ pc' = [pc EXCEPT ![d] = "done"]
    /\ UNCHANGED <<store, at, why, effects, dead, faults>>
-----------------------------------------------------------------------------
(***************************************************************************)
(* processMessage: the locks, one store call at a time.                    *)
(***************************************************************************)
NextSlot(d) == <<d, Cardinality(locks(d)) + 1>>
NextKey(d) == KeysOf(d)[Cardinality(locks(d)) + 1]

(* Faulty: the handler runs as soon as the first lock is there.             *)
AllLockedAfterFirst(d) == TRUE

(* The lock being granted is the last one d needs.                          *)
AllLocked(d) == Cardinality(locks(d)) + 1 = Len(KeysOf(d))

AcquireGranted(d) ==
    /\ pc[d] = "locking"
    /\ Store!acquire(NextSlot(d), NextKey(d), MaxTtl)
    /\ Goto(d, IF AllLocked(d) THEN "handling" ELSE "locking")
    /\ UNCHANGED <<js, delivered, status, why, effects, dead, faults>>

(* Faulty: the locks already taken are kept while the worker waits.         *)
AcquireRefusedKeeping(d) ==
    /\ pc[d] = "locking"
    /\ Store!acquireRefused(NextKey(d))
    /\ Goto(d, "backoff")
    /\ UNCHANGED <<js, delivered, status, why, effects, dead, faults>>

AcquireRefused(d) ==
    /\ pc[d] = "locking"
    /\ Store!acquireRefused(NextKey(d))
    /\ ReleaseLoop(d, "unwinding")
    /\ UNCHANGED <<js, delivered, status, why, effects, dead, faults>>

(* Faulty: an error of the store is taken for a refusal.                    *)
AcquireThrowsRetrying(d) ==
    /\ pc[d] = "locking"
    /\ Strike("store")
    /\ why' = [why EXCEPT ![d] = "store"]
    /\ ReleaseLoop(d, "unwinding")
    /\ UNCHANGED <<store, js, delivered, status, effects, dead>>

(* store.acquire throws: Redis did nothing, or its reply was lost.          *)
AcquireThrows(d) ==
    /\ pc[d] = "locking"
    /\ Strike("store")
    /\ UNCHANGED store \/ Store!acquireReplyLost(NextSlot(d), NextKey(d), MaxTtl)
    /\ why' = [why EXCEPT ![d] = "store"]
    /\ ReleaseLoop(d, "aborting")
    /\ UNCHANGED <<js, delivered, status, effects, dead>>

(* store.release of the next lock, in the loop that unwinds an attempt,     *)
(* aborts after an error or ends a routine.                                 *)
Release(d) ==
    LET l == <<d, Min(locks(d))>> IN
    /\ pc[d] \in DOMAIN AfterRelease
    /\ Store!release(l)
    /\ handle' = [handle EXCEPT ![l] = Absent]
    /\ Goto(d, IF Cardinality(locks(d)) = 1 THEN AfterRelease[pc[d]] ELSE pc[d])
    /\ UNCHANGED <<js, delivered, status, why, effects, dead, faults>>

(* store.release throws, with or without effect.  While unwinding, the      *)
(* catch releases all locks again; elsewhere processMessage rejects and     *)
(* the locks not released yet are forgotten.                                *)
ReleaseThrows(d) ==
    LET l == <<d, Min(locks(d))>> IN
    /\ pc[d] \in DOMAIN AfterRelease
    /\ Strike("store")
    /\ zset' \in {zset, [zset EXCEPT ![l] = Absent]}
    /\ IF pc[d] = "unwinding"
         THEN /\ Goto(d, "aborting")
              /\ why' = [why EXCEPT ![d] = "store"]
              /\ UNCHANGED handle
         ELSE /\ Goto(d, "done")
              /\ handle' = [s \in Slots |-> IF s[1] = d THEN Absent ELSE handle[s]]
              /\ UNCHANGED why
    /\ UNCHANGED <<js, delivered, status, effects, dead>>

(* The jittered delay is over and the 30 seconds are not.                   *)
Retry(d) ==
    /\ pc[d] = "backoff"
    /\ Goto(d, "locking")
    /\ handle' = [s \in Slots |-> IF s[1] = d THEN Absent ELSE handle[s]]
    /\ UNCHANGED <<zset, js, delivered, status, why, effects, dead, faults>>

(* Faulty: the loop is left only with the locks.                            *)
GiveUpNever(d) == FALSE /\ UNCHANGED vars

(* The 30 seconds are over.                                                 *)
GiveUp(d) ==
    /\ pc[d] = "backoff"
    /\ nak(d)
    /\ Goto(d, "done")
    /\ UNCHANGED <<store, delivered, status, why, effects, dead, faults>>
-----------------------------------------------------------------------------
(***************************************************************************)
(* routine and handleFailure.  A handler that does not throw has had its   *)
(* effect before its message is acknowledged.                              *)
(***************************************************************************)
HandlerReturns(d) ==
    /\ pc[d] = "handling"
    /\ d[1] \notin Garbled
    /\ effects' = [effects EXCEPT ![d[1]] = @ + 1]
    /\ Goto(d, "handled")
    /\ UNCHANGED <<store, js, delivered, status, why, dead, faults>>

(* decode, parse or the handler throws.                                     *)
HandlerThrows(d) ==
    /\ pc[d] = "handling"
    /\ why' = [why EXCEPT ![d] = "handler"]
    /\ Goto(d, "failing")
    /\ UNCHANGED <<store, js, delivered, status, effects, dead, faults>>

(* Faulty: a success is not acknowledged.                                   *)
AckForgotten(d) ==
    /\ pc[d] = "handled"
    /\ Goto(d, "recording")
    /\ UNCHANGED <<store, js, delivered, status, why, effects, dead, faults>>

Ack(d) ==
    /\ pc[d] = "handled"
    /\ ack(d)
    /\ Goto(d, "recording")
    /\ UNCHANGED <<store, delivered, status, why, effects, dead, faults>>

(* recordProcessingSuccess; what it throws makes the acknowledged message a *)
(* failure.                                                                 *)
RecordSuccess(d) ==
    /\ pc[d] = "recording"
    /\ \/ /\ ReleaseLoop(d, "releasing")
          /\ UNCHANGED <<why, faults>>
       \/ /\ Strike("metrics")
          /\ Goto(d, "failing")
          /\ why' = [why EXCEPT ![d] = "metrics"]
    /\ UNCHANGED <<store, js, delivered, status, effects, dead>>

(* Where handleFailure returns, or throws, to: the catch of the lock loop   *)
(* has nothing left to do, routine has its locks to release.                *)
LeaveFailure(d) == IF why[d] = "store" THEN Goto(d, "done") ELSE ReleaseLoop(d, "releasing")

(* Faulty: one delivery more than there is.                                 *)
ExhaustedOffByOne(d) == d[2] > MaxDeliver

(* redeliveries >= maxDeliver                                               *)
Exhausted(d) == d[2] >= MaxDeliver

(* nak and term do nothing once d has been acknowledged (didAck).           *)
Unanswered(d) == why[d] # "metrics"

(* recordProcessingError throws: no nak, no dead letter.                    *)
FailureThrows(d) ==
    /\ pc[d] = "failing"
    /\ Strike("metrics")
    /\ LeaveFailure(d)
    /\ UNCHANGED <<store, js, delivered, status, why, effects, dead>>

FailureNaks(d) ==
    /\ pc[d] = "failing"
    /\ ~Exhausted(d)
    /\ IF Unanswered(d) THEN nak(d) ELSE UNCHANGED js
    /\ LeaveFailure(d)
    /\ UNCHANGED <<store, delivered, status, why, effects, dead, faults>>

(* The publish to the dead letter subject.  What decode or publish throws   *)
(* is swallowed; a publish that times out may have been stored.             *)
DeadLetter(d) ==
    /\ pc[d] = "failing"
    /\ Exhausted(d)
    /\ \/ /\ dead' = IF d[1] \in Garbled \/ ~Connected(at[d])
                       THEN dead ELSE dead \cup {d[1]}
          /\ UNCHANGED faults
       \/ /\ Strike("dls")
          /\ dead' \in {dead, dead \cup ({d[1]} \ Garbled)}
    /\ Goto(d, "terming")
    /\ UNCHANGED <<store, js, delivered, status, why, effects>>

Terminate(d) ==
    /\ pc[d] = "terming"
    /\ IF Unanswered(d) THEN term(d) ELSE UNCHANGED js
    /\ LeaveFailure(d)
    /\ UNCHANGED <<store, delivered, status, why, effects, dead, faults>>
-----------------------------------------------------------------------------
(***************************************************************************)
(* close, and nodes that die.                                              *)
(***************************************************************************)
BeginClose(n) ==
    /\ n \in MayClose
    /\ status[n] = "up"
    /\ status' = [status EXCEPT ![n] = "closing"]
    /\ UNCHANGED <<store, js, delivered, pc, at, why, effects, dead, faults>>

EndClose(n) ==
    /\ status[n] \in {"closing", "deaf"}
    /\ status' = [status EXCEPT ![n] = "closed"]
    /\ UNCHANGED <<store, js, delivered, pc, at, why, effects, dead, faults>>

(* Faulty: the connection is closed without waiting.                        *)
CloseAtOnce(n) == EndClose(n)

(* getGlobalActiveCount returned 0.                                         *)
CloseDrained(n) == Store!getGlobalActiveCount = 0 /\ EndClose(n)

(* Faulty: close waits as long as it takes.                                 *)
CloseWaitsOn(n) == FALSE /\ EndClose(n)

(* The 50 cycles are over.                                                  *)
CloseGivesUp(n) == Store!getGlobalActiveCount > 0 /\ EndClose(n)

(* The process dies: its workers are gone, its locks are left in Redis.     *)
Crash(n) ==
    LET lost == {d \in Delivery : at[d] = n} IN
    /\ status[n] \in {"up", "closing", "deaf"}
    /\ Strike("crash")
    /\ status' = [status EXCEPT ![n] = "down"]
    /\ pc' = [d \in Delivery |-> IF d \in lost THEN "done" ELSE pc[d]]
    /\ at' = [d \in Delivery |-> IF d \in lost THEN Absent ELSE at[d]]
    /\ handle' = [s \in Slots |-> IF s[1] \in lost THEN Absent ELSE handle[s]]
    /\ UNCHANGED <<zset, js, delivered, why, effects, dead>>

Restart(n) ==
    /\ status[n] = "down"
    /\ status' = [status EXCEPT ![n] = "up"]
    /\ UNCHANGED <<store, js, delivered, pc, at, why, effects, dead, faults>>

(* Time passes in Redis.  Where the ttl covers the handlers, a lock whose   *)
(* owner is still at work does not run out.                                 *)
Tick ==
    /\ \E l \in Slots : Store!Live(l)
    /\ TtlCoversHandler =>
         \A l \in Slots : Store!Live(l) /\ Working(l[1]) => zset[l].left > 1
    /\ Store!Tick
    /\ UNCHANGED <<js, delivered, status, pc, at, why, effects, dead, faults>>

(* Every message published is settled and nobody is at work: all may stop.  *)
Settled == /\ \A m \in Msg : js[m] \notin {"ready", "sent"}
           /\ \A d \in Delivery : ~Working(d)

Rest == Settled /\ UNCHANGED vars
-----------------------------------------------------------------------------
(* A step of processMessage in which nothing fails outside the handler.     *)
Work(d) == \/ AcquireGranted(d) \/ AcquireRefused(d) \/ Release(d)
           \/ Retry(d) \/ GiveUp(d)
           \/ HandlerReturns(d) \/ HandlerThrows(d)
           \/ Ack(d) \/ RecordSuccess(d)
           \/ FailureNaks(d) \/ DeadLetter(d) \/ Terminate(d)

Next == \/ \E m \in Msg : publish(m) \/ AckWaitExpires(m)
        \/ \E m \in Msg, n \in Node : Deliver(m, n) \/ DeliverWhileClosing(m, n)
        \/ \E d \in Delivery :
              Work(d) \/ AcquireThrows(d) \/ ReleaseThrows(d) \/ FailureThrows(d)
        \/ \E n \in Node : \/ BeginClose(n) \/ CloseDrained(n) \/ CloseGivesUp(n)
                           \/ Crash(n) \/ Restart(n)
        \/ Tick
        \/ Rest

(* Handlers return or throw, so do the calls of the engine, close counts    *)
(* its cycles, a dead process is started again, JetStream delivers and its  *)
(* ack_wait expires.  The lock loop may go round many times, not for ever:  *)
(* its clock runs, whatever the store answers, hence SF.                    *)
Fairness ==
    /\ \A d \in Delivery : WF_vars(Work(d)) /\ SF_vars(GiveUp(d))
    /\ \A m \in Msg :
          /\ WF_vars(\E n \in Node : Deliver(m, n))
          /\ WF_vars(AckWaitExpires(m))
    /\ \A n \in Node :
          WF_vars(CloseDrained(n) \/ CloseGivesUp(n)) /\ WF_vars(Restart(n))
    /\ WF_vars(Tick)

Spec == Init /\ [][Next]_vars /\ Fairness
-----------------------------------------------------------------------------
TypeOK == /\ Store!TypeOK
          /\ js \in [Msg -> MsgState]
          /\ delivered \in [Msg -> 0..ConsumerMaxDeliver]
          /\ status \in [Node -> Status]
          /\ pc \in [Delivery -> Place]
          /\ at \in [Delivery -> Node \cup {Absent}]
          /\ \A d \in Delivery : Working(d) <=> at[d] # Absent
          /\ why \in [Delivery -> {"none", "handler", "store", "metrics"}]
          /\ \A d \in Delivery : pc[d] \in Running => why[d] = "none"
          /\ effects \in [Msg -> Nat]
          /\ dead \subseteq Msg
          /\ faults \subseteq Faults

(* No subject is processed by more than N workers across the cluster        *)
(* (docs/concurrency.md:3): handlers that run on any node, for any message, *)
(* redeliveries and workers cut off by close included.                      *)
Handlers(r) == {d \in Delivery :
                  pc[d] = "handling" /\ \E i \in DOMAIN KeysOf(d) : KeysOf(d)[i] = r}

AtMostNWorkers == \A r \in Key : Cardinality(Handlers(r)) <= Limit[r]

(* As long as no process died and no call of the store failed, whoever      *)
(* holds no lock object has no member in Redis: a worker that waits for a   *)
(* key, or is done, blocks nobody.                                          *)
NoLeakedLock ==
    faults \cap {"crash", "store"} = {} =>
      \A l \in Slots : handle[l] = Absent \/ pc[l[1]] \in {"idle", "backoff", "done"}
                         => ~Store!Live(l)

(* A handler is run to its end more than once for a message only if a       *)
(* worker was cut off from JetStream between its effect and its ack.        *)
RepeatsOnlyIfCutOff ==
    \A m \in Msg : effects[m] > 1 => \/ faults \cap {"crash", "stall"} # {}
                                     \/ \E n \in Node : status[n] = "closed"

(* A message whose handler failed on the last delivery is on the dead       *)
(* letter subject and off the consumer (docs/natsmq.md:155-158) unless the  *)
(* node was cut off, its metrics or the publish failed, or it is no JSON.   *)
PoisonDeadLettered ==
    \A d \in Delivery :
       \/ d[2] # ConsumerMaxDeliver \/ pc[d] # "done" \/ why[d] # "handler"
       \/ faults \cap {"crash", "metrics", "dls"} # {}
       \/ \E n \in Node : status[n] = "closed"
       \/ d[1] \in Garbled
       \/ d[1] \in dead /\ js[d[1]] \in {"termed", "acked", "exhausted"}

(* close that did not run out of patience cuts off no handler that runs     *)
(* under a lock (the locks of this node are counted with all the others).   *)
CloseWaitsForHandlers ==
    [][\A n \in Node : CloseDrained(n) =>
          \A d \in Delivery : at[d] = n /\ KeysOf(d) # <<>> => pc[d] # "handling"]_vars

(* Every message that is published is settled: acknowledged, terminated, or *)
(* dropped by the server.                                                   *)
EventuallySettled ==
    \A m \in Msg : js[m] # "unsent" ~> js[m] \in {"acked", "termed", "exhausted"}

(* close ends, whatever members are left in the store.                      *)
CloseEnds == \A n \in Node : status[n] = "closing" ~> status[n] \in {"closed", "down", "up"}
=============================================================================
