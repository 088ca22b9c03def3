------------------------ MODULE NatsMQEngine_proofs ------------------------
(***************************************************************************)
(* For every number of nodes, messages, keys and deliveries, with any      *)
(* faults and with nodes that close or die at any point.  As long as no    *)
(* lock expires before its handler ends, no subject is processed by more   *)
(* workers than its limit, and a close that waits cuts off no handler      *)
(* under a lock.  Whatever the ttl: a message that fails to the last is    *)
(* dead lettered, a handler's effect is repeated only after something cut  *)
(* a worker off, and no worker leaves a lock behind unless the store       *)
(* failed or a process died.                                               *)
(***************************************************************************)
EXTENDS NatsMQEngine, FiniteSetTheorems, TLAPS

(* A slot is a delivery and the position of one of its message's keys.      *)
LEMMA SlotFacts ==
  /\ \A l \in Slots : /\ l[1] \in Delivery
                      /\ l[2] \in DOMAIN KeysOf(l[1])
                      /\ l = <<l[1], l[2]>>
  /\ \A d \in Delivery : \A i \in DOMAIN KeysOf(d) : <<d, i>> \in Slots
BY DEF Slots, KeysOf

LEMMA KeyFacts ==
  ASSUME NEW d \in Delivery
  PROVE  /\ KeysOf(d) \in Seq(Key)
         /\ Len(KeysOf(d)) \in Nat
         /\ DOMAIN KeysOf(d) = 1..Len(KeysOf(d))
BY EngineAssumption DEF Delivery, KeysOf

LEMMA SlotsFinite == IsFiniteSet(Slots)
<1> DEFINE f == [d \in Delivery |-> {d} \X DOMAIN Keys[d[1]]]
           T == {f[d] : d \in Delivery}
<1>1. IsFiniteSet(Delivery)
  <2>1. IsFiniteSet(1..ConsumerMaxDeliver)
    <3>1. 1 \in Int /\ ConsumerMaxDeliver \in Int
      BY EngineAssumption
    <3>2. QED
      BY <3>1, FS_Interval
  <2>2. QED
    BY <2>1, EngineAssumption, FS_Product DEF Delivery
<1>2. IsFiniteSet(T)
  <2>1. f \in Surjection(Delivery, T)
    BY DEF Surjection
  <2>2. QED
    BY <1>1, <2>1, FS_Surjection
<1>3. \A S \in T : IsFiniteSet(S)
  <2> SUFFICES ASSUME NEW d \in Delivery
               PROVE  IsFiniteSet({d} \X DOMAIN Keys[d[1]])
    OBVIOUS
  <2>1. IsFiniteSet(DOMAIN Keys[d[1]])
    BY KeyFacts, FS_Interval DEF KeysOf
  <2>2. IsFiniteSet({d})
    BY FS_Singleton
  <2>3. QED
    BY <2>1, <2>2, FS_Product
<1>4. IsFiniteSet(UNION T)
  BY <1>2, <1>3, FS_UNION
<1>5. UNION T = Slots
  BY DEF Slots
<1>6. QED
  BY <1>4, <1>5

(* The store's cardinality is the usual one.                                *)
LEMMA StoreCardinality == \A S : Store!Cardinality(S) = Cardinality(S)
BY DEF Store!Cardinality, Cardinality
-----------------------------------------------------------------------------
(***************************************************************************)
(* The inductive invariant.                                                *)
(***************************************************************************)
(* A message JetStream may still send has a delivery left.                  *)
DeliveriesLeft == \A m \in Msg :
    js[m] \in {"unsent", "ready"} => delivered[m] < ConsumerMaxDeliver

(* Nothing happens for a delivery before it is made.                        *)
FutureIdle == \A d \in Delivery : d[2] > delivered[d[1]] => pc[d] = "idle"

(* A worker that has not begun holds no lock.                               *)
IdleHoldsNone == \A d \in Delivery : pc[d] = "idle" => locks(d) = {}

(* Only a message with concurrencies goes through the lock loop.            *)
KeysToLock == \A d \in Delivery :
    pc[d] \in {"locking", "unwinding", "backoff"} => Len(KeysOf(d)) > 0

(* The lock loop takes the locks in the order of the concurrencies.         *)
LocksInOrder == \A d \in Delivery : pc[d] = "locking" =>
    \E k \in 0..(Len(KeysOf(d)) - 1) : locks(d) = 1..k

(* A handler runs only under all its locks.                                 *)
AllLocksHeld == \A d \in Delivery : pc[d] = "handling" => locks(d) = DOMAIN KeysOf(d)

(* A lock that is held while others are taken, or while the handler runs,   *)
(* is a member of the set of its key, unexpired if the ttl is long enough.  *)
LocksLive == TtlCoversHandler => \A d \in Delivery : pc[d] \in {"locking", "handling"} =>
    \A i \in locks(d) : Store!Live(<<d, i>>) /\ zset[<<d, i>>].key = KeysOf(d)[i]

TypeInv == TypeOK /\ DeliveriesLeft /\ FutureIdle
LockInv == IdleHoldsNone /\ KeysToLock /\ LocksInOrder /\ AllLocksHeld /\ LocksLive
EngineInv == TypeInv /\ LockInv /\ Store!LimitRespected
-----------------------------------------------------------------------------
(* With its locks in order, a worker in the lock loop asks for a slot and a *)
(* key of its own that it does not have.                                    *)
LEMMA NextFacts ==
  ASSUME TypeInv, LocksInOrder, NEW d \in Delivery, pc[d] = "locking"
  PROVE  /\ Cardinality(locks(d)) + 1 \in DOMAIN KeysOf(d)
         /\ locks(d) = 1..Cardinality(locks(d))
         /\ Cardinality(locks(d)) \in Nat
         /\ NextSlot(d) \in Slots
         /\ NextKey(d) \in Key
<1>1. PICK k \in 0..(Len(KeysOf(d)) - 1) : locks(d) = 1..k
  BY DEF LocksInOrder
<1>2. k \in Nat /\ k + 1 \in DOMAIN KeysOf(d)
  BY KeyFacts
<1>3. Cardinality(1..k) = k
  <2>1. 1 \in Int /\ k \in Int
    BY <1>2
  <2>2. Cardinality(1..k) = IF 1 > k THEN 0 ELSE k - 1 + 1
    BY <2>1, FS_Interval
  <2>3. QED
    BY <1>2, <2>2
<1>4. Cardinality(locks(d)) = k
  BY <1>1, <1>3
<1>5. KeysOf(d)[k + 1] \in Key
  BY <1>2, KeyFacts
<1>6. <<d, k + 1>> \in Slots
  BY <1>2, SlotFacts
<1>7. QED
  BY <1>1, <1>2, <1>4, <1>5, <1>6 DEF NextSlot, NextKey

(* What the acquire script does to the members when it adds one.            *)
LEMMA AddFacts ==
  ASSUME Store!TypeOK, NEW l \in Slots, NEW r \in Key, NEW limit,
         Store!ScriptAdds(l, r, MaxTtl, limit)
  PROVE  /\ zset' \in [Slots -> Store!Member \cup {Absent}]
         /\ zset'[l] = [key |-> r, left |-> MaxTtl]
         /\ zset'[l] # Absent
         /\ \A s \in Slots : s # l /\ Store!Live(s) => zset'[s] = zset[s]
         /\ \A s \in Slots : s # l => zset'[s] \in {Absent, zset[s]}
<1>1. [key |-> r, left |-> MaxTtl] \in Store!Member
  BY EngineAssumption DEF Store!Member
<1>2. [key |-> r, left |-> MaxTtl] # Absent
  BY <1>1, EngineAssumption DEF Store!Member
<1>3. Store!Purged(r) \in [Slots -> Store!Member \cup {Absent}]
  BY DEF Store!Purged, Store!TypeOK
<1>4. \A s \in Slots : /\ Store!Live(s) => Store!Purged(r)[s] = zset[s]
                       /\ Store!Purged(r)[s] \in {Absent, zset[s]}
  BY DEF Store!Purged, Store!LiveOn, Store!InSet
<1>5. zset' = [Store!Purged(r) EXCEPT ![l] = [key |-> r, left |-> MaxTtl]]
  BY DEF Store!ScriptAdds
<1>6. QED
  BY <1>1, <1>2, <1>3, <1>4, <1>5

(* ... and when it refuses.                                                 *)
LEMMA RefuseFacts ==
  ASSUME Store!TypeOK, NEW r \in Key, NEW limit, Store!ScriptRefuses(r, limit)
  PROVE  /\ zset' \in [Slots -> Store!Member \cup {Absent}]
         /\ \A s \in Slots : Store!Live(s) => zset'[s] = zset[s]
         /\ \A s \in Slots : zset'[s] \in {Absent, zset[s]}
<1>1. Store!Purged(r) \in [Slots -> Store!Member \cup {Absent}]
  BY DEF Store!Purged, Store!TypeOK
<1>2. \A s \in Slots : /\ Store!Live(s) => Store!Purged(r)[s] = zset[s]
                       /\ Store!Purged(r)[s] \in {Absent, zset[s]}
  BY DEF Store!Purged, Store!LiveOn, Store!InSet
<1>3. QED
  BY <1>1, <1>2 DEF Store!ScriptRefuses
-----------------------------------------------------------------------------
(***************************************************************************)
(* What keeps the parts of the invariant.                                  *)
(***************************************************************************)
(* Goto moves one worker, and frees its node's place when it is done.       *)
LEMMA GotoFacts ==
  ASSUME TypeOK, NEW d \in Delivery, NEW p \in Place \ {"idle"},
         Working(d), Goto(d, p)
  PROVE  /\ pc' \in [Delivery -> Place]
         /\ at' \in [Delivery -> Node \cup {Absent}]
         /\ pc'[d] = p
         /\ \A e \in Delivery \ {d} : pc'[e] = pc[e]
         /\ \A e \in Delivery : Working(e)' <=> at'[e] # Absent
<1>1. at[d] # Absent
  BY DEF TypeOK
<1>2. \A e \in Delivery : Working(e) <=> at[e] # Absent
  BY DEF TypeOK
<1>3. pc \in [Delivery -> Place] /\ at \in [Delivery -> Node \cup {Absent}]
  BY DEF TypeOK
<1>4. /\ pc' = [pc EXCEPT ![d] = p]
      /\ at' = [at EXCEPT ![d] = IF p = "done" THEN Absent ELSE @]
  BY DEF Goto
<1>5. QED
  BY <1>1, <1>2, <1>3, <1>4 DEF Working

(* A step of processMessage: one worker moves, what it does to the message  *)
(* gives it no delivery that is not left, and why is set on failures only.  *)
LEMMA ProcTyping ==
  ASSUME TypeInv, NEW d \in Delivery, NEW p \in Place \ {"idle"},
         Working(d), Goto(d, p), UNCHANGED <<delivered, status>>,
         Store!TypeOK',
         js' \in [Msg -> MsgState],
         \A m \in Msg : js'[m] \in {"unsent", "ready"} =>
             js'[m] = js[m] \/ delivered[m] < ConsumerMaxDeliver,
         why' \in [Delivery -> {"none", "handler", "store", "metrics"}],
         \A e \in Delivery \ {d} : why'[e] = why[e],
         p \in Running => why'[d] = "none",
         effects' \in [Msg -> Nat], dead' \subseteq Msg, faults' \subseteq Faults
  PROVE  TypeInv'
<1>1. TypeOK /\ DeliveriesLeft /\ FutureIdle
  BY DEF TypeInv
<1>2. /\ pc' \in [Delivery -> Place]
      /\ at' \in [Delivery -> Node \cup {Absent}]
      /\ pc'[d] = p
      /\ \A e \in Delivery \ {d} : pc'[e] = pc[e]
      /\ \A e \in Delivery : Working(e)' <=> at'[e] # Absent
  BY <1>1, GotoFacts
<1>3. \A e \in Delivery : pc'[e] \in Running => why'[e] = "none"
  BY <1>1, <1>2 DEF TypeOK
<1>4. TypeOK'
  BY <1>1, <1>2, <1>3 DEF TypeOK
<1>5. DeliveriesLeft'
  BY <1>1 DEF DeliveriesLeft
<1>6. FutureIdle'
  BY <1>1, <1>2 DEF FutureIdle, Working
<1>7. QED
  BY <1>4, <1>5, <1>6 DEF TypeInv

(* Who is not in the lock loop or in a handler may lose its locks; who is   *)
(* stays where it is, with the locks it has.                                *)
LEMMA LocksKept ==
  ASSUME LockInv,
         \A d \in Delivery : pc'[d] \in {"idle", "locking", "handling"} =>
             /\ pc'[d] = pc[d]
             /\ \A i \in DOMAIN KeysOf(d) : handle'[<<d, i>>] = handle[<<d, i>>],
         \A d \in Delivery : pc'[d] \in {"unwinding", "backoff"} =>
             pc[d] \in {"locking", "unwinding", "backoff"},
         \A l \in Slots : TtlCoversHandler /\ Store!Live(l)
                          /\ pc'[l[1]] \in {"locking", "handling"} =>
             Store!Live(l)' /\ zset'[l].key = zset[l].key
  PROVE  LockInv'
<1>1. \A d \in Delivery : pc'[d] \in {"idle", "locking", "handling"} =>
          pc'[d] = pc[d] /\ locks(d)' = locks(d)
  BY DEF locks, KeysOf
<1>2. IdleHoldsNone'
  BY <1>1 DEF LockInv, IdleHoldsNone
<1>3. KeysToLock'
  BY <1>1 DEF LockInv, KeysToLock, KeysOf
<1>4. LocksInOrder'
  BY <1>1 DEF LockInv, LocksInOrder, KeysOf
<1>5. AllLocksHeld'
  BY <1>1 DEF LockInv, AllLocksHeld, KeysOf
<1>6. LocksLive'
  <2> SUFFICES ASSUME TtlCoversHandler,
                      NEW d \in Delivery, pc'[d] \in {"locking", "handling"},
                      NEW i \in locks(d)'
               PROVE  /\ Store!Live(<<d, i>>)'
                      /\ zset'[<<d, i>>].key = KeysOf(d)[i]
    BY DEF LocksLive, KeysOf
  <2>1. i \in locks(d) /\ pc[d] \in {"locking", "handling"}
    BY <1>1
  <2>2. Store!Live(<<d, i>>) /\ zset[<<d, i>>].key = KeysOf(d)[i]
    BY <2>1 DEF LockInv, LocksLive
  <2>3. <<d, i>> \in Slots /\ <<d, i>>[1] = d
    BY <2>1, SlotFacts DEF locks
  <2>4. QED
    BY <2>2, <2>3
<1>7. QED
  BY <1>2, <1>3, <1>4, <1>5, <1>6 DEF LockInv

(* A step after which nothing is live that was not keeps the limits.        *)
LEMMA LimitKept ==
  ASSUME Store!LimitRespected,
         \A l \in Slots : Store!Live(l)' => Store!Live(l) /\ zset'[l].key = zset[l].key
  PROVE  Store!LimitRespected'
<1> SUFFICES ASSUME NEW r \in Key
             PROVE  Cardinality(Store!LiveOn(r)') <= Limit[r]
  BY StoreCardinality DEF Store!LimitRespected
<1>1. Store!LiveOn(r)' \subseteq Store!LiveOn(r)
  BY DEF Store!LiveOn
<1>2. IsFiniteSet(Store!LiveOn(r))
  BY SlotsFinite, FS_Subset DEF Store!LiveOn
<1>3. Cardinality(Store!LiveOn(r)') <= Cardinality(Store!LiveOn(r))
  BY <1>1, <1>2, FS_Subset
<1>4. Cardinality(Store!LiveOn(r)) <= Limit[r]
  BY StoreCardinality DEF Store!LimitRespected
<1>5. Cardinality(Store!LiveOn(r)) \in Nat /\ Cardinality(Store!LiveOn(r)') \in Nat
  BY <1>1, <1>2, FS_Subset, FS_CardinalityType
<1>6. Limit[r] \in Nat
  BY EngineAssumption
<1>7. QED
  BY <1>3, <1>4, <1>5, <1>6

(* The acquire script adds a member only where the limit leaves room.       *)
LEMMA LimitAdds ==
  ASSUME Store!TypeOK, Store!LimitRespected, NEW l \in Slots, NEW r \in Key,
         Store!ScriptAdds(l, r, MaxTtl, Limit[r])
  PROVE  Store!LimitRespected'
<1> SUFFICES ASSUME NEW q \in Key
             PROVE  Cardinality(Store!LiveOn(q)') <= Limit[q]
  BY StoreCardinality DEF Store!LimitRespected
<1>0. /\ zset'[l] = [key |-> r, left |-> MaxTtl]
      /\ \A s \in Slots : s # l => zset'[s] \in {Absent, zset[s]}
  BY AddFacts
<1>1. \A s \in Slots : s # l /\ s \in Store!LiveOn(q)' => s \in Store!LiveOn(q)
  BY <1>0 DEF Store!LiveOn, Store!Live
<1>2. IsFiniteSet(Store!LiveOn(q))
  BY SlotsFinite, FS_Subset DEF Store!LiveOn
<1>3. Store!LiveOn(q)' \subseteq Slots
  BY DEF Store!LiveOn
<1>4. Limit[q] \in Nat /\ Cardinality(Store!LiveOn(q)) \in Nat
  BY <1>2, FS_CardinalityType, EngineAssumption
<1>5. CASE q = r
  <2>1. Cardinality(Store!LiveOn(q)) < Limit[q]
    BY <1>5, StoreCardinality DEF Store!ScriptAdds, Store!HasRoom
  <2>2. Store!LiveOn(q)' \subseteq Store!LiveOn(q) \cup {l}
    BY <1>1, <1>3
  <2>3. /\ IsFiniteSet(Store!LiveOn(q) \cup {l})
        /\ Cardinality(Store!LiveOn(q) \cup {l}) <= Cardinality(Store!LiveOn(q)) + 1
    <3>1. Cardinality(Store!LiveOn(q) \cup {l}) \in
            {Cardinality(Store!LiveOn(q)), Cardinality(Store!LiveOn(q)) + 1}
      BY <1>2, FS_AddElement, Zenon
    <3>2. IsFiniteSet(Store!LiveOn(q) \cup {l})
      BY <1>2, FS_AddElement
    <3>3. QED
      BY <1>4, <3>1, <3>2
  <2>4. /\ Cardinality(Store!LiveOn(q)') <= Cardinality(Store!LiveOn(q) \cup {l})
        /\ Cardinality(Store!LiveOn(q)') \in Nat
        /\ Cardinality(Store!LiveOn(q) \cup {l}) \in Nat
    BY <2>2, <2>3, FS_Subset, FS_CardinalityType
  <2>5. QED
    BY <2>1, <2>3, <2>4, <1>4
<1>6. CASE q # r
  <2>1. l \notin Store!LiveOn(q)'
    BY <1>0, <1>6 DEF Store!LiveOn
  <2>2. Store!LiveOn(q)' \subseteq Store!LiveOn(q)
    BY <1>1, <1>3, <2>1
  <2>3. /\ Cardinality(Store!LiveOn(q)') <= Cardinality(Store!LiveOn(q))
        /\ Cardinality(Store!LiveOn(q)') \in Nat
    BY <2>2, <1>2, FS_Subset, FS_CardinalityType
  <2>4. Cardinality(Store!LiveOn(q)) <= Limit[q]
    BY StoreCardinality DEF Store!LimitRespected
  <2>5. QED
    BY <1>4, <2>3, <2>4
<1>7. QED
  BY <1>5, <1>6

(* A step of processMessage out of the lock loop and of the handlers, in    *)
(* which a worker may lose its own locks and nobody else's.                 *)
LEMMA ProcLocks ==
  ASSUME TypeOK, LockInv, NEW d \in Delivery,
         NEW p \in Place \ {"idle", "locking", "handling"}, Working(d), Goto(d, p),
         p \in {"unwinding", "backoff"} => pc[d] \in {"locking", "unwinding", "backoff"},
         \A s \in Slots : s[1] # d => handle'[s] = handle[s],
         \A s \in Slots : s[1] # d /\ Store!Live(s) => zset'[s] = zset[s]
  PROVE  LockInv'
<1>1. /\ pc'[d] = p
      /\ \A e \in Delivery \ {d} : pc'[e] = pc[e]
  BY GotoFacts
<1>2. \A e \in Delivery : pc'[e] \in {"idle", "locking", "handling"} =>
          /\ pc'[e] = pc[e]
          /\ \A i \in DOMAIN KeysOf(e) : handle'[<<e, i>>] = handle[<<e, i>>]
  <2> SUFFICES ASSUME NEW e \in Delivery, pc'[e] \in {"idle", "locking", "handling"},
                      NEW i \in DOMAIN KeysOf(e)
               PROVE  pc'[e] = pc[e] /\ handle'[<<e, i>>] = handle[<<e, i>>]
    BY <1>1
  <2>1. e # d
    BY <1>1
  <2>2. <<e, i>> \in Slots /\ <<e, i>>[1] = e
    BY SlotFacts
  <2>3. QED
    BY <1>1, <2>1, <2>2
<1>3. \A e \in Delivery : pc'[e] \in {"unwinding", "backoff"} =>
          pc[e] \in {"locking", "unwinding", "backoff"}
  BY <1>1
<1>4. \A l \in Slots : Store!Live(l) /\ pc'[l[1]] \in {"locking", "handling"} =>
          Store!Live(l)' /\ zset'[l].key = zset[l].key
  BY <1>1, SlotFacts DEF Store!Live
<1>5. QED
  BY <1>2, <1>3, <1>4, LocksKept

(* The members that are live, as long as the store is left alone.           *)
LEMMA StoreUnchanged ==
  ASSUME UNCHANGED store
  PROVE  /\ Store!TypeOK => Store!TypeOK'
         /\ \A l \in Slots : Store!Live(l)' <=> Store!Live(l)
         /\ Store!LimitRespected => Store!LimitRespected'
<1>1. zset' = zset /\ handle' = handle
  BY DEF store
<1>2. \A l \in Slots : Store!Live(l)' <=> Store!Live(l)
  BY <1>1 DEF Store!Live
<1>3. QED
  BY <1>1, <1>2, LimitKept DEF Store!TypeOK

(* A step of processMessage that leaves the store alone and ends neither in *)
(* the lock loop nor in a handler.                                          *)
LEMMA QuietStep ==
  ASSUME EngineInv, NEW d \in Delivery,
         NEW p \in Place \ {"idle", "locking", "handling", "unwinding", "backoff"},
         Working(d), Goto(d, p), UNCHANGED <<store, delivered, status>>,
         js' \in [Msg -> MsgState],
         \A m \in Msg : js'[m] \in {"unsent", "ready"} =>
             js'[m] = js[m] \/ delivered[m] < ConsumerMaxDeliver,
         why' \in [Delivery -> {"none", "handler", "store", "metrics"}],
         \A e \in Delivery \ {d} : why'[e] = why[e],
         p \in Running => why'[d] = "none",
         effects' \in [Msg -> Nat], dead' \subseteq Msg, faults' \subseteq Faults
  PROVE  EngineInv'
<1>1. Store!TypeOK' /\ Store!LimitRespected'
  BY StoreUnchanged DEF EngineInv, TypeInv, TypeOK
<1>2. TypeInv'
  BY <1>1, ProcTyping DEF EngineInv
<1>3. LockInv'
  BY ProcLocks DEF EngineInv, TypeInv, store
<1>4. QED
  BY <1>1, <1>2, <1>3 DEF EngineInv

(* Where the release loops lead.                                            *)
LEMMA ReleaseFacts ==
  /\ DOMAIN AfterRelease = {"unwinding", "aborting", "releasing"}
  /\ AfterRelease["unwinding"] = "backoff"
  /\ AfterRelease["aborting"] = "failing"
  /\ AfterRelease["releasing"] = "done"
BY DEF AfterRelease

LEMMA ReleaseLoopFacts ==
  ASSUME NEW d, NEW q \in {"unwinding", "aborting", "releasing"}, ReleaseLoop(d, q)
  PROVE  \E p \in {q, AfterRelease[q]} : Goto(d, p)
BY DEF ReleaseLoop

LEMMA LeaveFacts ==
  ASSUME NEW d, LeaveFailure(d)
  PROVE  \E p \in {"releasing", "done"} : Goto(d, p)
BY ReleaseLoopFacts, ReleaseFacts DEF LeaveFailure

(* An answer to JetStream requeues nothing that has no delivery left.       *)
LEMMA AnswerFacts ==
  ASSUME TypeInv, NEW d \in Delivery,
         ack(d) \/ nak(d) \/ term(d) \/ UNCHANGED js
  PROVE  /\ js' \in [Msg -> MsgState]
         /\ \A m \in Msg : js'[m] \in {"unsent", "ready"} =>
                js'[m] = js[m] \/ delivered[m] < ConsumerMaxDeliver
<1>1. /\ js \in [Msg -> MsgState]
      /\ delivered \in [Msg -> 0..ConsumerMaxDeliver]
      /\ ConsumerMaxDeliver \in Nat
  BY EngineAssumption DEF TypeInv, TypeOK
<1>2. d[1] \in Msg
  BY DEF Delivery
<1>3. CASE ack(d)
  BY <1>1, <1>2, <1>3 DEF ack, MsgState
<1>4. CASE nak(d)
  BY <1>1, <1>2, <1>4 DEF nak, Requeued, MsgState
<1>5. CASE term(d)
  BY <1>1, <1>2, <1>5 DEF term, MsgState
<1>6. CASE UNCHANGED js
  BY <1>1, <1>6
<1>7. QED
  BY <1>3, <1>4, <1>5, <1>6

LEMMA StrikeFacts ==
  ASSUME NEW f, Strike(f), faults \subseteq Faults
  PROVE  faults' \subseteq Faults
BY DEF Strike
-----------------------------------------------------------------------------
(***************************************************************************)
(* The steps of processMessage that leave the store alone.                 *)
(***************************************************************************)
LEMMA QuietActions ==
  ASSUME EngineInv, NEW d \in Delivery,
         \/ GiveUp(d) \/ HandlerReturns(d) \/ HandlerThrows(d) \/ Ack(d)
         \/ RecordSuccess(d) \/ FailureThrows(d) \/ FailureNaks(d)
         \/ DeadLetter(d) \/ Terminate(d)
  PROVE  EngineInv'
<1>1. /\ TypeInv
      /\ js \in [Msg -> MsgState]
      /\ why \in [Delivery -> {"none", "handler", "store", "metrics"}]
      /\ \A e \in Delivery : pc[e] \in Running => why[e] = "none"
      /\ effects \in [Msg -> Nat] /\ dead \subseteq Msg /\ faults \subseteq Faults
  BY DEF EngineInv, TypeInv, TypeOK
<1>2. d[1] \in Msg
  BY DEF Delivery
<1>3. UNCHANGED js =>
        /\ js' \in [Msg -> MsgState]
        /\ \A m \in Msg : js'[m] \in {"unsent", "ready"} =>
               js'[m] = js[m] \/ delivered[m] < ConsumerMaxDeliver
  BY <1>1, AnswerFacts
<1>4. {"failing", "terming", "handled", "recording", "releasing", "done"}
        \subseteq Place \ {"idle", "locking", "handling", "unwinding", "backoff"}
  BY DEF Place
<1>5. {"failing", "terming", "releasing", "done"} \cap Running = {}
  BY DEF Running
<1>6. \A f : Strike(f) => faults' \subseteq Faults
  BY <1>1, StrikeFacts
<1>7. CASE GiveUp(d)
  BY <1>7, <1>1, <1>4, <1>5, AnswerFacts, QuietStep DEF GiveUp, Working
<1>8. CASE HandlerReturns(d)
  <2>1. effects' \in [Msg -> Nat]
    BY <1>8, <1>1, <1>2 DEF HandlerReturns
  <2>2. why[d] = "none"
    BY <1>8, <1>1 DEF HandlerReturns, Running
  <2>3. QED
    BY <1>8, <1>1, <1>3, <1>4, <2>1, <2>2, QuietStep DEF HandlerReturns, Working
<1>9. CASE HandlerThrows(d)
  BY <1>9, <1>1, <1>3, <1>4, <1>5, QuietStep DEF HandlerThrows, Working
<1>10. CASE Ack(d)
  <2>1. why[d] = "none"
    BY <1>10, <1>1 DEF Ack, Running
  <2>2. QED
    BY <1>10, <1>1, <1>4, <2>1, AnswerFacts, QuietStep DEF Ack, Working
<1>11. CASE RecordSuccess(d)
  <2>1. CASE Goto(d, "failing")
    BY <2>1, <1>11, <1>1, <1>3, <1>4, <1>5, <1>6, QuietStep DEF RecordSuccess, Working
  <2>2. CASE ReleaseLoop(d, "releasing") /\ UNCHANGED <<why, faults>>
    <3>1. PICK p \in {"releasing", "done"} : Goto(d, p)
      BY <2>2, ReleaseLoopFacts, ReleaseFacts
    <3>2. QED
      BY <2>2, <3>1, <1>11, <1>1, <1>3, <1>4, <1>5, QuietStep DEF RecordSuccess, Working
  <2>3. QED
    BY <1>11, <2>1, <2>2 DEF RecordSuccess
<1>12. CASE FailureThrows(d)
  <2>1. PICK p \in {"releasing", "done"} : Goto(d, p)
    BY <1>12, LeaveFacts DEF FailureThrows
  <2>2. QED
    BY <2>1, <1>12, <1>1, <1>3, <1>4, <1>5, <1>6, QuietStep DEF FailureThrows, Working
<1>13. CASE FailureNaks(d)
  <2>1. PICK p \in {"releasing", "done"} : Goto(d, p)
    BY <1>13, LeaveFacts DEF FailureNaks
  <2>2. nak(d) \/ UNCHANGED js
    BY <1>13 DEF FailureNaks
  <2>3. QED
    BY <2>1, <2>2, <1>13, <1>1, <1>4, <1>5, AnswerFacts, QuietStep DEF FailureNaks, Working
<1>14. CASE DeadLetter(d)
  <2>1. dead' \subseteq Msg /\ faults' \subseteq Faults
    BY <1>14, <1>1, <1>2, <1>6 DEF DeadLetter
  <2>2. QED
    BY <2>1, <1>14, <1>1, <1>3, <1>4, <1>5, QuietStep DEF DeadLetter, Working
<1>15. CASE Terminate(d)
  <2>1. PICK p \in {"releasing", "done"} : Goto(d, p)
    BY <1>15, LeaveFacts DEF Terminate
  <2>2. term(d) \/ UNCHANGED js
    BY <1>15 DEF Terminate
  <2>3. QED
    BY <2>1, <2>2, <1>15, <1>1, <1>4, <1>5, AnswerFacts, QuietStep DEF Terminate, Working
<1>16. QED
  BY <1>7, <1>8, <1>9, <1>10, <1>11, <1>12, <1>13, <1>14, <1>15
-----------------------------------------------------------------------------
(***************************************************************************)
(* The steps of processMessage that call the store.                        *)
(***************************************************************************)
(* What most of them leave alone: the message and its effects.              *)
LEMMA ProcStep ==
  ASSUME EngineInv, NEW d \in Delivery, NEW p \in Place \ {"idle"},
         Working(d), Goto(d, p), UNCHANGED <<delivered, status, js, effects, dead>>,
         Store!TypeOK',
         \/ UNCHANGED why /\ (p \in Running => pc[d] \in Running)
         \/ why' = [why EXCEPT ![d] = "store"] /\ p \notin Running,
         faults' \subseteq Faults
  PROVE  TypeInv'
<1>1. /\ TypeInv
      /\ why \in [Delivery -> {"none", "handler", "store", "metrics"}]
      /\ \A e \in Delivery : pc[e] \in Running => why[e] = "none"
      /\ effects \in [Msg -> Nat] /\ dead \subseteq Msg
  BY DEF EngineInv, TypeInv, TypeOK
<1>2. /\ js' \in [Msg -> MsgState]
      /\ \A m \in Msg : js'[m] \in {"unsent", "ready"} =>
             js'[m] = js[m] \/ delivered[m] < ConsumerMaxDeliver
  BY <1>1, AnswerFacts
<1>3. /\ why' \in [Delivery -> {"none", "handler", "store", "metrics"}]
      /\ \A e \in Delivery \ {d} : why'[e] = why[e]
      /\ p \in Running => why'[d] = "none"
  BY <1>1
<1>4. QED
  BY <1>1, <1>2, <1>3, ProcTyping

(* The next lock is granted: one lock more, in order and live.              *)
LEMMA GrantStep ==
  ASSUME EngineInv, NEW d \in Delivery, AcquireGranted(d)
  PROVE  EngineInv'
<1> DEFINE l == NextSlot(d)
           r == NextKey(d)
           k == Cardinality(locks(d))
           p == IF AllLocked(d) THEN "handling" ELSE "locking"
<1>0. TypeInv /\ TypeOK /\ LockInv /\ Store!TypeOK /\ Store!LimitRespected
  BY DEF EngineInv, TypeInv, TypeOK
<1>1. /\ pc[d] = "locking" /\ Goto(d, p)
      /\ Store!ScriptAdds(l, r, MaxTtl, Limit[r])
      /\ handle' = [handle EXCEPT ![l] = r]
      /\ UNCHANGED <<js, delivered, status, why, effects, dead, faults>>
  BY DEF AcquireGranted, Store!acquire
<1>2. /\ k + 1 \in DOMAIN KeysOf(d) /\ locks(d) = 1..k /\ k \in Nat
      /\ l \in Slots /\ r \in Key
      /\ l = <<d, k + 1>> /\ r = KeysOf(d)[k + 1]
  BY <1>0, <1>1, NextFacts DEF LockInv, NextSlot, NextKey
<1>3. /\ zset' \in [Slots -> Store!Member \cup {Absent}]
      /\ zset'[l] = [key |-> r, left |-> MaxTtl]
      /\ zset'[l] # Absent
      /\ \A s \in Slots : s # l /\ Store!Live(s) => zset'[s] = zset[s]
  BY <1>0, <1>1, <1>2, AddFacts
<1>4. handle \in [Slots -> Key \cup {Absent}] /\ handle' \in [Slots -> Key \cup {Absent}]
  BY <1>0, <1>1, <1>2 DEF Store!TypeOK
<1>5. Store!TypeOK'
  BY <1>3, <1>4 DEF Store!TypeOK
<1>6. p \in Place \ {"idle"} /\ p \in {"locking", "handling"}
  BY DEF Place
<1>7. Working(d) /\ pc[d] \in Running
  BY <1>1 DEF Working, Running
<1>8. faults' \subseteq Faults
  BY <1>0, <1>1 DEF TypeOK
<1>9. TypeInv'
  BY <1>1, <1>5, <1>6, <1>7, <1>8, ProcStep
<1>10. Store!LimitRespected'
  BY <1>0, <1>1, <1>2, LimitAdds
<1>11. /\ pc'[d] = p
       /\ \A e \in Delivery \ {d} : pc'[e] = pc[e]
  BY <1>0, <1>1, <1>6, <1>7, GotoFacts
<1>12. r # Absent
  BY <1>2, EngineAssumption
<1>13. locks(d)' = 1..(k + 1)
  <2>1. \A i \in DOMAIN KeysOf(d) : <<d, i>> \in Slots
    BY SlotFacts
  <2>2. \A i \in DOMAIN KeysOf(d) :
          handle'[<<d, i>>] # Absent <=> i = k + 1 \/ handle[<<d, i>>] # Absent
    BY <1>1, <1>2, <1>4, <1>12, <2>1
  <2>3. locks(d)' = locks(d) \cup {k + 1}
    BY <1>2, <2>2 DEF locks, KeysOf
  <2>4. QED
    BY <1>2, <2>3
<1>14. \A e \in Delivery \ {d} : locks(e)' = locks(e)
  <2> SUFFICES ASSUME NEW e \in Delivery \ {d}, NEW i \in DOMAIN KeysOf(e)
               PROVE  handle'[<<e, i>>] = handle[<<e, i>>]
    BY DEF locks, KeysOf
  <2>1. <<e, i>> \in Slots /\ <<e, i>> # l
    BY <1>2, SlotFacts
  <2>2. QED
    BY <1>1, <1>4, <2>1
<1>15. IdleHoldsNone'
  BY <1>0, <1>6, <1>11, <1>14 DEF LockInv, IdleHoldsNone
<1>16. KeysToLock'
  BY <1>0, <1>1, <1>11 DEF LockInv, KeysToLock, KeysOf
<1>17. Len(KeysOf(d)) \in Nat /\ DOMAIN KeysOf(d) = 1..Len(KeysOf(d))
  BY KeyFacts
<1>18. LocksInOrder'
  <2>1. p = "locking" => k + 1 \in 0..(Len(KeysOf(d)) - 1)
    BY <1>2, <1>17 DEF AllLocked
  <2>2. QED
    BY <1>0, <1>11, <1>13, <1>14, <2>1 DEF LockInv, LocksInOrder, KeysOf
<1>19. AllLocksHeld'
  <2>1. p = "handling" => k + 1 = Len(KeysOf(d))
    BY DEF AllLocked
  <2>2. QED
    BY <1>0, <1>11, <1>13, <1>14, <1>17, <2>1 DEF LockInv, AllLocksHeld, KeysOf
<1>20. LocksLive'
  <2> SUFFICES ASSUME TtlCoversHandler,
                      NEW e \in Delivery, pc'[e] \in {"locking", "handling"},
                      NEW i \in locks(e)'
               PROVE  /\ Store!Live(<<e, i>>)'
                      /\ zset'[<<e, i>>].key = KeysOf(e)[i]
    BY DEF LocksLive, KeysOf
  <2>1. CASE <<e, i>> = l
    <3>1. /\ zset'[<<e, i>>] # Absent /\ zset'[<<e, i>>].left > 0
          /\ zset'[<<e, i>>].key = r
      <4>1. zset'[<<e, i>>] = [key |-> r, left |-> MaxTtl] /\ zset'[<<e, i>>] # Absent
        BY <1>3, <2>1
      <4>2. [key |-> r, left |-> MaxTtl].key = r /\ [key |-> r, left |-> MaxTtl].left = MaxTtl
        OBVIOUS
      <4>3. MaxTtl > 0
        BY EngineAssumption
      <4>4. QED
        BY <4>1, <4>2, <4>3
    <3>2. e = d /\ i = k + 1
      BY <1>2, <2>1
    <3>3. zset'[<<e, i>>].key = KeysOf(e)[i]
      BY <1>2, <3>1, <3>2
    <3>4. QED
      BY <3>1, <3>3 DEF Store!Live
  <2>2. CASE <<e, i>> # l
    <3>1. i \in locks(e) /\ pc[e] \in {"locking", "handling"}
      BY <1>1, <1>2, <1>11, <1>13, <1>14, <2>2
    <3>2. Store!Live(<<e, i>>) /\ zset[<<e, i>>].key = KeysOf(e)[i]
      BY <1>0, <3>1 DEF LockInv, LocksLive
    <3>3. <<e, i>> \in Slots
      BY <3>1, SlotFacts DEF locks
    <3>4. zset'[<<e, i>>] = zset[<<e, i>>]
      BY <1>3, <2>2, <3>2, <3>3
    <3>5. QED
      BY <3>2, <3>4 DEF Store!Live
  <2>3. QED
    BY <2>1, <2>2
<1>21. QED
  BY <1>9, <1>10, <1>15, <1>16, <1>18, <1>19, <1>20 DEF EngineInv, LockInv

(* A refusal purges nothing live, and the worker unwinds.                   *)
LEMMA RefusedStep ==
  ASSUME EngineInv, NEW d \in Delivery, AcquireRefused(d)
  PROVE  EngineInv'
<1> DEFINE r == NextKey(d)
<1>0. TypeInv /\ TypeOK /\ LockInv /\ Store!TypeOK /\ Store!LimitRespected
  BY DEF EngineInv, TypeInv, TypeOK
<1>1. /\ pc[d] = "locking" /\ ReleaseLoop(d, "unwinding")
      /\ Store!ScriptRefuses(r, Limit[r]) /\ handle' = handle
      /\ UNCHANGED <<js, delivered, status, why, effects, dead, faults>>
  BY DEF AcquireRefused, Store!acquireRefused
<1>2. r \in Key
  BY <1>0, <1>1, NextFacts DEF LockInv
<1>3. /\ zset' \in [Slots -> Store!Member \cup {Absent}]
      /\ \A s \in Slots : Store!Live(s) => zset'[s] = zset[s]
      /\ \A s \in Slots : zset'[s] \in {Absent, zset[s]}
  BY <1>0, <1>1, <1>2, RefuseFacts
<1>4. Store!TypeOK'
  BY <1>0, <1>1, <1>3 DEF Store!TypeOK
<1>5. PICK p \in {"unwinding", "backoff"} : Goto(d, p)
  BY <1>1, ReleaseLoopFacts, ReleaseFacts
<1>6. p \in Place \ {"idle", "locking", "handling"} /\ Working(d) /\ pc[d] \in Running
  BY <1>1 DEF Place, Working, Running
<1>7. faults' \subseteq Faults
  BY <1>0, <1>1 DEF TypeOK
<1>8. TypeInv'
  BY <1>1, <1>4, <1>5, <1>6, <1>7, ProcStep
<1>9. LockInv'
  BY <1>0, <1>1, <1>3, <1>5, <1>6, ProcLocks
<1>10. Store!LimitRespected'
  BY <1>0, <1>3, LimitKept DEF Store!Live
<1>11. QED
  BY <1>8, <1>9, <1>10 DEF EngineInv

(* acquire throws: at most one member more than somebody can release.       *)
LEMMA ThrowStep ==
  ASSUME EngineInv, NEW d \in Delivery, AcquireThrows(d)
  PROVE  EngineInv'
<1> DEFINE l == NextSlot(d)
           r == NextKey(d)
<1>0. TypeInv /\ TypeOK /\ LockInv /\ Store!TypeOK /\ Store!LimitRespected
  BY DEF EngineInv, TypeInv, TypeOK
<1>1. /\ pc[d] = "locking" /\ ReleaseLoop(d, "aborting") /\ Strike("store")
      /\ UNCHANGED store \/ Store!acquireReplyLost(l, r, MaxTtl)
      /\ why' = [why EXCEPT ![d] = "store"]
      /\ UNCHANGED <<js, delivered, status, effects, dead>>
  BY DEF AcquireThrows
<1>2. l \in Slots /\ r \in Key /\ l[1] = d
  BY <1>0, <1>1, NextFacts DEF LockInv, NextSlot
<1>3. PICK p \in {"aborting", "failing"} : Goto(d, p)
  BY <1>1, ReleaseLoopFacts, ReleaseFacts
<1>4. p \in Place \ {"idle", "locking", "handling"} /\ Working(d) /\ p \notin Running
  BY <1>1 DEF Place, Working, Running
<1>5. faults' \subseteq Faults
  BY <1>0, <1>1, StrikeFacts DEF TypeOK
<1>6. /\ Store!TypeOK' /\ Store!LimitRespected' /\ handle' = handle
      /\ \A s \in Slots : s[1] # d /\ Store!Live(s) => zset'[s] = zset[s]
  <2>1. CASE UNCHANGED store
    BY <1>0, <2>1, StoreUnchanged DEF store
  <2>2. CASE Store!acquireReplyLost(l, r, MaxTtl)
    <3>1. Store!ScriptAdds(l, r, MaxTtl, Limit[r]) /\ handle' = handle
      BY <2>2 DEF Store!acquireReplyLost
    <3>2. /\ zset' \in [Slots -> Store!Member \cup {Absent}]
          /\ \A s \in Slots : s # l /\ Store!Live(s) => zset'[s] = zset[s]
      BY <1>0, <1>2, <3>1, AddFacts
    <3>3. Store!LimitRespected'
      BY <1>0, <1>2, <3>1, LimitAdds
    <3>4. QED
      BY <1>0, <1>2, <3>1, <3>2, <3>3 DEF Store!TypeOK
  <2>3. QED
    BY <1>1, <2>1, <2>2
<1>7. TypeInv'
  BY <1>1, <1>3, <1>4, <1>5, <1>6, ProcStep
<1>8. LockInv'
  BY <1>0, <1>3, <1>4, <1>6, ProcLocks
<1>9. QED
  BY <1>6, <1>7, <1>8 DEF EngineInv

(* A release takes a member of the worker itself out of its set.            *)
LEMMA RemoveFacts ==
  ASSUME Store!TypeOK, Store!LimitRespected, NEW d, NEW i,
         zset' \in {zset, [zset EXCEPT ![<<d, i>>] = Absent]}
  PROVE  /\ zset' \in [Slots -> Store!Member \cup {Absent}]
         /\ \A s \in Slots : s[1] # d => zset'[s] = zset[s]
         /\ Store!LimitRespected'
<1>1. zset \in [Slots -> Store!Member \cup {Absent}]
  BY DEF Store!TypeOK
<1>2. \A s \in Slots : zset'[s] \in {Absent, zset[s]}
  BY <1>1
<1>3. \A s \in Slots : s[1] # d => zset'[s] = zset[s]
  BY <1>1
<1>4. zset' \in [Slots -> Store!Member \cup {Absent}]
  BY <1>1
<1>5. Store!LimitRespected'
  BY <1>2, LimitKept DEF Store!Live
<1>6. QED
  BY <1>3, <1>4, <1>5

LEMMA ReleaseStep ==
  ASSUME EngineInv, NEW d \in Delivery, Release(d)
  PROVE  EngineInv'
<1> DEFINE i == Min(locks(d))
           p == IF Cardinality(locks(d)) = 1 THEN AfterRelease[pc[d]] ELSE pc[d]
<1>0. TypeInv /\ TypeOK /\ LockInv /\ Store!TypeOK /\ Store!LimitRespected
  BY DEF EngineInv, TypeInv, TypeOK
<1>1. /\ pc[d] \in {"unwinding", "aborting", "releasing"} /\ Goto(d, p)
      /\ zset' = [zset EXCEPT ![<<d, i>>] = Absent]
      /\ handle' = [handle EXCEPT ![<<d, i>>] = Absent]
      /\ UNCHANGED <<js, delivered, status, why, effects, dead, faults>>
  BY ReleaseFacts DEF Release, Store!release
<1>2. /\ zset' \in [Slots -> Store!Member \cup {Absent}]
      /\ \A s \in Slots : s[1] # d => zset'[s] = zset[s]
      /\ Store!LimitRespected'
  <2>1. zset' \in {zset, [zset EXCEPT ![<<d, i>>] = Absent]}
    BY <1>1
  <2>2. QED
    BY <1>0, <2>1, RemoveFacts
<1>3. handle \in [Slots -> Key \cup {Absent}] /\ handle' \in [Slots -> Key \cup {Absent}]
  BY <1>0, <1>1 DEF Store!TypeOK
<1>4. \A s \in Slots : s[1] # d => handle'[s] = handle[s]
  BY <1>1, <1>3
<1>5. Store!TypeOK'
  BY <1>2, <1>3 DEF Store!TypeOK
<1>6. p \in {"unwinding", "backoff", "aborting", "failing", "releasing", "done"}
  BY <1>1, ReleaseFacts
<1>7. /\ p \in Place \ {"idle", "locking", "handling"} /\ Working(d)
      /\ p \in {"unwinding", "backoff"} => pc[d] = "unwinding"
      /\ p \in Running => pc[d] \in Running
  BY <1>1, <1>6, ReleaseFacts DEF Place, Working, Running
<1>8. faults' \subseteq Faults
  BY <1>0, <1>1 DEF TypeOK
<1>9. TypeInv'
  BY <1>1, <1>5, <1>7, <1>8, ProcStep
<1>10. LockInv'
  BY <1>0, <1>1, <1>2, <1>4, <1>7, ProcLocks
<1>11. QED
  BY <1>2, <1>9, <1>10 DEF EngineInv

LEMMA ReleaseThrowsStep ==
  ASSUME EngineInv, NEW d \in Delivery, ReleaseThrows(d)
  PROVE  EngineInv'
<1> DEFINE i == Min(locks(d))
           p == IF pc[d] = "unwinding" THEN "aborting" ELSE "done"
<1>0. TypeInv /\ TypeOK /\ LockInv /\ Store!TypeOK /\ Store!LimitRespected
  BY DEF EngineInv, TypeInv, TypeOK
<1>1. /\ pc[d] \in {"unwinding", "aborting", "releasing"} /\ Goto(d, p)
      /\ Strike("store")
      /\ zset' \in {zset, [zset EXCEPT ![<<d, i>>] = Absent]}
      /\ \/ handle' = handle
         \/ handle' = [s \in Slots |-> IF s[1] = d THEN Absent ELSE handle[s]]
      /\ UNCHANGED why \/ why' = [why EXCEPT ![d] = "store"]
      /\ UNCHANGED <<js, delivered, status, effects, dead>>
  BY ReleaseFacts DEF ReleaseThrows
<1>2. /\ zset' \in [Slots -> Store!Member \cup {Absent}]
      /\ \A s \in Slots : s[1] # d => zset'[s] = zset[s]
      /\ Store!LimitRespected'
  BY <1>0, <1>1, RemoveFacts
<1>3. handle \in [Slots -> Key \cup {Absent}] /\ handle' \in [Slots -> Key \cup {Absent}]
  BY <1>0, <1>1 DEF Store!TypeOK
<1>4. \A s \in Slots : s[1] # d => handle'[s] = handle[s]
  BY <1>1
<1>5. Store!TypeOK'
  BY <1>2, <1>3 DEF Store!TypeOK
<1>6. p \in Place \ {"idle", "locking", "handling"} /\ Working(d) /\ p \notin Running
  BY <1>1 DEF Place, Working, Running
<1>7. faults' \subseteq Faults
  BY <1>0, <1>1, StrikeFacts DEF TypeOK
<1>8. TypeInv'
  BY <1>1, <1>5, <1>6, <1>7, ProcStep
<1>9. LockInv'
  BY <1>0, <1>1, <1>2, <1>4, <1>6, ProcLocks
<1>10. QED
  BY <1>2, <1>8, <1>9 DEF EngineInv

(* A new attempt begins with no lock.                                       *)
LEMMA RetryStep ==
  ASSUME EngineInv, NEW d \in Delivery, Retry(d)
  PROVE  EngineInv'
<1>0. TypeInv /\ TypeOK /\ LockInv /\ Store!TypeOK /\ Store!LimitRespected
  BY DEF EngineInv, TypeInv, TypeOK
<1>1. /\ pc[d] = "backoff" /\ Goto(d, "locking")
      /\ handle' = [s \in Slots |-> IF s[1] = d THEN Absent ELSE handle[s]]
      /\ UNCHANGED <<zset, js, delivered, status, why, effects, dead, faults>>
  BY DEF Retry
<1>2. Store!TypeOK'
  BY <1>0, <1>1 DEF Store!TypeOK
<1>3. "locking" \in Place \ {"idle"} /\ Working(d) /\ pc[d] \in Running
  BY <1>1 DEF Place, Working, Running
<1>4. faults' \subseteq Faults
  BY <1>0, <1>1 DEF TypeOK
<1>5. TypeInv'
  BY <1>1, <1>2, <1>3, <1>4, ProcStep
<1>6. Store!LimitRespected'
  BY <1>0, <1>1, LimitKept DEF Store!Live
<1>7. /\ pc'[d] = "locking"
      /\ \A e \in Delivery \ {d} : pc'[e] = pc[e]
  BY <1>0, <1>1, <1>3, GotoFacts
<1>8. locks(d)' = {}
  BY <1>1, SlotFacts DEF locks, KeysOf
<1>9. \A e \in Delivery \ {d} : locks(e)' = locks(e)
  <2> SUFFICES ASSUME NEW e \in Delivery \ {d}, NEW i \in DOMAIN KeysOf(e)
               PROVE  handle'[<<e, i>>] = handle[<<e, i>>]
    BY DEF locks, KeysOf
  <2>1. <<e, i>> \in Slots /\ <<e, i>>[1] # d
    BY SlotFacts
  <2>2. QED
    BY <1>1, <2>1
<1>10. IdleHoldsNone'
  BY <1>0, <1>7, <1>9 DEF LockInv, IdleHoldsNone
<1>11. KeysToLock'
  BY <1>0, <1>1, <1>7 DEF LockInv, KeysToLock, KeysOf
<1>12. LocksInOrder'
  <2>1. 0 \in 0..(Len(KeysOf(d)) - 1)
    BY <1>0, <1>1, KeyFacts DEF LockInv, KeysToLock
  <2>2. locks(d)' = 1..0
    BY <1>8
  <2>3. QED
    BY <1>0, <1>7, <1>9, <2>1, <2>2 DEF LockInv, LocksInOrder, KeysOf
<1>13. AllLocksHeld'
  BY <1>0, <1>7, <1>9 DEF LockInv, AllLocksHeld, KeysOf
<1>14. LocksLive'
  BY <1>0, <1>1, <1>7, <1>8, <1>9 DEF LockInv, LocksLive, KeysOf, Store!Live
<1>15. QED
  BY <1>5, <1>6, <1>10, <1>11, <1>12, <1>13, <1>14 DEF EngineInv, LockInv
-----------------------------------------------------------------------------
(***************************************************************************)
(* JetStream, the consume loop, close, crashes and time.                   *)
(***************************************************************************)
(* A step that moves no worker and leaves the store alone.                  *)
LEMMA IdleStep ==
  ASSUME EngineInv, UNCHANGED <<store, delivered, pc, at, why, effects, dead>>,
         status' \in [Node -> Status], js' \in [Msg -> MsgState],
         faults' \subseteq Faults,
         \A m \in Msg : js'[m] \in {"unsent", "ready"} =>
             js'[m] = js[m] \/ delivered[m] < ConsumerMaxDeliver
  PROVE  EngineInv'
<1>0. /\ TypeOK /\ DeliveriesLeft /\ FutureIdle /\ LockInv
      /\ Store!TypeOK /\ Store!LimitRespected
  BY DEF EngineInv, TypeInv, TypeOK
<1>1. /\ zset' = zset /\ handle' = handle
      /\ UNCHANGED <<delivered, pc, at, why, effects, dead>>
  BY DEF store
<1>2. Store!TypeOK' /\ Store!LimitRespected'
  BY <1>0, StoreUnchanged
<1>3. TypeOK'
  BY <1>0, <1>1, <1>2 DEF TypeOK, Working
<1>4. DeliveriesLeft' /\ FutureIdle'
  BY <1>0, <1>1 DEF DeliveriesLeft, FutureIdle
<1>5. LockInv'
  BY <1>0, <1>1, StoreUnchanged, LocksKept
<1>6. QED
  BY <1>2, <1>3, <1>4, <1>5 DEF EngineInv, TypeInv

LEMMA IdleActions ==
  ASSUME EngineInv,
         \/ \E m \in Msg : publish(m) \/ AckWaitExpires(m)
         \/ \E n \in Node : BeginClose(n) \/ CloseDrained(n) \/ CloseGivesUp(n) \/ Restart(n)
         \/ UNCHANGED vars
  PROVE  EngineInv'
<1>0. /\ js \in [Msg -> MsgState] /\ status \in [Node -> Status]
      /\ delivered \in [Msg -> 0..ConsumerMaxDeliver] /\ ConsumerMaxDeliver \in Nat
      /\ faults \subseteq Faults /\ DeliveriesLeft
  BY EngineAssumption DEF EngineInv, TypeInv, TypeOK
<1>1. ASSUME NEW m \in Msg, publish(m)
      PROVE  EngineInv'
  <2>1. \A k \in Msg : js'[k] \in {"unsent", "ready"} =>
            js'[k] = js[k] \/ delivered[k] < ConsumerMaxDeliver
    BY <1>0, <1>1 DEF publish, DeliveriesLeft
  <2>2. js' \in [Msg -> MsgState]
    BY <1>0, <1>1 DEF publish, MsgState
  <2>3. QED
    BY <1>0, <1>1, <2>1, <2>2, IdleStep DEF publish
<1>2. ASSUME NEW m \in Msg, AckWaitExpires(m)
      PROVE  EngineInv'
  <2>1. js' = [js EXCEPT ![m] = Requeued(m)]
    BY <1>2 DEF AckWaitExpires
  <2>2. js' \in [Msg -> MsgState]
    BY <1>0, <2>1 DEF Requeued, MsgState
  <2>3. \A k \in Msg : js'[k] \in {"unsent", "ready"} =>
            js'[k] = js[k] \/ delivered[k] < ConsumerMaxDeliver
    BY <1>0, <2>1 DEF Requeued
  <2>4. faults' \subseteq Faults
    BY <1>0, <1>2, StrikeFacts DEF AckWaitExpires
  <2>5. QED
    BY <1>0, <1>2, <2>2, <2>3, <2>4, IdleStep DEF AckWaitExpires
<1>3. ASSUME NEW n \in Node,
             BeginClose(n) \/ CloseDrained(n) \/ CloseGivesUp(n) \/ Restart(n)
      PROVE  EngineInv'
  <2>1. /\ \E q \in Status : status' = [status EXCEPT ![n] = q]
        /\ UNCHANGED <<store, js, delivered, pc, at, why, effects, dead, faults>>
    BY <1>3 DEF BeginClose, CloseDrained, CloseGivesUp, EndClose, Restart, Status
  <2>2. QED
    BY <1>0, <2>1, IdleStep
<1>4. CASE UNCHANGED vars
  BY <1>0, <1>4, IdleStep DEF vars, store
<1>5. QED
  BY <1>1, <1>2, <1>3, <1>4

(* A delivery begins on an idle worker.                                     *)
LEMMA DeliverStep ==
  ASSUME EngineInv, NEW m \in Msg, NEW n \in Node, Deliver(m, n)
  PROVE  EngineInv'
<1>0. /\ TypeOK /\ DeliveriesLeft /\ FutureIdle /\ LockInv
      /\ Store!TypeOK /\ Store!LimitRespected
  BY DEF EngineInv, TypeInv, TypeOK
<1>left. delivered[m] + 1 \in 1..ConsumerMaxDeliver
  BY <1>0, EngineAssumption DEF Deliver, SentTo, TypeOK, DeliveriesLeft
<1>2. PICK d \in Delivery : d = <<m, delivered[m] + 1>>
  BY <1>left DEF Delivery
<1>3. d[1] = m /\ d[2] = delivered[m] + 1 /\ delivered[m] \in Nat
  BY <1>0, <1>2, EngineAssumption DEF TypeOK
<1>place. PICK p \in {"locking", "handling"} :
        p = IF KeysOf(d) = <<>> THEN "handling" ELSE "locking"
  OBVIOUS
<1>1. /\ js[m] = "ready" /\ js' = [js EXCEPT ![m] = "sent"]
      /\ delivered' = [delivered EXCEPT ![m] = @ + 1]
      /\ pc' = [pc EXCEPT ![d] = p] /\ at' = [at EXCEPT ![d] = n]
      /\ zset' = zset /\ handle' = handle
      /\ UNCHANGED <<status, why, effects, dead, faults>>
  BY <1>2, <1>place DEF Deliver, SentTo, store
<1>4. pc[d] = "idle"
  BY <1>0, <1>3 DEF FutureIdle
<1>5. /\ delivered' \in [Msg -> 0..ConsumerMaxDeliver] /\ delivered'[m] = d[2]
      /\ \A k \in Msg \ {m} : delivered'[k] = delivered[k]
  BY <1>0, <1>1, <1>3, <1>left DEF TypeOK
<1>6. p \in {"locking", "handling"} /\ p \in Place
  BY DEF Place
<1>7. /\ pc' \in [Delivery -> Place] /\ at' \in [Delivery -> Node \cup {Absent}]
      /\ pc'[d] = p /\ at'[d] = n
      /\ \A e \in Delivery \ {d} : pc'[e] = pc[e] /\ at'[e] = at[e]
  BY <1>0, <1>1, <1>3, <1>6 DEF TypeOK
<1>8. \A e \in Delivery : Working(e)' <=> at'[e] # Absent
  <2>1. n # Absent
    BY EngineAssumption
  <2>2. \A e \in Delivery \ {d} : Working(e)' <=> at'[e] # Absent
    BY <1>0, <1>7 DEF TypeOK, Working
  <2>3. Working(d)' <=> at'[d] # Absent
    BY <1>6, <1>7, <2>1 DEF Working
  <2>4. QED
    BY <2>2, <2>3
<1>9. \A e \in Delivery : pc'[e] \in Running => why'[e] = "none"
  BY <1>0, <1>1, <1>3, <1>4, <1>7 DEF TypeOK, Running
<1>10. js' \in [Msg -> MsgState] /\ Store!TypeOK'
  BY <1>0, <1>1 DEF TypeOK, MsgState, Store!TypeOK
<1>11. TypeOK'
  BY <1>0, <1>1, <1>5, <1>7, <1>8, <1>9, <1>10 DEF TypeOK
<1>12. DeliveriesLeft'
  BY <1>0, <1>1, <1>5 DEF TypeOK, DeliveriesLeft
<1>13. FutureIdle'
  <2> SUFFICES ASSUME NEW e \in Delivery, e[2] > delivered'[e[1]]
               PROVE  pc'[e] = "idle"
    BY DEF FutureIdle
  <2>1. e[1] \in Msg /\ e[2] \in 1..ConsumerMaxDeliver
    BY DEF Delivery
  <2>2. e # d
    BY <1>3, <1>5
  <2>3. e[2] > delivered[e[1]]
    <3>1. CASE e[1] = m
      BY <1>3, <1>5, <2>1, <3>1
    <3>2. CASE e[1] # m
      BY <1>5, <2>1, <3>2
    <3>3. QED
      BY <3>1, <3>2
  <2>4. QED
    BY <1>0, <1>7, <2>2, <2>3 DEF FutureIdle
<1>14. \A e \in Delivery : locks(e)' = locks(e)
  BY <1>1 DEF locks, KeysOf
<1>15. locks(d) = {}
  BY <1>0, <1>3, <1>4 DEF LockInv, IdleHoldsNone
<1>16. Len(KeysOf(d)) \in Nat /\ DOMAIN KeysOf(d) = 1..Len(KeysOf(d)) /\ KeysOf(d) \in Seq(Key)
  BY <1>3, KeyFacts
<1>17. /\ p = "handling" => Len(KeysOf(d)) = 0 /\ DOMAIN KeysOf(d) = {}
       /\ p = "locking" => Len(KeysOf(d)) > 0
  BY <1>16, <1>place
<1>18. IdleHoldsNone'
  BY <1>0, <1>6, <1>7, <1>14 DEF LockInv, IdleHoldsNone
<1>19. KeysToLock'
  <2> SUFFICES ASSUME NEW e \in Delivery, pc'[e] \in {"locking", "unwinding", "backoff"}
               PROVE  Len(KeysOf(e)) > 0
    BY DEF KeysToLock, KeysOf
  <2>1. CASE e = d
    BY <1>6, <1>7, <1>17, <2>1
  <2>2. CASE e # d
    BY <1>0, <1>7, <2>2 DEF LockInv, KeysToLock
  <2>3. QED
    BY <2>1, <2>2
<1>20. LocksInOrder'
  <2> SUFFICES ASSUME NEW e \in Delivery, pc'[e] = "locking"
               PROVE  \E k \in 0..(Len(KeysOf(e)) - 1) : locks(e) = 1..k
    BY <1>14 DEF LocksInOrder, KeysOf
  <2>1. CASE e = d
    <3>1. 0 \in 0..(Len(KeysOf(d)) - 1)
      BY <1>7, <1>16, <1>17, <2>1
    <3>2. locks(d) = 1..0
      BY <1>15
    <3>3. QED
      BY <2>1, <3>1, <3>2
  <2>2. CASE e # d
    BY <1>0, <1>7, <2>2 DEF LockInv, LocksInOrder
  <2>3. QED
    BY <2>1, <2>2
<1>21. AllLocksHeld'
  <2> SUFFICES ASSUME NEW e \in Delivery, pc'[e] = "handling"
               PROVE  locks(e) = DOMAIN KeysOf(e)
    BY <1>14 DEF AllLocksHeld, KeysOf
  <2>1. CASE e = d
    BY <1>7, <1>15, <1>16, <1>17, <2>1
  <2>2. CASE e # d
    BY <1>0, <1>7, <2>2 DEF LockInv, AllLocksHeld
  <2>3. QED
    BY <2>1, <2>2
<1>22. LocksLive'
  <2> SUFFICES ASSUME TtlCoversHandler,
                      NEW e \in Delivery, pc'[e] \in {"locking", "handling"},
                      NEW i \in locks(e)
               PROVE  Store!Live(<<e, i>>) /\ zset[<<e, i>>].key = KeysOf(e)[i]
    BY <1>1, <1>14 DEF LocksLive, KeysOf, Store!Live
  <2>1. e # d
    BY <1>15
  <2>2. QED
    BY <1>0, <1>7, <2>1 DEF LockInv, LocksLive
<1>23. Store!LimitRespected'
  BY <1>0, <1>1, LimitKept DEF Store!Live
<1>24. QED
  BY <1>11, <1>12, <1>13, <1>18, <1>19, <1>20, <1>21, <1>22, <1>23
     DEF EngineInv, TypeInv, LockInv

(* A delivery to a node that is closing is over at once.                    *)
LEMMA DeliverWhileClosingStep ==
  ASSUME EngineInv, NEW m \in Msg, NEW n \in Node, DeliverWhileClosing(m, n)
  PROVE  EngineInv'
<1>0. /\ TypeOK /\ DeliveriesLeft /\ FutureIdle /\ LockInv
      /\ Store!TypeOK /\ Store!LimitRespected
  BY DEF EngineInv, TypeInv, TypeOK
<1>left. delivered[m] + 1 \in 1..ConsumerMaxDeliver
  BY <1>0, EngineAssumption DEF DeliverWhileClosing, SentTo, TypeOK, DeliveriesLeft
<1>2. PICK d \in Delivery : d = <<m, delivered[m] + 1>>
  BY <1>left DEF Delivery
<1>3. /\ d[1] = m /\ d[2] = delivered[m] + 1 /\ delivered[m] \in Nat
      /\ d[2] \in 1..ConsumerMaxDeliver
  BY <1>0, <1>2, <1>left, EngineAssumption DEF TypeOK
<1>1. /\ js[m] = "ready"
      /\ \E q \in {"sent", "exhausted", "ready"} :
            /\ js' = [js EXCEPT ![m] = q]
            /\ q = "ready" => ~(d[2] >= ConsumerMaxDeliver)
      /\ delivered' = [delivered EXCEPT ![m] = @ + 1]
      /\ pc' = [pc EXCEPT ![d] = "done"]
      /\ zset' = zset /\ handle' = handle
      /\ UNCHANGED <<at, why, effects, dead, faults>>
  BY <1>2 DEF DeliverWhileClosing, SentTo, store
<1>4. pc[d] = "idle"
  BY <1>0, <1>3 DEF FutureIdle
<1>5. /\ delivered' \in [Msg -> 0..ConsumerMaxDeliver] /\ delivered'[m] = d[2]
      /\ \A k \in Msg \ {m} : delivered'[k] = delivered[k]
  BY <1>0, <1>1, <1>3 DEF TypeOK
<1>6. /\ pc' \in [Delivery -> Place] /\ pc'[d] = "done"
      /\ \A e \in Delivery \ {d} : pc'[e] = pc[e]
  BY <1>0, <1>1, <1>3 DEF TypeOK, Place
<1>7. \A e \in Delivery : Working(e)' <=> at'[e] # Absent
  BY <1>0, <1>1, <1>4, <1>6 DEF TypeOK, Working
<1>8. \A e \in Delivery : pc'[e] \in Running => why'[e] = "none"
  BY <1>0, <1>1, <1>6 DEF TypeOK, Running
<1>9. js' \in [Msg -> MsgState]
  BY <1>0, <1>1 DEF TypeOK, MsgState
<1>10. status' \in [Node -> Status]
  BY <1>0 DEF DeliverWhileClosing, TypeOK, Status
<1>11. Store!TypeOK' /\ Store!LimitRespected'
  BY <1>0, <1>1, LimitKept DEF Store!TypeOK, Store!Live
<1>12. TypeOK'
  BY <1>0, <1>1, <1>5, <1>6, <1>7, <1>8, <1>9, <1>10, <1>11 DEF TypeOK
<1>13. DeliveriesLeft'
  <2>1. js'[m] \in {"unsent", "ready"} => delivered'[m] < ConsumerMaxDeliver
    BY <1>0, <1>1, <1>3, <1>5, EngineAssumption DEF TypeOK
  <2>2. \A k \in Msg \ {m} : js'[k] = js[k]
    BY <1>0, <1>1 DEF TypeOK
  <2>3. QED
    BY <1>0, <1>5, <2>1, <2>2 DEF DeliveriesLeft
<1>14. FutureIdle'
  <2> SUFFICES ASSUME NEW e \in Delivery, e[2] > delivered'[e[1]]
               PROVE  pc'[e] = "idle"
    BY DEF FutureIdle
  <2>1. e[1] \in Msg /\ e[2] \in 1..ConsumerMaxDeliver
    BY DEF Delivery
  <2>2. e # d
    BY <1>3, <1>5
  <2>3. e[2] > delivered[e[1]]
    <3>1. CASE e[1] = m
      BY <1>3, <1>5, <2>1, <3>1
    <3>2. CASE e[1] # m
      BY <1>5, <2>1, <3>2
    <3>3. QED
      BY <3>1, <3>2
  <2>4. QED
    BY <1>0, <1>6, <2>2, <2>3 DEF FutureIdle
<1>15. LockInv'
  BY <1>0, <1>1, <1>6, LocksKept DEF Store!Live
<1>16. QED
  BY <1>11, <1>12, <1>13, <1>14, <1>15 DEF EngineInv, TypeInv

(* A node that dies takes its workers along and leaves their members.       *)
LEMMA CrashStep ==
  ASSUME EngineInv, NEW n \in Node, Crash(n)
  PROVE  EngineInv'
<1> DEFINE lost == {d \in Delivery : at[d] = n}
<1>0. /\ TypeOK /\ DeliveriesLeft /\ FutureIdle /\ LockInv
      /\ Store!TypeOK /\ Store!LimitRespected
  BY DEF EngineInv, TypeInv, TypeOK
<1>1. /\ Strike("crash")
      /\ status' = [status EXCEPT ![n] = "down"]
      /\ pc' = [d \in Delivery |-> IF d \in lost THEN "done" ELSE pc[d]]
      /\ at' = [d \in Delivery |-> IF d \in lost THEN Absent ELSE at[d]]
      /\ handle' = [s \in Slots |-> IF s[1] \in lost THEN Absent ELSE handle[s]]
      /\ UNCHANGED <<zset, js, delivered, why, effects, dead>>
  BY DEF Crash
<1>2. Store!TypeOK' /\ Store!LimitRespected'
  BY <1>0, <1>1, LimitKept DEF Store!TypeOK, Store!Live
<1>3. pc' \in [Delivery -> Place] /\ at' \in [Delivery -> Node \cup {Absent}]
  BY <1>0, <1>1 DEF TypeOK, Place
<1>4. \A e \in Delivery : Working(e)' <=> at'[e] # Absent
  BY <1>0, <1>1 DEF TypeOK, Working
<1>5. \A e \in Delivery : pc'[e] \in Running => why'[e] = "none"
  BY <1>0, <1>1 DEF TypeOK, Running
<1>6. status' \in [Node -> Status] /\ faults' \subseteq Faults
  BY <1>0, <1>1, StrikeFacts DEF TypeOK, Status
<1>7. TypeOK'
  BY <1>0, <1>1, <1>2, <1>3, <1>4, <1>5, <1>6 DEF TypeOK
<1>8. DeliveriesLeft'
  BY <1>0, <1>1 DEF DeliveriesLeft
<1>9. FutureIdle'
  <2>1. \A e \in Delivery : pc[e] = "idle" => e \notin lost
    BY <1>0, EngineAssumption DEF TypeOK, Working
  <2>2. QED
    BY <1>0, <1>1, <2>1 DEF FutureIdle
<1>10. LockInv'
  <2>1. \A e \in Delivery : pc'[e] \in {"idle", "locking", "handling"} =>
            e \notin lost /\ pc'[e] = pc[e]
    BY <1>1
  <2>2. \A e \in Delivery : pc'[e] \in {"idle", "locking", "handling"} =>
            \A i \in DOMAIN KeysOf(e) : handle'[<<e, i>>] = handle[<<e, i>>]
    <3> SUFFICES ASSUME NEW e \in Delivery, pc'[e] \in {"idle", "locking", "handling"},
                        NEW i \in DOMAIN KeysOf(e)
                 PROVE  handle'[<<e, i>>] = handle[<<e, i>>]
      OBVIOUS
    <3>1. <<e, i>> \in Slots /\ <<e, i>>[1] = e
      BY SlotFacts
    <3>2. QED
      BY <1>1, <2>1, <3>1
  <2>3. \A e \in Delivery : pc'[e] \in {"unwinding", "backoff"} =>
            pc[e] \in {"locking", "unwinding", "backoff"}
    BY <1>1
  <2>4. \A l \in Slots : Store!Live(l) =>
            Store!Live(l)' /\ zset'[l].key = zset[l].key
    BY <1>1 DEF Store!Live
  <2>5. QED
    BY <1>0, <2>1, <2>2, <2>3, <2>4, LocksKept
<1>11. QED
  BY <1>2, <1>7, <1>8, <1>9, <1>10 DEF EngineInv, TypeInv

(* Where the ttl covers the handlers, time ends no lock of a worker.        *)
LEMMA TickStep ==
  ASSUME EngineInv, Tick
  PROVE  EngineInv'
<1>0. /\ TypeOK /\ DeliveriesLeft /\ FutureIdle /\ LockInv
      /\ Store!TypeOK /\ Store!LimitRespected
  BY DEF EngineInv, TypeInv, TypeOK
<1>1. /\ TtlCoversHandler =>
           \A l \in Slots : Store!Live(l) /\ Working(l[1]) => zset[l].left > 1
      /\ zset' = [l \in Slots |-> IF Store!Live(l) THEN [zset[l] EXCEPT !.left = @ - 1]
                                                   ELSE zset[l]]
      /\ handle' = handle
      /\ UNCHANGED <<js, delivered, status, pc, at, why, effects, dead, faults>>
  BY DEF Tick, Store!Tick
<1>2. ASSUME NEW l \in Slots, Store!Live(l)
      PROVE  /\ zset'[l] \in Store!Member /\ zset'[l].key = zset[l].key
             /\ zset'[l].left = zset[l].left - 1 /\ zset[l].left \in Nat
  <2>1. zset[l] \in Store!Member /\ zset[l].left > 0
    BY <1>0, <1>2 DEF Store!TypeOK, Store!Live
  <2>2. zset'[l] = [zset[l] EXCEPT !.left = @ - 1]
    BY <1>1, <1>2
  <2>3. /\ zset[l].key \in Key /\ zset[l].left \in 0..MaxTtl
        /\ zset[l] = [key |-> zset[l].key, left |-> zset[l].left]
    BY <2>1 DEF Store!Member
  <2>4. zset'[l] = [key |-> zset[l].key, left |-> zset[l].left - 1]
    BY <2>2, <2>3
  <2>5. zset[l].left - 1 \in 0..MaxTtl /\ zset[l].left \in Nat
    BY <2>1, <2>3, EngineAssumption
  <2>6. QED
    BY <2>3, <2>4, <2>5 DEF Store!Member
<1>3. \A l \in Slots : ~Store!Live(l) => zset'[l] = zset[l]
  BY <1>1
<1>4. zset' \in [Slots -> Store!Member \cup {Absent}]
  <2>1. \A l \in Slots : zset'[l] \in Store!Member \cup {Absent}
    BY <1>0, <1>2, <1>3 DEF Store!TypeOK
  <2>2. QED
    BY <1>1, <2>1
<1>5. Store!TypeOK'
  BY <1>0, <1>1, <1>4 DEF Store!TypeOK
<1>6. Store!LimitRespected'
  <2>1. \A l \in Slots : Store!Live(l)' => Store!Live(l) /\ zset'[l].key = zset[l].key
    BY <1>2, <1>3 DEF Store!Live
  <2>2. QED
    BY <1>0, <2>1, LimitKept
<1>7. TypeOK'
  BY <1>0, <1>1, <1>5 DEF TypeOK, Working
<1>8. DeliveriesLeft' /\ FutureIdle'
  BY <1>0, <1>1 DEF DeliveriesLeft, FutureIdle
<1>9. LockInv'
  <2>1. ASSUME TtlCoversHandler, NEW l \in Slots, Store!Live(l), pc'[l[1]] \in {"locking", "handling"}
        PROVE  Store!Live(l)' /\ zset'[l].key = zset[l].key
    <3>1. zset[l].left > 1
      BY <1>1, <2>1 DEF Working
    <3>2. zset'[l] # Absent
      BY <1>2, <2>1, EngineAssumption DEF Store!Member
    <3>3. QED
      BY <1>2, <2>1, <3>1, <3>2 DEF Store!Live
  <2>2. QED
    BY <1>0, <1>1, <2>1, LocksKept
<1>10. QED
  BY <1>5, <1>6, <1>7, <1>8, <1>9 DEF EngineInv, TypeInv
-----------------------------------------------------------------------------
(***************************************************************************)
(* The invariant holds, and what it says of the handlers.                  *)
(***************************************************************************)
LEMMA EngineInit == Init => EngineInv
<1> SUFFICES ASSUME Init PROVE EngineInv
  OBVIOUS
<1>1. /\ zset = [l \in Slots |-> Absent] /\ handle = [l \in Slots |-> Absent]
      /\ \A d \in Delivery : pc[d] = "idle" /\ at[d] = Absent /\ why[d] = "none"
  BY DEF Init, Store!Init
<1>2. Store!TypeOK
  BY <1>1 DEF Store!TypeOK
<1>3. TypeOK
  BY <1>1, <1>2, EngineAssumption DEF Init, TypeOK, MsgState, Status, Place, Working
<1>4. DeliveriesLeft /\ FutureIdle
  BY <1>1, EngineAssumption DEF Init, DeliveriesLeft, FutureIdle
<1>5. \A d \in Delivery : locks(d) = {}
  BY <1>1, SlotFacts DEF locks
<1>6. LockInv
  BY <1>1, <1>5 DEF LockInv, IdleHoldsNone, KeysToLock, LocksInOrder, AllLocksHeld, LocksLive
<1>7. Store!LimitRespected
  <2>1. \A r \in Key : Store!LiveOn(r) = {}
    BY <1>1 DEF Store!LiveOn, Store!Live
  <2>2. Store!Cardinality({}) = 0
    BY FS_EmptySet, StoreCardinality
  <2>3. \A r \in Key : Store!Cardinality(Store!LiveOn(r)) = 0
    BY <2>1, <2>2
  <2>4. \A r \in Key : 0 <= Limit[r]
    BY EngineAssumption
  <2>5. QED
    BY <2>3, <2>4 DEF Store!LimitRespected
<1>8. QED
  BY <1>3, <1>4, <1>6, <1>7 DEF EngineInv, TypeInv

LEMMA EngineStep ==
  ASSUME EngineInv, [Next]_vars
  PROVE  EngineInv'
<1>1. CASE \E m \in Msg : publish(m) \/ AckWaitExpires(m)
  BY <1>1, IdleActions
<1>2. CASE \E m \in Msg, n \in Node : Deliver(m, n) \/ DeliverWhileClosing(m, n)
  BY <1>2, DeliverStep, DeliverWhileClosingStep
<1>3. ASSUME NEW d \in Delivery, Work(d)
      PROVE  EngineInv'
  BY <1>3, QuietActions, GrantStep, RefusedStep, ReleaseStep, RetryStep DEF Work
<1>4. ASSUME NEW d \in Delivery, AcquireThrows(d) \/ ReleaseThrows(d) \/ FailureThrows(d)
      PROVE  EngineInv'
  BY <1>4, QuietActions, ThrowStep, ReleaseThrowsStep
<1>5. ASSUME NEW n \in Node,
             \/ BeginClose(n) \/ CloseDrained(n) \/ CloseGivesUp(n)
             \/ Crash(n) \/ Restart(n)
      PROVE  EngineInv'
  BY <1>5, IdleActions, CrashStep
<1>6. CASE Tick
  BY <1>6, TickStep
<1>7. CASE Rest \/ UNCHANGED vars
  BY <1>7, IdleActions DEF Rest
<1>8. QED
  BY <1>1, <1>2, <1>3, <1>4, <1>5, <1>6, <1>7 DEF Next

(* Every handler that runs on r stands on a live member of r of its own.    *)
LEMMA HandlersHoldLocks == TtlCoversHandler /\ EngineInv => AtMostNWorkers
<1> SUFFICES ASSUME TtlCoversHandler, EngineInv, NEW r \in Key
             PROVE  Cardinality(Handlers(r)) <= Limit[r]
  BY DEF AtMostNWorkers
<1> DEFINE slot(d) == <<d, CHOOSE i \in DOMAIN KeysOf(d) : KeysOf(d)[i] = r>>
           f == [d \in Handlers(r) |-> slot(d)]
<1>1. LockInv /\ Store!LimitRespected
  BY DEF EngineInv
<1>2. ASSUME NEW d \in Handlers(r)
      PROVE  slot(d) \in Store!LiveOn(r)
  <2>1. /\ d \in Delivery /\ pc[d] = "handling"
        /\ \E i \in DOMAIN KeysOf(d) : KeysOf(d)[i] = r
    BY <1>2 DEF Handlers
  <2>2. PICK i \in DOMAIN KeysOf(d) : slot(d) = <<d, i>> /\ KeysOf(d)[i] = r
    BY <2>1
  <2>3. i \in locks(d)
    BY <1>1, <2>1 DEF LockInv, AllLocksHeld
  <2>4. Store!Live(<<d, i>>) /\ zset[<<d, i>>].key = r
    BY <1>1, <2>1, <2>2, <2>3 DEF LockInv, LocksLive
  <2>5. <<d, i>> \in Slots
    BY <2>1, SlotFacts
  <2>6. QED
    BY <2>2, <2>4, <2>5 DEF Store!LiveOn
<1>3. f \in Injection(Handlers(r), Store!LiveOn(r))
  BY <1>2 DEF Injection, IsInjective
<1>4. IsFiniteSet(Store!LiveOn(r))
  BY SlotsFinite, FS_Subset DEF Store!LiveOn
<1>5. IsFiniteSet(Handlers(r)) /\ Cardinality(Handlers(r)) <= Cardinality(Store!LiveOn(r))
  BY <1>3, <1>4, FS_Injection
<1>6. Cardinality(Store!LiveOn(r)) <= Limit[r]
  BY <1>1, StoreCardinality DEF Store!LimitRespected
<1>7. /\ Cardinality(Handlers(r)) \in Nat /\ Cardinality(Store!LiveOn(r)) \in Nat
      /\ Limit[r] \in Nat
  BY <1>4, <1>5, FS_CardinalityType, EngineAssumption
<1>8. QED
  BY <1>5, <1>6, <1>7

LEMMA EngineInvariant == Spec => []EngineInv
<1>1. EngineInv /\ [Next]_vars => EngineInv'
  BY EngineStep
<1>2. QED
  BY <1>1, EngineInit, PTL DEF Spec

(* Every variable keeps its type, whatever the ttl: a worker is on a node   *)
(* as long as it works, and has no error before something failed.           *)
THEOREM EngineTyping == Spec => []TypeOK
<1>1. EngineInv => TypeOK
  BY DEF EngineInv, TypeInv
<1>2. QED
  BY <1>1, EngineInvariant, PTL

(* No subject is processed by more workers than its limit, on all nodes     *)
(* together, if no lock expires before its handler ends (what nothing in    *)
(* processMessage sees to): whatever is redelivered, refused, released in a *)
(* loop that fails half-way, lost with a node or cut off by close.          *)
THEOREM EngineLimit ==
  ASSUME TtlCoversHandler
  PROVE  Spec => []AtMostNWorkers
<1>1. EngineInv => AtMostNWorkers
  BY HandlersHoldLocks
<1>2. QED
  BY <1>1, EngineInvariant, PTL

(* Under the same condition close, as long as it waits, cuts off no handler *)
(* that runs under a lock: the member of the lock is still counted.         *)
THEOREM EngineCloseWaits ==
  ASSUME TtlCoversHandler
  PROVE  Spec => CloseWaitsForHandlers
<1>1. ASSUME EngineInv, NEW n \in Node, CloseDrained(n), NEW d \in Delivery,
             KeysOf(d) # <<>>, pc[d] = "handling"
      PROVE  FALSE
  <2> DEFINE members == {l \in Slots : zset[l] # Absent}
  <2>1. 1 \in DOMAIN KeysOf(d) /\ <<d, 1>> \in Slots
    <3>1. Len(KeysOf(d)) \in Nat /\ DOMAIN KeysOf(d) = 1..Len(KeysOf(d)) /\ KeysOf(d) \in Seq(Key)
      BY KeyFacts
    <3>2. Len(KeysOf(d)) # 0
      BY <1>1, <3>1
    <3>3. 1 \in DOMAIN KeysOf(d)
      BY <3>1, <3>2
    <3>4. QED
      BY <3>3, SlotFacts
  <2>2. 1 \in locks(d)
    BY <1>1, <2>1 DEF EngineInv, LockInv, AllLocksHeld
  <2>3. Store!Live(<<d, 1>>)
    BY <1>1, <2>2 DEF EngineInv, LockInv, LocksLive
  <2>4. <<d, 1>> \in members
    BY <2>1, <2>3 DEF Store!Live
  <2>5. Cardinality(members) = 0
    BY <1>1, StoreCardinality DEF CloseDrained, Store!getGlobalActiveCount
  <2>6. IsFiniteSet(members)
    BY SlotsFinite, FS_Subset
  <2>7. members = {}
    BY <2>5, <2>6, FS_EmptySet
  <2>8. QED
    BY <2>4, <2>7
<1>2. EngineInv =>
        [\A n \in Node : CloseDrained(n) =>
            \A d \in Delivery : at[d] = n /\ KeysOf(d) # <<>> => pc[d] # "handling"]_vars
  BY <1>1
<1>3. QED
  BY <1>2, EngineInvariant, PTL DEF CloseWaitsForHandlers
-----------------------------------------------------------------------------
(***************************************************************************)
(* Failures.  A step of a worker, seen from the message: where it leads,   *)
(* with which error, and what it tells JetStream.                          *)
(***************************************************************************)
LockLoop == {"locking", "unwinding", "backoff"}

(* A failure of the store is what ends the lock loop with an error.         *)
StoreFailures == \A d \in Delivery :
    /\ pc[d] = "aborting" => why[d] = "store"
    /\ why[d] = "store" => "store" \in faults

(* No worker is on a node that is down.                                     *)
NodesUp == \A d \in Delivery : at[d] # Absent => status[at[d]] # "down"

(* JetStream has sent what it waits for an answer to.                       *)
SentBefore == \A m \in Msg : /\ js[m] = "unsent" => delivered[m] = 0
                             /\ js[m] = "sent" => delivered[m] > 0

FailInv == EngineInv /\ StoreFailures /\ NodesUp /\ SentBefore

(* It waits for its locks, or has the last one.                             *)
InLockLoop(d) ==
    /\ pc[d] \in LockLoop /\ pc'[d] \in LockLoop \cup {"handling"}
    /\ UNCHANGED <<js, effects, dead, why>>

(* A call of the store failed before the handler began.                     *)
LockLoopFails(d) ==
    /\ pc[d] \in LockLoop \cup {"aborting"} /\ pc'[d] \in {"aborting", "failing", "done"}
    /\ why'[d] = "store" /\ "store" \in faults'
    /\ UNCHANGED <<js, effects, dead>>

(* It has given its answer and releases its locks.                          *)
Settles(d) ==
    /\ pc[d] \in {"recording", "releasing"} /\ pc'[d] \in {"releasing", "done"}
    /\ UNCHANGED <<js, effects, dead, why>>

(* The metrics provider throws.                                             *)
MetricsFail(d) ==
    /\ "metrics" \in faults' /\ UNCHANGED <<js, effects, dead>>
    /\ \/ pc[d] = "recording" /\ pc'[d] = "failing" /\ why'[d] = "metrics"
       \/ pc[d] = "failing" /\ pc'[d] \in {"releasing", "done"} /\ UNCHANGED why

(* handleFailure ends.                                                      *)
Leaves(d) == pc[d] \in {"failing", "terming"} /\ pc'[d] \in {"releasing", "done"}
             /\ UNCHANGED <<effects, dead, why>>

(* The steps of a worker.                                                   *)
Kinds(d) ==
    \/ InLockLoop(d) \/ LockLoopFails(d) \/ Settles(d) \/ MetricsFail(d)
    \/ GiveUp(d) \/ HandlerReturns(d) \/ HandlerThrows(d) \/ Ack(d) \/ DeadLetter(d)
    \/ Leaves(d) /\ (FailureNaks(d) \/ Terminate(d))

LEMMA WorkerMoves ==
  ASSUME FailInv, NEW d \in Delivery,
         Work(d) \/ AcquireThrows(d) \/ ReleaseThrows(d) \/ FailureThrows(d)
  PROVE  /\ Kinds(d) /\ Working(d) /\ UNCHANGED <<delivered, status>>
         /\ faults \subseteq faults'
         /\ at'[d] \in {at[d], Absent}
         /\ \A e \in Delivery \ {d} : pc'[e] = pc[e] /\ why'[e] = why[e] /\ at'[e] = at[e]
<1>0. /\ TypeOK /\ StoreFailures
      /\ pc \in [Delivery -> Place] /\ at \in [Delivery -> Node \cup {Absent}]
      /\ why \in [Delivery -> {"none", "handler", "store", "metrics"}]
  BY DEF FailInv, EngineInv, TypeInv, TypeOK
<1>1. \A p : Goto(d, p) =>
        /\ pc'[d] = p /\ at'[d] \in {at[d], Absent}
        /\ \A e \in Delivery \ {d} : pc'[e] = pc[e] /\ at'[e] = at[e]
  BY <1>0 DEF Goto
<1>2. \A f : Strike(f) => f \in faults' /\ faults \subseteq faults'
  BY DEF Strike
<1>3. \A w : why' = [why EXCEPT ![d] = w] =>
        why'[d] = w /\ \A e \in Delivery \ {d} : why'[e] = why[e]
  BY <1>0
<1>4. CASE AcquireGranted(d)
  BY <1>1, <1>4 DEF AcquireGranted, Working, InLockLoop, LockLoop, Kinds
<1>5. CASE AcquireRefused(d)
  <2>1. PICK p \in {"unwinding", "backoff"} : Goto(d, p)
    BY <1>5, ReleaseLoopFacts, ReleaseFacts DEF AcquireRefused
  <2>2. QED
    BY <1>1, <1>5, <2>1 DEF AcquireRefused, Working, InLockLoop, LockLoop, Kinds
<1>6. CASE Release(d)
  <2>1. PICK p \in {pc[d], AfterRelease[pc[d]]} : Goto(d, p)
    BY <1>6 DEF Release
  <2>2. /\ pc[d] \in {"unwinding", "aborting", "releasing"}
        /\ UNCHANGED <<js, delivered, status, why, effects, dead, faults>>
    BY <1>6, ReleaseFacts DEF Release
  <2>3. /\ pc[d] = "unwinding" => p \in {"unwinding", "backoff"}
        /\ pc[d] = "aborting" => p \in {"aborting", "failing"}
        /\ pc[d] = "releasing" => p \in {"releasing", "done"}
    BY <2>1, <2>2, ReleaseFacts
  <2>4. pc[d] = "aborting" => why[d] = "store" /\ "store" \in faults
    BY <1>0 DEF StoreFailures
  <2>5. Kinds(d)
    BY <1>1, <2>1, <2>2, <2>3, <2>4
       DEF InLockLoop, LockLoopFails, Settles, LockLoop, Kinds
  <2>6. QED
    BY <1>1, <2>1, <2>2, <2>5 DEF Working
<1>7. CASE Retry(d)
  BY <1>1, <1>7 DEF Retry, Working, InLockLoop, LockLoop, Kinds
<1>8. CASE GiveUp(d)
  BY <1>1, <1>8 DEF GiveUp, Working, Kinds
<1>9. CASE HandlerReturns(d)
  BY <1>1, <1>9 DEF HandlerReturns, Working, Kinds
<1>10. CASE HandlerThrows(d)
  BY <1>1, <1>3, <1>10 DEF HandlerThrows, Working, Kinds
<1>11. CASE Ack(d)
  BY <1>1, <1>11 DEF Ack, Working, Kinds
<1>12. CASE RecordSuccess(d)
  <2>1. CASE ReleaseLoop(d, "releasing") /\ UNCHANGED <<why, faults>>
    <3>1. PICK p \in {"releasing", "done"} : Goto(d, p)
      BY <2>1, ReleaseLoopFacts, ReleaseFacts
    <3>2. QED
      BY <1>1, <1>12, <2>1, <3>1 DEF RecordSuccess, Working, Settles, Kinds
  <2>2. CASE Strike("metrics") /\ Goto(d, "failing") /\ why' = [why EXCEPT ![d] = "metrics"]
    BY <1>1, <1>2, <1>3, <1>12, <2>2 DEF RecordSuccess, Working, MetricsFail, Kinds
  <2>3. QED
    BY <1>12, <2>1, <2>2 DEF RecordSuccess
<1>13. CASE FailureThrows(d)
  <2>1. PICK p \in {"releasing", "done"} : Goto(d, p)
    BY <1>13, LeaveFacts DEF FailureThrows
  <2>2. QED
    BY <1>1, <1>2, <1>13, <2>1 DEF FailureThrows, Working, MetricsFail, Kinds
<1>14. CASE FailureNaks(d)
  <2>1. PICK p \in {"releasing", "done"} : Goto(d, p)
    BY <1>14, LeaveFacts DEF FailureNaks
  <2>2. QED
    BY <1>1, <1>14, <2>1 DEF FailureNaks, Working, Leaves, Kinds
<1>15. CASE DeadLetter(d)
  BY <1>1, <1>2, <1>15 DEF DeadLetter, Working, Kinds
<1>16. CASE Terminate(d)
  <2>1. PICK p \in {"releasing", "done"} : Goto(d, p)
    BY <1>16, LeaveFacts DEF Terminate
  <2>2. QED
    BY <1>1, <1>16, <2>1 DEF Terminate, Working, Leaves, Kinds
<1>17. CASE AcquireThrows(d)
  <2>1. PICK p \in {"aborting", "failing"} : Goto(d, p)
    BY <1>17, ReleaseLoopFacts, ReleaseFacts DEF AcquireThrows
  <2>2. QED
    BY <1>1, <1>2, <1>3, <1>17, <2>1
       DEF AcquireThrows, Working, LockLoopFails, LockLoop, Kinds
<1>18. CASE ReleaseThrows(d)
  <2>1. /\ pc[d] \in {"unwinding", "aborting", "releasing"} /\ Strike("store")
        /\ UNCHANGED <<js, delivered, status, effects, dead>>
    BY <1>18, ReleaseFacts DEF ReleaseThrows
  <2>2. CASE pc[d] = "unwinding"
    BY <1>1, <1>2, <1>3, <1>18, <2>1, <2>2
       DEF ReleaseThrows, Working, LockLoopFails, LockLoop, Kinds
  <2>3. CASE pc[d] # "unwinding"
    <3>1. Goto(d, "done") /\ UNCHANGED why
      BY <1>18, <2>3 DEF ReleaseThrows
    <3>2. pc[d] = "aborting" => why[d] = "store"
      BY <1>0 DEF StoreFailures
    <3>3. QED
      BY <1>1, <1>2, <2>1, <2>3, <3>1, <3>2
         DEF Working, LockLoopFails, Settles, LockLoop, Kinds
  <2>4. QED
    BY <2>2, <2>3
<1>19. QED
  BY <1>4, <1>5, <1>6, <1>7, <1>8, <1>9, <1>10, <1>11, <1>12, <1>13, <1>14, <1>15,
     <1>16, <1>17, <1>18 DEF Work

(* What a worker tells JetStream moves its own message, which was not       *)
(* settled, and never makes it sent.                                        *)
LEMMA AnswerMoves ==
  ASSUME EngineInv, NEW d \in Delivery,
         ack(d) \/ nak(d) \/ term(d) \/ UNCHANGED js
  PROVE  \A m \in Msg : \/ js'[m] = js[m]
                        \/ /\ m = d[1] /\ js[m] \in {"ready", "sent"}
                           /\ js'[m] \in {"acked", "termed", "exhausted", "ready"}
<1>1. js \in [Msg -> MsgState] /\ d[1] \in Msg
  BY DEF EngineInv, TypeInv, TypeOK, Delivery
<1>2. Requeued(d[1]) \in {"exhausted", "ready"}
  BY DEF Requeued
<1>3. CASE ack(d)
  BY <1>1, <1>3 DEF ack
<1>4. CASE nak(d)
  BY <1>1, <1>2, <1>4 DEF nak
<1>5. CASE term(d)
  BY <1>1, <1>5 DEF term
<1>6. QED
  BY <1>3, <1>4, <1>5

LEMMA KindAnswers ==
  ASSUME NEW d, Kinds(d)
  PROVE  ack(d) \/ nak(d) \/ term(d) \/ UNCHANGED js
BY DEF Kinds, InLockLoop, LockLoopFails, Settles, MetricsFail, GiveUp, HandlerReturns,
       HandlerThrows, Ack, DeadLetter, FailureNaks, Terminate

(* A worker that is still on a node that did not end can answer.            *)
LEMMA ConnectedWorker ==
  ASSUME FailInv, NEW d \in Delivery, Working(d), \A n \in Node : status[n] # "closed"
  PROVE  Connected(at[d])
<1>1. at[d] \in Node /\ status[at[d]] \in Status /\ status[at[d]] # "down"
  BY EngineAssumption DEF FailInv, EngineInv, TypeInv, TypeOK, NodesUp
<1>2. QED
  BY <1>1 DEF Connected, Status

LEMMA FailInit == Init => FailInv
<1> SUFFICES ASSUME Init PROVE FailInv
  OBVIOUS
<1>1. /\ \A d \in Delivery : pc[d] = "idle" /\ at[d] = Absent /\ why[d] = "none"
      /\ \A m \in Msg : js[m] = "unsent" /\ delivered[m] = 0
  BY DEF Init
<1>2. StoreFailures /\ NodesUp /\ SentBefore
  BY <1>1 DEF StoreFailures, NodesUp, SentBefore
<1>3. QED
  BY <1>2, EngineInit DEF FailInv

LEMMA FailWorker ==
  ASSUME FailInv, EngineInv', NEW d \in Delivery,
         Work(d) \/ AcquireThrows(d) \/ ReleaseThrows(d) \/ FailureThrows(d)
  PROVE  FailInv'
<1>1. /\ Kinds(d) /\ Working(d) /\ UNCHANGED <<delivered, status>>
      /\ faults \subseteq faults'
      /\ at'[d] \in {at[d], Absent}
      /\ \A e \in Delivery \ {d} : pc'[e] = pc[e] /\ why'[e] = why[e] /\ at'[e] = at[e]
  BY WorkerMoves
<1>2. EngineInv /\ StoreFailures /\ NodesUp /\ SentBefore
  BY DEF FailInv
<1>3. /\ pc'[d] = "aborting" => why'[d] = "store"
      /\ why'[d] = "store" => "store" \in faults'
  <2>1. /\ pc \in [Delivery -> Place]
        /\ why \in [Delivery -> {"none", "handler", "store", "metrics"}]
    BY <1>2 DEF EngineInv, TypeInv, TypeOK
  <2>2. why'[d] = "store" => why[d] = "store" \/ "store" \in faults'
    BY <1>1, <2>1 DEF Kinds, InLockLoop, LockLoopFails, Settles, MetricsFail, GiveUp,
       HandlerReturns, HandlerThrows, Ack, DeadLetter, Leaves
  <2>3. pc'[d] = "aborting" => LockLoopFails(d)
    BY <1>1, <2>1 DEF Kinds, InLockLoop, Settles, MetricsFail, GiveUp, LockLoop, Goto,
       HandlerReturns, HandlerThrows, Ack, DeadLetter, Leaves
  <2>4. QED
    BY <1>1, <1>2, <2>2, <2>3 DEF StoreFailures, LockLoopFails
<1>4. StoreFailures'
  BY <1>1, <1>2, <1>3 DEF StoreFailures
<1>5. NodesUp'
  BY <1>1, <1>2 DEF NodesUp
<1>6. SentBefore'
  BY <1>1, <1>2, KindAnswers, AnswerMoves DEF SentBefore
<1>7. QED
  BY <1>4, <1>5, <1>6 DEF FailInv

LEMMA FailDelivery ==
  ASSUME FailInv, EngineInv', NEW m \in Msg, NEW n \in Node,
         Deliver(m, n) \/ DeliverWhileClosing(m, n)
  PROVE  FailInv'
<1>0. /\ EngineInv /\ StoreFailures /\ NodesUp /\ SentBefore
      /\ pc \in [Delivery -> Place] /\ at \in [Delivery -> Node \cup {Absent}]
      /\ js \in [Msg -> MsgState] /\ status \in [Node -> Status]
      /\ delivered \in [Msg -> 0..ConsumerMaxDeliver] /\ ConsumerMaxDeliver \in Nat
  BY EngineAssumption DEF FailInv, EngineInv, TypeInv, TypeOK
<1>1. /\ \E q \in {"sent", "exhausted", "ready"} : js' = [js EXCEPT ![m] = q]
      /\ delivered' = [delivered EXCEPT ![m] = @ + 1]
      /\ UNCHANGED <<why, faults>>
  BY DEF Deliver, DeliverWhileClosing, SentTo
<1>2. SentBefore'
  BY <1>0, <1>1 DEF SentBefore
<1>3. StoreFailures'
  <2>1. \E d, p : p \in {"handling", "locking", "done"} /\ pc' = [pc EXCEPT ![d] = p]
    BY DEF Deliver, DeliverWhileClosing
  <2>2. \A e \in Delivery : pc'[e] = "aborting" => pc[e] = "aborting"
    BY <1>0, <2>1
  <2>3. QED
    BY <1>0, <1>1, <2>2 DEF StoreFailures
<1>4. NodesUp'
  <2>1. CASE Deliver(m, n)
    <3>1. /\ status[n] = "up" /\ status' = status
          /\ \E d : at' = [at EXCEPT ![d] = n]
      BY <2>1 DEF Deliver
    <3>2. QED
      BY <1>0, <3>1 DEF NodesUp
  <2>2. CASE DeliverWhileClosing(m, n)
    <3>1. at' = at /\ status' \in {status, [status EXCEPT ![n] = "deaf"]}
      BY <2>2 DEF DeliverWhileClosing
    <3>2. QED
      BY <1>0, <3>1 DEF NodesUp
  <2>3. QED
    BY <2>1, <2>2
<1>5. QED
  BY <1>2, <1>3, <1>4 DEF FailInv

(* The steps that move no worker.                                           *)
Elsewhere == \/ \E m \in Msg : publish(m) \/ AckWaitExpires(m)
             \/ \E n \in Node : BeginClose(n) \/ CloseDrained(n) \/ CloseGivesUp(n) \/ Restart(n)
             \/ Tick \/ Rest \/ UNCHANGED vars

LEMMA ElsewhereMoves ==
  ASSUME FailInv, Elsewhere
  PROVE  /\ UNCHANGED <<delivered, pc, at, why, effects, dead>> /\ faults \subseteq faults'
         /\ \A m \in Msg : \/ js'[m] = js[m]
                           \/ js[m] = "unsent" /\ js'[m] = "ready"
                           \/ AckWaitExpires(m) /\ js[m] = "sent"
                              /\ js'[m] \in {"exhausted", "ready"}
         /\ \A n \in Node : \/ status'[n] = status[n] \/ status[n] = "down"
                            \/ status[n] # "closed" /\ status'[n] \in {"closing", "closed"}
<1>0. js \in [Msg -> MsgState] /\ status \in [Node -> Status]
  BY DEF FailInv, EngineInv, TypeInv, TypeOK
<1>2. CASE \E m \in Msg : publish(m)
  BY <1>0, <1>2 DEF publish
<1>3. CASE \E m \in Msg : AckWaitExpires(m)
  <2>1. PICK m \in Msg : AckWaitExpires(m)
    BY <1>3
  <2>2. /\ js' = [js EXCEPT ![m] = Requeued(m)] /\ js[m] = "sent"
        /\ UNCHANGED <<delivered, status, pc, at, why, effects, dead>>
        /\ faults \subseteq faults'
    BY <2>1 DEF AckWaitExpires, Strike
  <2>3. Requeued(m) \in {"exhausted", "ready"}
    BY DEF Requeued
  <2>4. QED
    BY <1>0, <2>1, <2>2, <2>3
<1>4. CASE \E n \in Node : BeginClose(n) \/ CloseDrained(n) \/ CloseGivesUp(n) \/ Restart(n)
  BY <1>0, <1>4 DEF BeginClose, CloseDrained, CloseGivesUp, EndClose, Restart
<1>5. CASE Tick \/ Rest \/ UNCHANGED vars
  BY <1>5 DEF Tick, Rest, vars
<1>6. QED
  BY <1>2, <1>3, <1>4, <1>5 DEF Elsewhere

LEMMA CrashMoves ==
  ASSUME FailInv, NEW n \in Node, Crash(n)
  PROVE  /\ "crash" \in faults' /\ faults \subseteq faults'
         /\ UNCHANGED <<js, delivered, why, effects, dead>>
         /\ \A e \in Delivery : \/ pc'[e] = pc[e] /\ at'[e] = at[e] /\ at[e] # n
                                \/ pc'[e] = "done" /\ at'[e] = Absent
         /\ \A k \in Node \ {n} : status'[k] = status[k]
BY DEF Crash, Strike, FailInv, EngineInv, TypeInv, TypeOK

(* Every step is one of these.                                              *)
LEMMA StepCases ==
  ASSUME [Next]_vars
  PROVE  \/ \E d \in Delivery :
              Work(d) \/ AcquireThrows(d) \/ ReleaseThrows(d) \/ FailureThrows(d)
         \/ \E m \in Msg, n \in Node : Deliver(m, n) \/ DeliverWhileClosing(m, n)
         \/ \E n \in Node : Crash(n)
         \/ Elsewhere
BY DEF Next, Elsewhere

LEMMA FailStep == FailInv /\ [Next]_vars => FailInv'
<1> SUFFICES ASSUME FailInv, [Next]_vars PROVE FailInv'
  OBVIOUS
<1>0. EngineInv'
  BY EngineStep DEF FailInv
<1>1. CASE Elsewhere
  <2>1. /\ UNCHANGED <<delivered, pc, at, why>> /\ faults \subseteq faults'
        /\ \A m \in Msg : \/ js'[m] = js[m]
                          \/ js[m] \in {"unsent", "sent"} /\ js'[m] \in {"exhausted", "ready"}
        /\ \A n \in Node : status'[n] = status[n] \/ status[n] = "down"
                           \/ status'[n] \in {"closing", "closed"}
    BY <1>1, ElsewhereMoves
  <2>2. StoreFailures' /\ SentBefore'
    BY <2>1 DEF FailInv, StoreFailures, SentBefore
  <2>3. NodesUp'
    <3>1. at \in [Delivery -> Node \cup {Absent}]
      BY DEF FailInv, EngineInv, TypeInv, TypeOK
    <3>2. QED
      BY <2>1, <3>1 DEF FailInv, NodesUp
  <2>4. QED
    BY <1>0, <2>2, <2>3 DEF FailInv
<1>2. CASE \E n \in Node : Crash(n)
  <2>1. PICK n \in Node : Crash(n)
    BY <1>2
  <2>2. StoreFailures' /\ SentBefore'
    BY <2>1, CrashMoves DEF FailInv, StoreFailures, SentBefore
  <2>3. NodesUp'
    BY <2>1, CrashMoves DEF FailInv, NodesUp, EngineInv, TypeInv, TypeOK
  <2>4. QED
    BY <1>0, <2>2, <2>3 DEF FailInv
<1>3. QED
  BY <1>0, <1>1, <1>2, StepCases, FailWorker, FailDelivery
-----------------------------------------------------------------------------
(***************************************************************************)
(* The dead letter subject.                                                *)
(***************************************************************************)
(* The publish, or the worker on the way there, may have been lost.         *)
LetterLost == faults \cap {"crash", "metrics", "dls"} # {} \/ \E n \in Node : status[n] = "closed"

Gone(m) == js[m] \in {"termed", "acked", "exhausted"}

(* The last delivery that failed publishes its message before it            *)
(* terminates it.                                                           *)
LetterInv == \A d \in Delivery :
    d[2] = ConsumerMaxDeliver /\ why[d] = "handler" /\ d[1] \notin Garbled /\ ~LetterLost =>
      /\ pc[d] \in {"terming", "releasing", "done"} => d[1] \in dead
      /\ pc[d] \in {"releasing", "done"} => Gone(d[1])

(* A closed connection stays closed until the process dies.                 *)
LEMMA ClosedStays ==
  ASSUME FailInv, [Next]_vars
  PROVE  \/ "crash" \in faults'
         \/ /\ faults \subseteq faults'
            /\ \A n \in Node : status[n] = "closed" => status'[n] = "closed"
<1>0. status \in [Node -> Status]
  BY DEF FailInv, EngineInv, TypeInv, TypeOK
<1>1. CASE Elsewhere
  BY <1>1, ElsewhereMoves
<1>2. CASE \E n \in Node : Crash(n)
  BY <1>2, CrashMoves
<1>3. CASE \E d \in Delivery :
             Work(d) \/ AcquireThrows(d) \/ ReleaseThrows(d) \/ FailureThrows(d)
  BY <1>3, WorkerMoves
<1>4. CASE \E m \in Msg, n \in Node : Deliver(m, n) \/ DeliverWhileClosing(m, n)
  BY <1>0, <1>4 DEF Deliver, DeliverWhileClosing
<1>5. QED
  BY <1>1, <1>2, <1>3, <1>4, StepCases

LEMMA LetterWorker ==
  ASSUME MaxDeliver <= ConsumerMaxDeliver, FailInv, LetterInv, ~LetterLost',
         NEW d \in Delivery,
         Work(d) \/ AcquireThrows(d) \/ ReleaseThrows(d) \/ FailureThrows(d)
  PROVE  LetterInv'
<1>1. /\ Kinds(d) /\ Working(d) /\ UNCHANGED <<delivered, status>>
      /\ faults \subseteq faults'
      /\ \A e \in Delivery \ {d} : pc'[e] = pc[e] /\ why'[e] = why[e]
  BY WorkerMoves
<1>2. ~LetterLost /\ Connected(at[d])
  BY <1>1, ConnectedWorker DEF LetterLost
<1>3. /\ pc \in [Delivery -> Place] /\ js \in [Msg -> MsgState] /\ why \in [Delivery -> {"none", "handler", "store", "metrics"}]
      /\ \A e \in Delivery : pc[e] \in Running => why[e] = "none"
      /\ \A e \in Delivery : pc[e] = "aborting" => why[e] = "store"
      /\ FutureIdle /\ SentBefore /\ EngineInv /\ delivered \in [Msg -> 0..ConsumerMaxDeliver]
  BY DEF FailInv, StoreFailures, EngineInv, TypeInv, TypeOK
<1>4. d[1] \in Msg /\ d[2] \in 1..ConsumerMaxDeliver /\ MaxDeliver \in Nat /\ ConsumerMaxDeliver \in Nat
  BY EngineAssumption DEF Delivery
<1>5. \A m \in Msg : Gone(m) => Gone(m)'
  BY <1>1, <1>3, KindAnswers, AnswerMoves DEF Gone
<1>6. dead \subseteq dead'
  BY <1>1 DEF Kinds, InLockLoop, LockLoopFails, Settles, MetricsFail, GiveUp, HandlerReturns,
       HandlerThrows, Ack, DeadLetter, Leaves
<1>7. ASSUME d[2] = ConsumerMaxDeliver, why'[d] = "handler", d[1] \notin Garbled
      PROVE  /\ pc'[d] \in {"terming", "releasing", "done"} => d[1] \in dead'
             /\ pc'[d] \in {"releasing", "done"} => Gone(d[1])'
  <2>1. CASE DeadLetter(d)
    <3>1. "dls" \notin faults' /\ ~Strike("dls")
      BY DEF LetterLost, Strike
    <3>2. d[1] \in dead' /\ pc' = [pc EXCEPT ![d] = "terming"]
      BY <1>2, <1>7, <2>1, <3>1 DEF DeadLetter, Goto
    <3>3. QED
      BY <1>3, <3>2
  <2>2. CASE HandlerThrows(d)
    <3>1. pc' = [pc EXCEPT ![d] = "failing"]
      BY <2>2 DEF HandlerThrows, Goto
    <3>2. QED
      BY <1>3, <3>1
  <2>3. CASE Leaves(d) /\ Terminate(d)
    <3>1. why[d] = "handler" /\ pc[d] = "terming"
      BY <1>7, <2>3 DEF Leaves, Terminate
    <3>2. d[1] \in dead'
      BY <1>2, <1>6, <1>7, <3>1 DEF LetterInv
    <3>3. delivered[d[1]] # 0 /\ js[d[1]] # "unsent"
      <4>1. ~(d[2] > delivered[d[1]])
        BY <1>3, <3>1 DEF FutureIdle
      <4>2. QED
        BY <1>3, <1>4, <4>1 DEF SentBefore
    <3>4. term(d)
      BY <2>3, <3>1 DEF Terminate, Unanswered
    <3>5. Gone(d[1])'
      BY <1>2, <1>3, <1>4, <3>3, <3>4 DEF term, Gone, MsgState
    <3>6. QED
      BY <3>2, <3>5
  <2>4. CASE Leaves(d) /\ FailureNaks(d)
    BY <1>4, <1>7, <2>4 DEF FailureNaks, Exhausted
  <2>5. CASE Settles(d)
    <3>1. why[d] = "handler" /\ pc[d] = "releasing"
      BY <1>3, <1>7, <2>5 DEF Settles, Running
    <3>2. QED
      BY <1>2, <1>4, <1>5, <1>6, <1>7, <3>1 DEF LetterInv
  <2>6. CASE MetricsFail(d)
    BY <2>6 DEF MetricsFail, LetterLost
  <2>7. CASE InLockLoop(d) \/ LockLoopFails(d) \/ GiveUp(d) \/ HandlerReturns(d) \/ Ack(d)
    <3>1. why'[d] # "handler"
      BY <1>3, <2>7 DEF InLockLoop, LockLoopFails, GiveUp, HandlerReturns, Ack, LockLoop, Running
    <3>2. QED
      BY <1>7, <3>1
  <2>8. QED
    BY <1>1, <2>1, <2>2, <2>3, <2>4, <2>5, <2>6, <2>7 DEF Kinds
<1>8. ASSUME NEW e \in Delivery, e # d, e[2] = ConsumerMaxDeliver, why'[e] = "handler",
             e[1] \notin Garbled
      PROVE  /\ pc'[e] \in {"terming", "releasing", "done"} => e[1] \in dead'
             /\ pc'[e] \in {"releasing", "done"} => Gone(e[1])'
  <2>1. e[1] \in Msg /\ pc'[e] = pc[e] /\ why[e] = "handler"
    BY <1>1, <1>8 DEF Delivery
  <2>2. QED
    BY <1>2, <1>5, <1>6, <1>8, <2>1 DEF LetterInv
<1>9. QED
  BY <1>7, <1>8 DEF LetterInv

LEMMA LetterDelivery ==
  ASSUME FailInv, LetterInv, ~LetterLost, NEW m \in Msg, NEW n \in Node,
         Deliver(m, n) \/ DeliverWhileClosing(m, n)
  PROVE  LetterInv'
<1>0. /\ pc \in [Delivery -> Place] /\ js \in [Msg -> MsgState]
      /\ \A e \in Delivery : pc[e] \in Running => why[e] = "none"
      /\ FutureIdle /\ delivered \in [Msg -> 0..ConsumerMaxDeliver]
  BY DEF FailInv, EngineInv, TypeInv, TypeOK
<1>1. PICK d : d = <<m, delivered[m] + 1>>
  OBVIOUS
<1>2. /\ js[m] = "ready"
      /\ \E q \in {"sent", "exhausted", "ready"} : js' = [js EXCEPT ![m] = q]
      /\ \E p \in {"handling", "locking", "done"} : pc' = [pc EXCEPT ![d] = p]
      /\ UNCHANGED <<why, dead>>
  BY <1>1 DEF Deliver, DeliverWhileClosing, SentTo
<1>3. d \in Delivery => why[d] = "none"
  <2>1. d[1] = m /\ d[2] = delivered[m] + 1 /\ delivered[m] \in Nat
    BY <1>0, <1>1
  <2>2. d \in Delivery => pc[d] = "idle"
    BY <1>0, <2>1 DEF FutureIdle
  <2>3. QED
    BY <1>0, <2>2 DEF Running
<1>4. \A e \in Delivery : why[e] = "handler" => pc'[e] = pc[e]
  BY <1>0, <1>2, <1>3
<1>5. \A k \in Msg : Gone(k) => Gone(k)'
  BY <1>0, <1>2 DEF Gone
<1>6. \A e \in Delivery : e[1] \in Msg
  BY DEF Delivery
<1>7. QED
  BY <1>2, <1>4, <1>5, <1>6 DEF LetterInv

LEMMA LetterStep ==
  ASSUME MaxDeliver <= ConsumerMaxDeliver, FailInv, LetterInv, [Next]_vars
  PROVE  LetterInv'
<1>1. CASE LetterLost'
  BY <1>1 DEF LetterInv
<1>2. CASE ~LetterLost'
  <2>1. ~LetterLost /\ "crash" \notin faults'
    BY <1>2, ClosedStays DEF LetterLost
  <2>2. CASE Elsewhere
    <3>1. \A k \in Msg : Gone(k) => Gone(k)'
      BY <2>2, ElsewhereMoves DEF Gone
    <3>2. \A e \in Delivery : e[1] \in Msg
      BY DEF Delivery
    <3>3. QED
      BY <2>1, <2>2, <3>1, <3>2, ElsewhereMoves DEF LetterInv
  <2>3. CASE \E n \in Node : Crash(n)
    BY <2>1, <2>3, CrashMoves
  <2>4. QED
    BY <1>2, <2>1, <2>2, <2>3, StepCases, LetterWorker, LetterDelivery
<1>3. QED
  BY <1>1, <1>2

(* Whatever the ttl, the limits and the number of nodes: a message whose    *)
(* handler failed on its last delivery is on the dead letter subject and    *)
(* off the consumer, unless a fault or close took the worker or the letter. *)
(* It needs the consumer to count no fewer deliveries than the code does.   *)
THEOREM EngineDeadLetters ==
  ASSUME MaxDeliver <= ConsumerMaxDeliver
  PROVE  Spec => []PoisonDeadLettered
<1>1. Init => FailInv /\ LetterInv
  <2>1. Init => LetterInv
    BY DEF Init, LetterInv
  <2>2. QED
    BY <2>1, FailInit
<1>2. FailInv /\ LetterInv /\ [Next]_vars => FailInv' /\ LetterInv'
  BY FailStep, LetterStep
<1>3. LetterInv => PoisonDeadLettered
  BY DEF LetterInv, LetterLost, Gone, PoisonDeadLettered
<1>4. QED
  BY <1>1, <1>2, <1>3, PTL DEF Spec
-----------------------------------------------------------------------------
(***************************************************************************)
(* The handler's effect, once.                                             *)
(***************************************************************************)
CutOff == faults \cap {"crash", "stall"} # {} \/ \E n \in Node : status[n] = "closed"

(* d may still have its effect, or an answer of its own to give.            *)
Busy(d) == \/ pc[d] \in LockLoop \cup {"aborting", "handling", "handled"}
           \/ pc[d] \in {"failing", "terming"} /\ why[d] # "metrics"

Latest(d) == d[2] = delivered[d[1]] /\ js[d[1]] = "sent"

(* Unless a worker was cut off, only the latest delivery of a message is    *)
(* busy, and an effect is acknowledged or about to be.                      *)
Sole == ~CutOff =>
    /\ \A d \in Delivery : Busy(d) => Latest(d)
    /\ \A m \in Msg : \/ effects[m] = 0
                      \/ effects[m] = 1 /\ js[m] = "acked"
                      \/ /\ effects[m] = 1
                         /\ \E d \in Delivery : d[1] = m /\ pc[d] = "handled"

LEMMA SameDelivery ==
  ASSUME NEW d \in Delivery, NEW e \in Delivery, d[1] = e[1], d[2] = e[2]
  PROVE  d = e
BY DEF Delivery

LEMMA SoleWorker ==
  ASSUME FailInv, EngineInv', Sole, ~CutOff, ~CutOff', NEW d \in Delivery,
         Work(d) \/ AcquireThrows(d) \/ ReleaseThrows(d) \/ FailureThrows(d)
  PROVE  Sole'
<1>1. /\ Kinds(d) /\ Working(d) /\ UNCHANGED <<delivered, status>>
      /\ \A e \in Delivery \ {d} : pc'[e] = pc[e] /\ why'[e] = why[e]
  BY WorkerMoves
<1>2. Connected(at[d])
  BY <1>1, ConnectedWorker DEF CutOff
<1>3. /\ pc \in [Delivery -> Place] /\ js \in [Msg -> MsgState]
      /\ why \in [Delivery -> {"none", "handler", "store", "metrics"}]
      /\ effects \in [Msg -> Nat] /\ EngineInv
      /\ \A e \in Delivery : pc[e] \in Running => why[e] = "none"
      /\ \A e \in Delivery : pc[e] = "aborting" => why[e] = "store"
      /\ \A e \in Delivery : e[1] \in Msg
  BY DEF FailInv, StoreFailures, EngineInv, TypeInv, TypeOK, Delivery
<1>4. ASSUME NEW e \in Delivery, e # d, Busy(d), e[1] = d[1]
      PROVE  ~Busy(e)
  BY <1>4, SameDelivery DEF Sole, Latest
<1>5. \A m \in Msg \ {d[1]} : js'[m] = js[m] /\ effects'[m] = effects[m]
  <2>1. \A m \in Msg \ {d[1]} : js'[m] = js[m]
    BY <1>1, <1>3, KindAnswers, AnswerMoves
  <2>2. \A m \in Msg \ {d[1]} : effects'[m] = effects[m]
    BY <1>1, <1>3 DEF Kinds, InLockLoop, LockLoopFails, Settles, MetricsFail, GiveUp,
       HandlerReturns, HandlerThrows, Ack, DeadLetter, Leaves
  <2>3. QED
    BY <2>1, <2>2
(* What the step does to its own message.                                   *)
<1>6. /\ Busy(d)' => Busy(d) /\ js'[d[1]] = js[d[1]]
      /\ js'[d[1]] # js[d[1]] => Busy(d)
      /\ \/ effects' = effects
         \/ /\ pc[d] = "handling" /\ pc'[d] = "handled" /\ js' = js
            /\ effects' = [effects EXCEPT ![d[1]] = @ + 1]
      /\ pc[d] = "handled" => js[d[1]] = "sent" /\ js'[d[1]] = "acked"
  <2>1. CASE InLockLoop(d)
    BY <1>3, <2>1 DEF InLockLoop, Busy, LockLoop
  <2>2. CASE LockLoopFails(d)
    BY <1>3, <2>2 DEF LockLoopFails, Busy, LockLoop
  <2>3. CASE Settles(d) \/ MetricsFail(d)
    BY <1>3, <2>3 DEF Settles, MetricsFail, Busy, LockLoop
  <2>4. CASE GiveUp(d)
    <3>1. pc[d] = "backoff" /\ pc' = [pc EXCEPT ![d] = "done"] /\ effects' = effects
      BY <2>4 DEF GiveUp, Goto
    <3>2. QED
      BY <1>3, <3>1 DEF Busy, LockLoop
  <2>5. CASE HandlerReturns(d)
    <3>1. /\ pc[d] = "handling" /\ pc' = [pc EXCEPT ![d] = "handled"] /\ js' = js
          /\ effects' = [effects EXCEPT ![d[1]] = @ + 1]
      BY <2>5 DEF HandlerReturns, Goto
    <3>2. QED
      BY <1>3, <3>1 DEF Busy, LockLoop
  <2>6. CASE HandlerThrows(d)
    <3>1. /\ pc[d] = "handling" /\ pc' = [pc EXCEPT ![d] = "failing"] /\ js' = js
          /\ effects' = effects
      BY <2>6 DEF HandlerThrows, Goto
    <3>2. QED
      BY <1>3, <3>1 DEF Busy, LockLoop
  <2>7. CASE Ack(d)
    <3>1. /\ pc[d] = "handled" /\ pc' = [pc EXCEPT ![d] = "recording"]
          /\ effects' = effects /\ ack(d)
      BY <2>7 DEF Ack, Goto
    <3>2. Busy(d) /\ js[d[1]] = "sent"
      BY <3>1 DEF Busy, Sole, Latest
    <3>3. js'[d[1]] = "acked"
      BY <1>2, <1>3, <3>1, <3>2 DEF ack
    <3>4. QED
      BY <1>3, <3>1, <3>2, <3>3 DEF Busy, LockLoop
  <2>8. CASE DeadLetter(d)
    <3>1. /\ pc[d] = "failing" /\ pc' = [pc EXCEPT ![d] = "terming"] /\ js' = js
          /\ effects' = effects /\ why' = why
      BY <2>8 DEF DeadLetter, Goto
    <3>2. QED
      BY <1>3, <3>1 DEF Busy, LockLoop
  <2>9. CASE Leaves(d) /\ (FailureNaks(d) \/ Terminate(d))
    <3>1. js' # js => why[d] # "metrics"
      BY <2>9 DEF FailureNaks, Terminate, Unanswered
    <3>2. QED
      BY <1>3, <2>9, <3>1 DEF Leaves, Busy, LockLoop
  <2>10. QED
    BY <1>1, <2>1, <2>2, <2>3, <2>4, <2>5, <2>6, <2>7, <2>8, <2>9 DEF Kinds
<1>7. \A e \in Delivery : Busy(e)' => Latest(e)'
  <2> SUFFICES ASSUME NEW e \in Delivery, Busy(e)' PROVE Latest(e)'
    OBVIOUS
  <2>1. CASE e = d
    BY <1>1, <1>6, <2>1 DEF Sole, Latest
  <2>2. CASE e # d
    <3>1. Busy(e) /\ Latest(e)
      BY <1>1, <2>2 DEF Busy, Sole
    <3>2. js'[e[1]] = js[e[1]]
      BY <1>3, <1>4, <1>5, <1>6, <2>2, <3>1
    <3>3. QED
      BY <1>1, <3>1, <3>2 DEF Latest
  <2>3. QED
    BY <2>1, <2>2
<1>8. ASSUME NEW m \in Msg
      PROVE  \/ effects'[m] = 0
             \/ effects'[m] = 1 /\ js'[m] = "acked"
             \/ effects'[m] = 1 /\ \E e \in Delivery : e[1] = m /\ pc'[e] = "handled"
  <2>1. \/ effects[m] = 0
        \/ effects[m] = 1 /\ js[m] = "acked"
        \/ effects[m] = 1 /\ \E e \in Delivery : e[1] = m /\ pc[e] = "handled"
    BY DEF Sole
  <2>2. CASE m # d[1]
    BY <1>1, <1>5, <2>1, <2>2
  <2>3. CASE m = d[1] /\ effects' # effects
    <3>1. Busy(d) /\ js[m] = "sent" /\ pc[d] = "handling"
      BY <1>6, <2>3 DEF Busy, Sole, Latest
    <3>2. \A e \in Delivery : e[1] = m => pc[e] # "handled"
      BY <1>4, <2>3, <3>1 DEF Busy
    <3>3. effects[m] = 0
      BY <2>1, <3>1, <3>2
    <3>4. QED
      BY <1>3, <1>6, <2>3, <3>3
  <2>4. CASE m = d[1] /\ effects' = effects
    <3>1. CASE effects[m] = 1 /\ js[m] = "acked"
      <4>1. ~Busy(d)
        BY <2>4, <3>1 DEF Sole, Latest
      <4>2. QED
        BY <1>6, <2>4, <3>1, <4>1
    <3>2. CASE effects[m] = 1 /\ \E e \in Delivery : e[1] = m /\ pc[e] = "handled"
      BY <1>1, <1>6, <2>4, <3>2
    <3>3. QED
      BY <2>1, <2>4, <3>1, <3>2
  <2>5. QED
    BY <2>2, <2>3, <2>4
<1>9. QED
  BY <1>7, <1>8 DEF Sole

LEMMA SoleDelivery ==
  ASSUME FailInv, Sole, ~CutOff, NEW m \in Msg, NEW n \in Node,
         Deliver(m, n) \/ DeliverWhileClosing(m, n)
  PROVE  Sole'
<1>0. /\ pc \in [Delivery -> Place] /\ js \in [Msg -> MsgState] /\ FutureIdle
      /\ delivered \in [Msg -> 0..ConsumerMaxDeliver] /\ DeliveriesLeft
      /\ ConsumerMaxDeliver \in Nat
  BY EngineAssumption DEF FailInv, EngineInv, TypeInv, TypeOK
<1>1. js[m] = "ready" /\ delivered[m] + 1 \in 1..ConsumerMaxDeliver
  BY <1>0 DEF Deliver, DeliverWhileClosing, SentTo, DeliveriesLeft
<1>2. PICK d \in Delivery : d = <<m, delivered[m] + 1>>
  BY <1>1 DEF Delivery
<1>3. d[1] = m /\ d[2] = delivered[m] + 1
  BY <1>2
<1>4. /\ \E q \in {"sent", "exhausted", "ready"} : js' = [js EXCEPT ![m] = q]
      /\ \E p \in {"handling", "locking", "done"} :
           /\ pc' = [pc EXCEPT ![d] = p]
           /\ p # "done" => js' = [js EXCEPT ![m] = "sent"]
      /\ delivered' = [delivered EXCEPT ![m] = @ + 1]
      /\ UNCHANGED <<why, effects>>
  BY <1>2 DEF Deliver, DeliverWhileClosing, SentTo
(* Nobody is busy with a message that waits to be sent.                     *)
<1>5. \A e \in Delivery : e[1] = m => ~Busy(e)
  BY <1>1 DEF Sole, Latest
<1>6. \A e \in Delivery : Busy(e)' => Latest(e)'
  <2> SUFFICES ASSUME NEW e \in Delivery, Busy(e)' PROVE Latest(e)'
    OBVIOUS
  <2>1. e[1] \in Msg
    BY DEF Delivery
  <2>2. CASE e = d
    BY <1>0, <1>3, <1>4, <2>2 DEF Busy, Latest, LockLoop
  <2>3. CASE e # d
    <3>1. Busy(e)
      BY <1>0, <1>4, <2>3 DEF Busy
    <3>2. e[1] # m /\ Latest(e)
      BY <1>5, <3>1 DEF Sole
    <3>3. QED
      BY <1>0, <1>4, <2>1, <3>2 DEF Latest
  <2>4. QED
    BY <2>2, <2>3
<1>7. ASSUME NEW k \in Msg
      PROVE  \/ effects'[k] = 0
             \/ effects'[k] = 1 /\ js'[k] = "acked"
             \/ effects'[k] = 1 /\ \E e \in Delivery : e[1] = k /\ pc'[e] = "handled"
  <2>1. pc[d] = "idle"
    BY <1>0, <1>3 DEF FutureIdle
  <2>2. \A e \in Delivery : pc[e] = "handled" => pc'[e] = "handled"
    BY <1>0, <1>4, <2>1
  <2>3. js[k] = "acked" => js'[k] = "acked"
    BY <1>0, <1>1, <1>4
  <2>4. QED
    BY <1>4, <2>2, <2>3 DEF Sole
<1>8. QED
  BY <1>6, <1>7 DEF Sole

(* ack_wait of a message whose worker is connected passes in a stall only.  *)
LEMMA SoleElsewhere ==
  ASSUME FailInv, Sole, ~CutOff, ~CutOff', Elsewhere
  PROVE  Sole'
<1>0. /\ pc \in [Delivery -> Place] /\ js \in [Msg -> MsgState] /\ SentBefore
      /\ delivered \in [Msg -> 0..ConsumerMaxDeliver] /\ ConsumerMaxDeliver \in Nat
      /\ \A e \in Delivery : Working(e) <=> at[e] # Absent
  BY EngineAssumption DEF FailInv, EngineInv, TypeInv, TypeOK
<1>1. /\ UNCHANGED <<delivered, pc, why, effects>>
      /\ \A m \in Msg : \/ js'[m] = js[m]
                        \/ js[m] = "unsent"
                        \/ AckWaitExpires(m) /\ js[m] = "sent"
  BY ElsewhereMoves
<1>2. ASSUME NEW m \in Msg, AckWaitExpires(m), js[m] = "sent", NEW e \in Delivery, e[1] = m
      PROVE  ~Busy(e)
  <2>1. PICK d \in Delivery : d = <<m, delivered[m]>>
    <3>1. delivered[m] \in 1..ConsumerMaxDeliver
      BY <1>0, <1>2 DEF SentBefore
    <3>2. <<m, delivered[m]>> \in Delivery
      BY <1>2, <3>1 DEF Delivery
    <3>3. QED
      BY <3>2
  <2>2. ~Strike("stall")
    BY DEF CutOff, Strike
  <2>3. ~Connected(at[d])
    BY <1>2, <2>1, <2>2 DEF AckWaitExpires
  <2>4. ~Working(d)
    BY <2>3, ConnectedWorker DEF CutOff
  <2>5. ~Busy(d)
    BY <2>4 DEF Working, Busy, LockLoop
  <2>6. QED
    BY <1>2, <2>1, <2>5, SameDelivery DEF Sole, Latest
<1>3. \A e \in Delivery : e[1] \in Msg
  BY DEF Delivery
<1>4. ASSUME NEW e \in Delivery, Busy(e)
      PROVE  js'[e[1]] = js[e[1]]
  BY <1>1, <1>2, <1>3, <1>4 DEF Sole, Latest
<1>5. \A e \in Delivery : Busy(e)' => Latest(e)'
  BY <1>1, <1>4 DEF Sole, Latest, Busy
<1>6. \A m \in Msg : js[m] = "acked" => js'[m] = "acked"
  BY <1>1
<1>7. QED
  BY <1>1, <1>5, <1>6 DEF Sole

LEMMA SoleStep == FailInv /\ Sole /\ [Next]_vars => Sole'
<1> SUFFICES ASSUME FailInv, Sole, [Next]_vars PROVE Sole'
  OBVIOUS
<1>0. EngineInv'
  BY EngineStep DEF FailInv
<1>1. CASE CutOff'
  BY <1>1 DEF Sole
<1>2. CASE ~CutOff'
  <2>1. ~CutOff /\ "crash" \notin faults'
    BY <1>2, ClosedStays DEF CutOff
  <2>2. \A n \in Node : ~Crash(n)
    BY <2>1, CrashMoves
  <2>3. QED
    BY <1>0, <1>2, <2>1, <2>2, StepCases, SoleWorker, SoleDelivery, SoleElsewhere
<1>3. QED
  BY <1>1, <1>2

(* Whatever is redelivered, refused or thrown, and whatever the store and   *)
(* the metrics do: a handler is run to its end a second time for a message  *)
(* only after a crash, a stall or close has cut a worker off.               *)
THEOREM EngineEffectsOnce == Spec => []RepeatsOnlyIfCutOff
<1>1. Init => FailInv /\ Sole
  <2>1. Init => Sole
    BY DEF Init, Sole, Busy, LockLoop
  <2>2. QED
    BY <2>1, FailInit
<1>2. FailInv /\ Sole /\ [Next]_vars => FailInv' /\ Sole'
  BY FailStep, SoleStep
<1>3. Sole => RepeatsOnlyIfCutOff
  BY DEF Sole, CutOff, RepeatsOnlyIfCutOff
<1>4. QED
  BY <1>1, <1>2, <1>3, PTL DEF Spec
-----------------------------------------------------------------------------
(***************************************************************************)
(* No lock is left behind.                                                 *)
(***************************************************************************)
Lossy == faults \cap {"crash", "store"} # {}

(* Without a lossy fault every live member has its lock object, and who     *)
(* waits or is done has none.                                               *)
HeldInv == ~Lossy =>
    /\ \A l \in Slots : handle[l] = Absent => ~Store!Live(l)
    /\ \A d \in Delivery : pc[d] \in {"idle", "backoff", "done"} => locks(d) = {}

LEMMA HeldKept ==
  ASSUME HeldInv, ~Lossy, NEW d \in Delivery,
         \A e \in Delivery \ {d} : pc'[e] = pc[e],
         \A s \in Slots : s[1] # d => handle'[s] = handle[s],
         \A s \in Slots : handle'[s] = Absent => ~Store!Live(s)',
         pc'[d] \in {"idle", "backoff", "done"} => locks(d)' = {}
  PROVE  HeldInv'
<1>1. ASSUME NEW e \in Delivery, e # d
      PROVE  locks(e)' = locks(e)
  <2>1. \A i \in DOMAIN KeysOf(e) : handle'[<<e, i>>] = handle[<<e, i>>]
    BY <1>1, SlotFacts
  <2>2. QED
    BY <2>1 DEF locks, KeysOf
<1>2. QED
  BY <1>1 DEF HeldInv

LEMMA HeldGranted ==
  ASSUME FailInv, HeldInv, ~Lossy, NEW d \in Delivery,
         AcquireGranted(d) \/ AcquireRefused(d)
  PROVE  HeldInv'
<1>0. TypeInv /\ TypeOK /\ LockInv /\ Store!TypeOK
  BY DEF FailInv, EngineInv, TypeInv, TypeOK
<1>1. CASE AcquireGranted(d)
  <2>1. /\ pc[d] = "locking" /\ Store!ScriptAdds(NextSlot(d), NextKey(d), MaxTtl, Limit[NextKey(d)])
        /\ handle' = [handle EXCEPT ![NextSlot(d)] = NextKey(d)]
        /\ \E p \in {"handling", "locking"} : pc' = [pc EXCEPT ![d] = p]
    BY <1>1 DEF AcquireGranted, Store!acquire, Goto
  <2>2. NextSlot(d) \in Slots /\ NextKey(d) \in Key /\ NextSlot(d)[1] = d /\ NextKey(d) # Absent
    BY <1>0, <2>1, NextFacts, EngineAssumption DEF LockInv, NextSlot
  <2>3. \A s \in Slots : s # NextSlot(d) => zset'[s] \in {Absent, zset[s]}
    BY <1>0, <2>1, <2>2, AddFacts
  <2>4. \A s \in Slots : s # NextSlot(d) => handle'[s] = handle[s]
    BY <1>0, <2>1 DEF Store!TypeOK
  <2>5. handle'[NextSlot(d)] # Absent
    BY <1>0, <2>1, <2>2 DEF Store!TypeOK
  <2>6. \A s \in Slots : handle'[s] = Absent => ~Store!Live(s)'
    BY <2>3, <2>4, <2>5 DEF HeldInv, Store!Live
  <2>7. /\ pc'[d] \in {"handling", "locking"}
        /\ \A e \in Delivery \ {d} : pc'[e] = pc[e]
    BY <1>0, <2>1 DEF TypeOK
  <2>8. QED
    BY <2>2, <2>4, <2>6, <2>7, HeldKept
<1>2. CASE AcquireRefused(d)
  <2>1. /\ pc[d] = "locking" /\ Store!ScriptRefuses(NextKey(d), Limit[NextKey(d)])
        /\ handle' = handle /\ ReleaseLoop(d, "unwinding")
    BY <1>2 DEF AcquireRefused, Store!acquireRefused
  <2>2. NextKey(d) \in Key
    BY <1>0, <2>1, NextFacts DEF LockInv
  <2>3. \A s \in Slots : zset'[s] \in {Absent, zset[s]}
    BY <1>0, <2>1, <2>2, RefuseFacts
  <2>4. \A s \in Slots : handle'[s] = Absent => ~Store!Live(s)'
    BY <2>1, <2>3 DEF HeldInv, Store!Live
  <2>5. /\ pc'[d] = "backoff" => locks(d) = {}
        /\ pc'[d] \in {"unwinding", "backoff"}
        /\ \A e \in Delivery \ {d} : pc'[e] = pc[e]
    BY <1>0, <2>1, ReleaseFacts DEF ReleaseLoop, Goto, TypeOK
  <2>6. locks(d)' = locks(d)
    BY <2>1 DEF locks, KeysOf
  <2>7. QED
    BY <2>1, <2>4, <2>5, <2>6, HeldKept
<1>3. QED
  BY <1>1, <1>2

LEMMA HeldReleased ==
  ASSUME FailInv, HeldInv, ~Lossy, NEW d \in Delivery, Release(d) \/ Retry(d)
  PROVE  HeldInv'
<1>0. /\ pc \in [Delivery -> Place] /\ handle \in [Slots -> Key \cup {Absent}]
      /\ zset \in [Slots -> Store!Member \cup {Absent}]
  BY DEF FailInv, EngineInv, TypeInv, TypeOK, Store!TypeOK
<1>1. CASE Release(d)
  <2> DEFINE l == <<d, Min(locks(d))>>
             p == IF Cardinality(locks(d)) = 1 THEN AfterRelease[pc[d]] ELSE pc[d]
  <2>1. /\ pc[d] \in {"unwinding", "aborting", "releasing"} /\ pc' = [pc EXCEPT ![d] = p]
        /\ zset' = [zset EXCEPT ![l] = Absent] /\ handle' = [handle EXCEPT ![l] = Absent]
    BY <1>1, ReleaseFacts DEF Release, Store!release, Goto
  <2>2. \A s \in Slots : handle'[s] = Absent => ~Store!Live(s)'
    <3> SUFFICES ASSUME NEW s \in Slots, handle'[s] = Absent PROVE ~Store!Live(s)'
      OBVIOUS
    <3>1. CASE s = l
      BY <1>0, <2>1, <3>1 DEF Store!Live
    <3>2. CASE s # l
      <4>1. handle'[s] = handle[s] /\ zset'[s] = zset[s]
        BY <1>0, <2>1, <3>2
      <4>2. QED
        BY <4>1 DEF HeldInv, Store!Live
    <3>3. QED
      BY <3>1, <3>2
  <2>3. \A s \in Slots : s[1] # d => handle'[s] = handle[s]
    BY <1>0, <2>1
  <2>4. ASSUME Cardinality(locks(d)) = 1
        PROVE  locks(d)' = {}
    <3>0. Len(KeysOf(d)) \in Nat /\ DOMAIN KeysOf(d) = 1..Len(KeysOf(d))
      BY KeyFacts
    <3>1. IsFiniteSet(locks(d))
      <4>1. IsFiniteSet(DOMAIN KeysOf(d))
        <5>1. 1 \in Int /\ Len(KeysOf(d)) \in Int
          BY <3>0
        <5>2. QED
          BY <3>0, <5>1, FS_Interval
      <4>2. locks(d) \subseteq DOMAIN KeysOf(d)
        BY DEF locks
      <4>3. QED
        BY <4>1, <4>2, FS_Subset
    <3>2. PICK i : locks(d) = {i}
      BY <2>4, <3>1, FS_Singleton
    <3>3. i \in DOMAIN KeysOf(d) /\ i \in Int
      <4>1. i \in DOMAIN KeysOf(d)
        BY <3>2 DEF locks
      <4>2. QED
        BY <3>0, <4>1
    <3>4. Min(locks(d)) = i
      BY <3>2, <3>3 DEF Min
    <3>5. \A j \in DOMAIN KeysOf(d) : handle'[<<d, j>>] = Absent
      <4> SUFFICES ASSUME NEW j \in DOMAIN KeysOf(d) PROVE handle'[<<d, j>>] = Absent
        OBVIOUS
      <4>1. <<d, j>> \in Slots
        BY SlotFacts
      <4>2. CASE j = i
        BY <1>0, <2>1, <3>4, <4>1, <4>2
      <4>3. CASE j # i
        <5>1. handle[<<d, j>>] = Absent
          BY <3>2, <4>3 DEF locks
        <5>2. QED
          BY <1>0, <2>1, <4>1, <5>1
      <4>4. QED
        BY <4>2, <4>3
    <3>6. QED
      BY <3>5 DEF locks, KeysOf
  <2>5. pc'[d] \in {"idle", "backoff", "done"} => Cardinality(locks(d)) = 1
    BY <1>0, <2>1
  <2>6. \A e \in Delivery \ {d} : pc'[e] = pc[e]
    BY <1>0, <2>1
  <2>7. QED
    BY <2>2, <2>3, <2>4, <2>5, <2>6, HeldKept
<1>2. CASE Retry(d)
  <2>1. /\ pc[d] = "backoff" /\ pc' = [pc EXCEPT ![d] = "locking"] /\ zset' = zset
        /\ handle' = [s \in Slots |-> IF s[1] = d THEN Absent ELSE handle[s]]
    BY <1>2 DEF Retry, Goto
  <2>2. locks(d) = {}
    BY <2>1 DEF HeldInv
  <2>3. \A s \in Slots : s[1] = d => handle[s] = Absent
    <3> SUFFICES ASSUME NEW s \in Slots, s[1] = d PROVE handle[s] = Absent
      OBVIOUS
    <3>1. s = <<d, s[2]>> /\ s[2] \in DOMAIN KeysOf(d)
      BY SlotFacts
    <3>2. QED
      BY <2>2, <3>1 DEF locks
  <2>4. \A s \in Slots : handle'[s] = Absent => ~Store!Live(s)'
    BY <2>1, <2>3 DEF HeldInv, Store!Live
  <2>5. QED
    BY <1>0, <2>1, <2>4, HeldKept
<1>3. QED
  BY <1>1, <1>2

(* Whoever is done without a release loop had nothing to release.           *)
LEMMA HeldQuiet ==
  ASSUME FailInv, HeldInv, ~Lossy, NEW d \in Delivery,
         \/ GiveUp(d) \/ HandlerReturns(d) \/ HandlerThrows(d) \/ Ack(d)
         \/ RecordSuccess(d) \/ FailureThrows(d) \/ FailureNaks(d)
         \/ DeadLetter(d) \/ Terminate(d)
  PROVE  HeldInv'
<1>0. pc \in [Delivery -> Place] /\ why[d] # "store"
  BY DEF FailInv, StoreFailures, Lossy, EngineInv, TypeInv, TypeOK
<1>1. zset' = zset /\ handle' = handle
  BY DEF store, GiveUp, HandlerReturns, HandlerThrows, Ack, RecordSuccess, FailureThrows,
         FailureNaks, DeadLetter, Terminate
<1>2. \A p : Goto(d, p) => /\ pc'[d] = p
                           /\ \A e \in Delivery \ {d} : pc'[e] = pc[e]
  BY <1>0 DEF Goto
<1>3. ReleaseLoop(d, "releasing") => \E p \in {"releasing", "done"} :
        Goto(d, p) /\ (p = "done" => locks(d) = {})
  BY ReleaseFacts DEF ReleaseLoop
<1>4. \E p \in {"done", "handled", "failing", "recording", "releasing", "terming"} :
        Goto(d, p) /\ (p = "done" => locks(d) = {})
  <2>1. CASE GiveUp(d)
    BY <2>1 DEF GiveUp, HeldInv
  <2>2. CASE HandlerReturns(d) \/ HandlerThrows(d) \/ Ack(d) \/ DeadLetter(d)
    BY <2>2 DEF HandlerReturns, HandlerThrows, Ack, DeadLetter
  <2>3. CASE RecordSuccess(d)
    BY <1>3, <2>3 DEF RecordSuccess
  <2>4. CASE FailureThrows(d) \/ FailureNaks(d) \/ Terminate(d)
    BY <1>0, <1>3, <2>4 DEF FailureThrows, FailureNaks, Terminate, LeaveFailure
  <2>5. QED
    BY <2>1, <2>2, <2>3, <2>4
<1>5. locks(d)' = locks(d)
  BY <1>1 DEF locks, KeysOf
<1>6. \A s \in Slots : handle'[s] = Absent => ~Store!Live(s)'
  BY <1>1 DEF HeldInv, Store!Live
<1>7. QED
  BY <1>1, <1>2, <1>4, <1>5, <1>6, HeldKept

LEMMA HeldElsewhere ==
  ASSUME FailInv, HeldInv, ~Lossy,
         \/ Elsewhere
         \/ \E m \in Msg, n \in Node : Deliver(m, n) \/ DeliverWhileClosing(m, n)
  PROVE  HeldInv'
<1>0. pc \in [Delivery -> Place] /\ zset \in [Slots -> Store!Member \cup {Absent}]
      /\ FutureIdle /\ delivered \in [Msg -> 0..ConsumerMaxDeliver]
  BY DEF FailInv, EngineInv, TypeInv, TypeOK, Store!TypeOK
<1>1. handle' = handle /\ \A s \in Slots : Store!Live(s)' => Store!Live(s)
  <2>1. CASE Tick
    <3>1. /\ handle' = handle
          /\ zset' = [l \in Slots |-> IF Store!Live(l) THEN [zset[l] EXCEPT !.left = @ - 1]
                                                       ELSE zset[l]]
      BY <2>1 DEF Tick, Store!Tick
    <3>2. QED
      BY <3>1 DEF Store!Live
  <2>2. CASE UNCHANGED store
    BY <2>2 DEF store, Store!Live
  <2>3. UNCHANGED store \/ Tick
    BY DEF Elsewhere, publish, AckWaitExpires, BeginClose, CloseDrained, CloseGivesUp, EndClose,
           Restart, Rest, vars, store, Deliver, DeliverWhileClosing
  <2>4. QED
    BY <2>1, <2>2, <2>3
<1>2. \A d \in Delivery : pc'[d] \in {"idle", "backoff", "done"} =>
        pc[d] \in {"idle", "backoff", "done"}
  <2>1. CASE Elsewhere
    BY <2>1, ElsewhereMoves
  <2>2. ASSUME NEW m \in Msg, NEW n \in Node, Deliver(m, n) \/ DeliverWhileClosing(m, n)
        PROVE  \A d \in Delivery : pc'[d] \in {"idle", "backoff", "done"} =>
                 pc[d] \in {"idle", "backoff", "done"}
    <3>1. PICK d : d = <<m, delivered[m] + 1>>
      OBVIOUS
    <3>2. \E p : pc' = [pc EXCEPT ![d] = p]
      BY <2>2, <3>1 DEF Deliver, DeliverWhileClosing
    <3>3. d[1] = m /\ d[2] = delivered[m] + 1 /\ delivered[m] \in Nat
      BY <1>0, <3>1
    <3>4. d \in Delivery => pc[d] = "idle"
      BY <1>0, <3>3 DEF FutureIdle
    <3>5. QED
      BY <1>0, <3>2, <3>4
  <2>3. QED
    BY <2>1, <2>2
<1>3. \A d \in Delivery : locks(d)' = locks(d)
  BY <1>1 DEF locks, KeysOf
<1>4. QED
  BY <1>1, <1>2, <1>3 DEF HeldInv

LEMMA HeldStep == FailInv /\ HeldInv /\ [Next]_vars => HeldInv'
<1> SUFFICES ASSUME FailInv, HeldInv, [Next]_vars PROVE HeldInv'
  OBVIOUS
<1>1. CASE Lossy'
  BY <1>1 DEF HeldInv
<1>2. CASE ~Lossy'
  <2>1. ~Lossy /\ "crash" \notin faults'
    BY <1>2, ClosedStays DEF Lossy
  <2>2. \A n \in Node : ~Crash(n)
    BY <2>1, CrashMoves
  <2>3. \A d \in Delivery : ~AcquireThrows(d) /\ ~ReleaseThrows(d)
    BY <1>2 DEF Lossy, AcquireThrows, ReleaseThrows, Strike
  <2>4. CASE \E d \in Delivery : Work(d) \/ FailureThrows(d)
    BY <2>1, <2>4, HeldGranted, HeldReleased, HeldQuiet DEF Work
  <2>5. QED
    BY <2>1, <2>2, <2>3, <2>4, StepCases, HeldElsewhere
<1>3. QED
  BY <1>1, <1>2

(* As long as no process died and no call of the store failed, a worker     *)
(* that waits for a key or is done has no member left in Redis: whatever is *)
(* refused, thrown by a handler or by the metrics, redelivered or closed.   *)
THEOREM EngineLeaksNothing == Spec => []NoLeakedLock
<1>1. Init => FailInv /\ HeldInv
  <2>1. Init => HeldInv
    <3> SUFFICES ASSUME Init PROVE HeldInv
      OBVIOUS
    <3>1. \A l \in Slots : zset[l] = Absent /\ handle[l] = Absent
      BY DEF Init, Store!Init
    <3>2. \A d \in Delivery : locks(d) = {}
      BY <3>1, SlotFacts DEF locks
    <3>3. QED
      BY <3>1, <3>2 DEF HeldInv, Store!Live
  <2>2. QED
    BY <2>1, FailInit
<1>2. FailInv /\ HeldInv /\ [Next]_vars => FailInv' /\ HeldInv'
  BY FailStep, HeldStep
<1>3. HeldInv => NoLeakedLock
  <2> SUFFICES ASSUME HeldInv, ~Lossy, NEW l \in Slots,
                      handle[l] = Absent \/ pc[l[1]] \in {"idle", "backoff", "done"}
               PROVE  ~Store!Live(l)
    BY DEF NoLeakedLock, Lossy
  <2>1. l[1] \in Delivery /\ l[2] \in DOMAIN KeysOf(l[1]) /\ l = <<l[1], l[2]>>
    BY SlotFacts
  <2>2. pc[l[1]] \in {"idle", "backoff", "done"} => handle[l] = Absent
    BY <2>1 DEF HeldInv, locks
  <2>3. QED
    BY <2>2 DEF HeldInv
<1>4. QED
  BY <1>1, <1>2, <1>3, PTL DEF Spec
=============================================================================
