-------------------------- MODULE Messaging_proofs --------------------------
(***************************************************************************)
(* The ways a message reaches its handlers: the bus with its idempotency   *)
(* interceptor, the transport inside the process with its cache, and the   *)
(* streams and consumers the nodes of a cluster provision on NATS.         *)
(*                                                                         *)
(* The interceptor, for any number of processes, listeners, messages,      *)
(* transports and faults: a key that was neither set twice nor lost is in  *)
(* the store from the moment its handler is called, so no second copy gets *)
(* past the store.                                                         *)
(*                                                                         *)
(* The cache, for every set of topics and patterns, every hash and every   *)
(* size: the proof does not look into the trie; what is cached is what the *)
(* search finds, and the trie changes only together with a cache that is   *)
(* emptied.                                                                *)
(*                                                                         *)
(* The trie, for the same: the search for a topic comes to a path in one   *)
(* way at most and to those that cover the topic, so a subscription more   *)
(* is found once more by each topic one of its paths covers.               *)
(*                                                                         *)
(* The startup, for all workers, queues, streams, failures and restarts:   *)
(* what mergeSubjects drops has a subject above it that stays, because     *)
(* "above" is a strict order and a finite set has its topmost members.     *)
(***************************************************************************)
EXTENDS MessageBus, InternalTransport, NatsMQStartup, FiniteSetTheorems,
        WellFoundedInduction, SequenceTheorems, TLAPS

Fields == {"m", "l", "via", "at", "key", "pc"}

(* A copy is a record; its key names its listener, and one that does not    *)
(* want the check is with its handler from the start.                       *)
IsCopy(c) == /\ DOMAIN c = Fields
             /\ c.key.sub[1] = c.l
             /\ c.l \in Unchecked => c.pc = "handling"

Handles(c, k) == c.key = k /\ c.pc = "handling"

(* What holds of a key that the store has kept and one copy has set.        *)
Sole(k) ==
    k \notin raced \cup forgotten /\ k.sub[1] \notin Unchecked =>
      /\ k \notin twice
      /\ k \in once => k \in store
      /\ \A c \in copies : Handles(c, k) => k \in store /\ k \notin once
      /\ \A c, d \in copies : Handles(c, k) /\ Handles(d, k) => c = d

IInv == /\ \A c \in copies : IsCopy(c)
        /\ \A k \in twice : k.sub[1] \notin Unchecked
        /\ \A k : Sole(k)

LEMMA InitSole == Init => IInv
  BY DEF Init, IInv, Sole

LEMMA CopyIsCopy ==
    ASSUME NEW m, NEW l, NEW v, NEW p
    PROVE  /\ IsCopy(Copy(m, l, v, p))
           /\ Copy(m, l, v, p).pc = "handling" => l \in Unchecked
           /\ Copy(m, l, v, p).l = l
  <1>1. subscriptionId(l, p)[1] = l
    BY DEF subscriptionId
  <1>2. storageKey(m, l, p).sub[1] = l
    BY <1>1 DEF storageKey
  <1> QED BY <1>2 DEF Copy, IsCopy, Fields

(* Steps that bring no checked copy to its handler and lose no key silently.*)
LEMMA Quiet ==
    ASSUME IInv, NEW N, copies' \subseteq copies \cup N,
           \A c \in N : IsCopy(c) /\ (c.pc = "handling" => c.l \in Unchecked),
           once' = once, twice' = twice, raced' = raced,
           forgotten \subseteq forgotten', store \subseteq store' \cup forgotten'
    PROVE  IInv'
  <1>1. \A c \in copies' : IsCopy(c)
    BY DEF IInv
  <1>2. ASSUME NEW k PROVE Sole(k)'
    <2> SUFFICES ASSUME k \notin raced' \cup forgotten', k.sub[1] \notin Unchecked
                 PROVE  /\ k \notin twice'
                        /\ k \in once' => k \in store'
                        /\ \A c \in copies' : Handles(c, k) => k \in store' /\ k \notin once'
                        /\ \A c, d \in copies' : Handles(c, k) /\ Handles(d, k) => c = d
      BY DEF Sole, Handles
    <2>1. k \notin raced \cup forgotten /\ Sole(k)
      BY DEF IInv
    <2>2. \A c \in copies' : Handles(c, k) => c \in copies
      BY DEF Handles, IsCopy
    <2> QED BY <2>1, <2>2 DEF Sole
  <1> QED BY <1>1, <1>2 DEF IInv, IsCopy

(* The copy that goes on is the same copy.                                  *)
LEMMA SameCopy ==
    ASSUME NEW c, IsCopy(c), NEW p
    PROVE  /\ [c EXCEPT !.pc = p].pc = p
           /\ [c EXCEPT !.pc = p].key = c.key
           /\ [c EXCEPT !.pc = p].l = c.l
           /\ DOMAIN [c EXCEPT !.pc = p] = Fields
  BY DEF IsCopy, Fields

LEMMA SetSole == ASSUME IInv, NEW c, Set(c) PROVE IInv'
  <1> DEFINE n == [c EXCEPT !.pc = "handling"]
  <1>1. /\ c \in copies /\ c.pc = "setting" /\ copies' = (copies \ {c}) \cup {n}
        /\ store' = store \cup {c.key} /\ once' = once /\ twice' = twice
        /\ forgotten' = forgotten
        /\ raced' = IF c.key \in store THEN raced \cup {c.key} ELSE raced
    BY DEF Set, Goes
  <1>2. IsCopy(c) /\ c.l \notin Unchecked
    BY <1>1 DEF IInv, IsCopy
  <1>3. n.pc = "handling" /\ n.key = c.key /\ n.l = c.l /\ DOMAIN n = Fields
    BY <1>2, SameCopy
  <1> HIDE DEF n
  <1>4. IsCopy(n)
    BY <1>2, <1>3 DEF IsCopy
  <1>5. ASSUME NEW k PROVE Sole(k)'
    <2> SUFFICES ASSUME k \notin raced' \cup forgotten', k.sub[1] \notin Unchecked
                 PROVE  /\ k \notin twice'
                        /\ k \in once' => k \in store'
                        /\ \A d \in copies' : Handles(d, k) => k \in store' /\ k \notin once'
                        /\ \A d, e \in copies' : Handles(d, k) /\ Handles(e, k) => d = e
      BY DEF Sole, Handles
    <2>1. k \notin raced \cup forgotten /\ Sole(k)
      BY <1>1 DEF IInv
    <2>2. CASE k # c.key
      <3>1. \A d \in copies' : Handles(d, k) => d \in copies
        BY <1>1, <1>3, <2>2 DEF Handles
      <3> QED BY <1>1, <2>1, <3>1 DEF Sole
    <2>3. CASE k = c.key
      <3>1. k \notin store
        BY <1>1, <2>3
      <3>2. k \notin once /\ k \notin twice /\ \A d \in copies : ~Handles(d, k)
        BY <2>1, <3>1 DEF Sole
      <3>3. \A d \in copies' : Handles(d, k) => d = n
        BY <1>1, <3>2
      <3> QED BY <1>1, <2>3, <3>2, <3>3
    <2> QED BY <2>2, <2>3
  <1> QED BY <1>1, <1>4, <1>5 DEF IInv, IsCopy

LEMMA HandledSole == ASSUME IInv, NEW c, Handled(c) PROVE IInv'
  <1>1. /\ c \in copies /\ c.pc = "handling" /\ copies' = copies \ {c}
        /\ once' = once \cup {c.key} /\ store' = store
        /\ raced' = raced /\ forgotten' = forgotten
        /\ twice' = IF c.key \in once /\ c.l \notin Unchecked THEN twice \cup {c.key} ELSE twice
    BY DEF Handled, Settle
  <1>2. c.key.sub[1] = c.l
    BY <1>1 DEF IInv, IsCopy
  <1>3. \A k \in twice' : k.sub[1] \notin Unchecked
    BY <1>1, <1>2 DEF IInv
  <1>4. ASSUME NEW k PROVE Sole(k)'
    <2> SUFFICES ASSUME k \notin raced' \cup forgotten', k.sub[1] \notin Unchecked
                 PROVE  /\ k \notin twice'
                        /\ k \in once' => k \in store'
                        /\ \A d \in copies' : Handles(d, k) => k \in store' /\ k \notin once'
                        /\ \A d, e \in copies' : Handles(d, k) /\ Handles(e, k) => d = e
      BY DEF Sole, Handles
    <2>1. k \notin raced \cup forgotten /\ Sole(k)
      BY <1>1 DEF IInv
    <2>2. CASE k # c.key
      BY <1>1, <2>1, <2>2 DEF Sole
    <2>3. CASE k = c.key
      <3>1. Handles(c, k)
        BY <1>1, <2>3 DEF Handles
      <3>2. k \in store /\ k \notin once /\ k \notin twice
        BY <1>1, <2>1, <3>1 DEF Sole
      <3>3. \A d \in copies' : ~Handles(d, k)
        BY <1>1, <2>1, <3>1 DEF Sole
      <3> QED BY <1>1, <2>3, <3>2, <3>3
    <2> QED BY <2>2, <2>3
  <1> QED BY <1>1, <1>3, <1>4 DEF IInv, IsCopy

LEMMA NextSole == IInv /\ [Next]_vars => IInv'
  <1> SUFFICES ASSUME IInv, [Next]_vars PROVE IInv'
    OBVIOUS
  <1>1. ASSUME copies' \subseteq copies, once' = once, twice' = twice, raced' = raced,
               forgotten \subseteq forgotten', store \subseteq store' \cup forgotten'
        PROVE  IInv'
    <2> DEFINE N == {}
    <2>1. copies' \subseteq copies \cup N
      BY <1>1
    <2>2. \A c \in N : IsCopy(c) /\ (c.pc = "handling" => c.l \in Unchecked)
      OBVIOUS
    <2> HIDE DEF N
    <2> QED BY <1>1, <2>1, <2>2, Quiet
  <1>2. ASSUME NEW m \in Message, NEW r \in SUBSET TargetsOf[m], Emit(m, r) PROVE IInv'
    <2> DEFINE N == Started(m, TargetsOf[m] \ r)
    <2>1. /\ copies' = copies \cup N /\ UNCHANGED <<store, once, twice, raced, forgotten>>
      BY <1>2 DEF Emit, history
    <2>2. ASSUME NEW c \in N PROVE IsCopy(c) /\ (c.pc = "handling" => c.l \in Unchecked)
      <3>1. \E l, v, p : c = Copy(m, l, v, p)
        BY DEF Started
      <3>2. PICK l, v, p : c = Copy(m, l, v, p)
        BY <3>1
      <3> QED BY <3>2, CopyIsCopy
    <2> HIDE DEF N
    <2>3. copies' \subseteq copies \cup N
      BY <2>1
    <2> QED BY <2>1, <2>2, <2>3, Quiet
  <1>3. ASSUME NEW i \in backlog, NEW p \in Process, Deliver(i, p) PROVE IInv'
    <2> DEFINE N == {Copy(i.m, i.l, i.via, p)}
    <2>1. copies' = copies \cup N /\ UNCHANGED <<store, once, twice, raced, forgotten>>
      BY <1>3 DEF Deliver, history
    <2>2. \A c \in N : IsCopy(c) /\ (c.pc = "handling" => c.l \in Unchecked)
      BY CopyIsCopy
    <2> HIDE DEF N
    <2>3. copies' \subseteq copies \cup N
      BY <2>1
    <2> QED BY <2>1, <2>2, <2>3, Quiet
  <1>4. ASSUME NEW c \in copies, HasSaysNo(c) PROVE IInv'
    <2> DEFINE n == [c EXCEPT !.pc = "setting"]
    <2>1. /\ copies' = (copies \ {c}) \cup {n} /\ c.pc = "asking"
          /\ UNCHANGED <<store, once, twice, raced, forgotten>>
      BY <1>4 DEF HasSaysNo, Goes, history
    <2>2. IsCopy(c) /\ c.l \notin Unchecked
      BY <2>1 DEF IInv, IsCopy
    <2>3. n.pc = "setting" /\ n.key = c.key /\ n.l = c.l /\ DOMAIN n = Fields
      BY <2>2, SameCopy
    <2> HIDE DEF n
    <2> DEFINE N == {n}
    <2>4. \A d \in N : IsCopy(d) /\ (d.pc = "handling" => d.l \in Unchecked)
      BY <2>2, <2>3 DEF IsCopy
    <2>5. copies' \subseteq copies \cup N
      BY <2>1
    <2> HIDE DEF N
    <2> QED BY <2>1, <2>4, <2>5, Quiet
  <1>5. ASSUME NEW c \in copies, Discard(c) PROVE IInv'
    BY <1>1, <1>5 DEF Discard, Settle, history
  <1>6. ASSUME NEW c \in copies, Throws(c) PROVE IInv'
    <2>1. copies' = copies \ {c} /\ store \subseteq store'
      BY <1>6 DEF Throws, Rejects
    <2> QED BY <1>1, <1>6, <2>1 DEF Throws
  <1>7. ASSUME NEW c \in copies, AckWaitPasses(c) PROVE IInv'
    BY <1>1, <1>7 DEF AckWaitPasses, history
  <1>8. ASSUME NEW k \in store, Expire(k) PROVE IInv'
    BY <1>1, <1>8 DEF Expire
  <1>9. ASSUME NEW p \in Process, Crash(p) PROVE IInv'
    <2>1. /\ copies' \subseteq copies /\ forgotten' = forgotten \cup (store \ store')
          /\ UNCHANGED <<once, twice, raced>>
      BY <1>9 DEF Crash
    <2> QED BY <1>1, <2>1
  <1>10. CASE UNCHANGED vars
    BY <1>1, <1>10 DEF vars, history
  <1> QED BY <1>2, <1>3, <1>4, <1>5, <1>6, <1>7, <1>8, <1>9, <1>10, SetSole, HandledSole
          DEF Next, Works

LEMMA SoleOnce == IInv => HandledOnce
  BY DEF IInv, Sole, HandledOnce

(* IdempotencyInterceptor.onReceive lets a subscription handle an id once,  *)
(* unless two copies are between has and set at the same time, or the store *)
(* loses the key.                                                           *)
THEOREM BusHandlesOnce == Spec => []HandledOnce
  <1>1. Init => IInv
    BY InitSole
  <1>2. IInv /\ [Next]_vars => IInv'
    BY NextSole
  <1>3. IInv => HandledOnce
    BY SoleOnce
  <1> QED BY <1>1, <1>2, <1>3, PTL DEF Spec
-----------------------------------------------------------------------------
(* A key is taken care of: its handler succeeded, was cut off, or is called. *)
Served(k) == \/ k \in once \cup cutOff
             \/ \E c \in copies : Handles(c, k) /\ c.l \notin Unchecked

AllServed == \A k \in store \cup settled : Served(k)

(* A step keeps a key served if the checked copies that leave their handler *)
(* leave the key handled or cut off.                                        *)
LEMMA StaysServed ==
    ASSUME once \subseteq once', cutOff \subseteq cutOff', NEW k, Served(k),
           \A c \in copies : Handles(c, k) /\ c.l \notin Unchecked
                               => c \in copies' \/ k \in once' \cup cutOff'
    PROVE  Served(k)'
  BY DEF Served, Handles

LEMMA ServedNext == IInv /\ AllServed /\ [Next]_vars => AllServed'
  <1> SUFFICES ASSUME IInv, AllServed, [Next]_vars PROVE AllServed'
    OBVIOUS
  (* Steps after which no copy has left its handler.                        *)
  <1>1. ASSUME once' = once, cutOff' = cutOff,
               \A c \in copies : c.pc = "handling" => c \in copies',
               store' \cup settled' \subseteq store \cup settled
        PROVE  AllServed'
    <2> SUFFICES ASSUME NEW k \in store' \cup settled' PROVE Served(k)'
      BY DEF AllServed
    <2>1. Served(k)
      BY <1>1 DEF AllServed
    <2> QED BY <1>1, <2>1, StaysServed DEF Handles
  <1>2. ASSUME NEW m \in Message, NEW r \in SUBSET TargetsOf[m], Emit(m, r) PROVE AllServed'
    <2>1. copies \subseteq copies' /\ UNCHANGED <<once, cutOff, store, settled>>
      BY <1>2 DEF Emit, history
    <2> QED BY <1>1, <2>1
  <1>3. ASSUME NEW i \in backlog, NEW p \in Process, Deliver(i, p) PROVE AllServed'
    <2>1. copies \subseteq copies' /\ UNCHANGED <<once, cutOff, store, settled>>
      BY <1>3 DEF Deliver, history
    <2> QED BY <1>1, <2>1
  <1>4. ASSUME NEW c \in copies, HasSaysNo(c) PROVE AllServed'
    <2>1. /\ \A d \in copies : d.pc = "handling" => d \in copies'
          /\ UNCHANGED <<once, cutOff, store, settled>>
      BY <1>4 DEF HasSaysNo, Goes, history
    <2> QED BY <1>1, <2>1
  <1>5. ASSUME NEW c \in copies, Discard(c) PROVE AllServed'
    <2>1. /\ \A d \in copies : d.pc = "handling" => d \in copies'
          /\ store' \cup settled' \subseteq store \cup settled
          /\ UNCHANGED <<once, cutOff>>
      BY <1>5 DEF Discard, Settle, history
    <2> QED BY <1>1, <2>1
  <1>6. ASSUME NEW c \in copies, Set(c) PROVE AllServed'
    <2> DEFINE n == [c EXCEPT !.pc = "handling"]
    <2>1. /\ copies' = (copies \ {c}) \cup {n} /\ c.pc = "setting"
          /\ store' = store \cup {c.key} /\ UNCHANGED <<once, cutOff, settled>>
      BY <1>6 DEF Set, Goes
    <2>2. IsCopy(c) /\ c.l \notin Unchecked
      BY <2>1 DEF IInv, IsCopy
    <2>3. n.pc = "handling" /\ n.key = c.key /\ n.l = c.l
      BY <2>2, SameCopy
    <2> HIDE DEF n
    <2> SUFFICES ASSUME NEW k \in store' \cup settled' PROVE Served(k)'
      BY DEF AllServed
    <2>4. CASE k = c.key
      BY <2>1, <2>2, <2>3, <2>4 DEF Served, Handles
    <2>5. CASE k # c.key
      <3>1. Served(k)
        BY <2>1, <2>5 DEF AllServed
      <3>2. \A d \in copies : Handles(d, k) => d \in copies'
        BY <2>1 DEF Handles
      <3> QED BY <2>1, <3>1, <3>2, StaysServed
    <2> QED BY <2>4, <2>5
  <1>7. ASSUME NEW c \in copies, Handled(c) PROVE AllServed'
    <2>1. /\ copies' = copies \ {c} /\ once' = once \cup {c.key} /\ cutOff' = cutOff
          /\ store' = store /\ settled' = settled \cup {c.key}
      BY <1>7 DEF Handled, Settle
    <2> SUFFICES ASSUME NEW k \in store' \cup settled' PROVE Served(k)'
      BY DEF AllServed
    <2>2. CASE k = c.key
      BY <2>1, <2>2 DEF Served
    <2>3. CASE k # c.key
      <3>1. Served(k)
        BY <2>1, <2>3 DEF AllServed
      <3>2. \A d \in copies : Handles(d, k) => d \in copies'
        BY <2>1, <2>3 DEF Handles
      <3> QED BY <2>1, <3>1, <3>2, StaysServed
    <2> QED BY <2>2, <2>3
  <1>8. ASSUME NEW c \in copies, Throws(c) PROVE AllServed'
    <2>1. /\ copies' = copies \ {c} /\ once' = once /\ settled' = settled
          /\ cutOff \subseteq cutOff'
      BY <1>8 DEF Throws, Rejects
    <2>2. c.pc = "handling" /\ c.l \notin Unchecked => c.key \in cutOff'
      BY <1>8 DEF Throws
    <2>3. store' = store \/ (store' = store \cup {c.key} /\ c.key \in cutOff')
      BY <1>8 DEF Throws
    <2> SUFFICES ASSUME NEW k \in store' \cup settled' PROVE Served(k)'
      BY DEF AllServed
    <2>4. CASE k \in store \cup settled
      <3>1. Served(k)
        BY <2>4 DEF AllServed
      <3>2. \A d \in copies : Handles(d, k) /\ d.l \notin Unchecked
                               => d \in copies' \/ k \in once' \cup cutOff'
        BY <2>1, <2>2 DEF Handles
      <3> QED BY <2>1, <3>1, <3>2, StaysServed
    <2>5. CASE k \notin store \cup settled
      BY <2>1, <2>3, <2>5 DEF Served
    <2> QED BY <2>4, <2>5
  <1>9. ASSUME NEW c \in copies, AckWaitPasses(c) PROVE AllServed'
    BY <1>1, <1>9 DEF AckWaitPasses, history
  <1>10. ASSUME NEW k \in store, Expire(k) PROVE AllServed'
    <2>1. store' \subseteq store /\ UNCHANGED <<copies, once, cutOff, settled>>
      BY <1>10 DEF Expire
    <2> QED BY <1>1, <2>1
  <1>11. ASSUME NEW p \in Process, Crash(p) PROVE AllServed'
    <2>1. /\ once' = once /\ cutOff \subseteq cutOff'
          /\ store' \subseteq store /\ settled' = settled
      BY <1>11 DEF Crash
    <2>2. \A d \in copies : d \in copies' \/ d.at = p
      BY <1>11 DEF Crash
    <2>3. \A d \in copies : d.at = p /\ d.pc = "handling" /\ d.l \notin Unchecked
                             => d.key \in cutOff'
      BY <1>11 DEF Crash
    <2> SUFFICES ASSUME NEW k \in store' \cup settled' PROVE Served(k)'
      BY DEF AllServed
    <2>4. Served(k)
      BY <2>1 DEF AllServed
    <2> QED BY <2>1, <2>2, <2>3, <2>4, StaysServed DEF Handles
  <1>12. CASE UNCHANGED vars
    BY <1>1, <1>12 DEF vars, history
  <1> QED BY <1>2, <1>3, <1>4, <1>5, <1>6, <1>7, <1>8, <1>9, <1>10, <1>11, <1>12
          DEF Next, Works

(* A copy that is acked, or whose call returns, leaves its id handled, being *)
(* handled, or cut off (wrappedHandler of MessageBus.listen returns without *)
(* the handler only if the store has the key).                              *)
THEOREM BusSettlesHandled == Spec => []SettledIsHandled
  <1>1. Init => IInv /\ AllServed
    BY InitSole DEF Init, AllServed
  <1>2. IInv /\ AllServed /\ [Next]_vars => (IInv /\ AllServed)'
    BY NextSole, ServedNext
  <1>3. AllServed => SettledIsHandled
    BY DEF AllServed, Served, Handles, SettledIsHandled
  <1> QED BY <1>1, <1>2, <1>3, PTL DEF Spec
-----------------------------------------------------------------------------
(* The transport inside the process.                                        *)

(* The generations are maps with finitely many topics.                      *)
FiniteCache == IsFiniteSet(DOMAIN cacheActive) /\ IsFiniteSet(DOMAIN cacheOld)

CacheInv == FiniteCache /\ CacheSound

LEMMA EmptyCache == IsFiniteSet(DOMAIN Empty) /\ Cardinality(DOMAIN Empty) = 0
  BY FS_EmptySet DEF Empty

(* A topic more makes a generation larger by one at most.                   *)
LEMMA OneMore ==
    ASSUME NEW S, IsFiniteSet(S), NEW x
    PROVE  /\ IsFiniteSet(S \cup {x})
           /\ Cardinality(S) \in Nat /\ Cardinality(S \cup {x}) \in Nat
           /\ Cardinality(S \cup {x}) <= Cardinality(S) + 1
  <1>1. Cardinality(S) \in Nat
    BY FS_CardinalityType
  <1>2. IsFiniteSet(S \cup {x}) /\ Cardinality(S \cup {x}) \in {Cardinality(S), Cardinality(S) + 1}
    <2>1. CASE x \in S
      <3>1. S \cup {x} = S  BY <2>1
      <3> QED BY <3>1
    <2>2. CASE x \notin S
      BY <2>2, FS_AddElement
    <2> QED BY <2>1, <2>2
  <1> QED BY <1>1, <1>2

LEMMA CacheInit == TransportAssumption /\ TransportInit => CacheInv
  <1> SUFFICES ASSUME TransportAssumption, TransportInit PROVE CacheInv
    OBVIOUS
  <1>1. cacheActive = Empty /\ cacheOld = Empty
    BY DEF TransportInit
  <1>2. CacheFresh
    BY <1>1 DEF CacheFresh, Empty
  <1>3. CacheBounded /\ FiniteCache
    BY <1>1, EmptyCache DEF CacheBounded, FiniteCache, TransportAssumption
  <1> QED BY <1>2, <1>3 DEF CacheInv, CacheSound

(* An empty cache is sound whatever the trie.                               *)
LEMMA CacheCleared ==
    ASSUME TransportAssumption, cacheActive' = Empty, cacheOld' = Empty
    PROVE  CacheInv'
  <1>1. CacheFresh'
    BY DEF CacheFresh, Empty
  <1>2. CacheBounded' /\ FiniteCache'
    BY EmptyCache DEF CacheBounded, FiniteCache, TransportAssumption
  <1> QED BY <1>1, <1>2 DEF CacheInv, CacheSound

(* What match answers is what the search of the trie would find.            *)
LEMMA MatchSearches ==
    ASSUME CacheFresh, NEW t PROVE match(t) = recursiveSearch(root, t)
  BY DEF CacheFresh, match

LEMMA CacheUpdate ==
    ASSUME TransportAssumption, CacheInv, NEW t, root' = root,
           updateCache(t, recursiveSearch(root, t))
    PROVE  CacheInv'
  <1> DEFINE cache == [u \in DOMAIN cacheActive \cup {t} |->
                         IF u = t THEN recursiveSearch(root, t) ELSE cacheActive[u]]
             size == Cardinality(DOMAIN cache)
  <1>1. DOMAIN cache = DOMAIN cacheActive \cup {t}
    OBVIOUS
  <1>2. IsFiniteSet(DOMAIN cache) /\ size \in Nat /\ size <= maxCacheSize
    <2>1. IsFiniteSet(DOMAIN cacheActive) /\ Cardinality(DOMAIN cacheActive) < maxCacheSize
      BY DEF CacheInv, FiniteCache, CacheSound, CacheBounded
    <2>2. /\ IsFiniteSet(DOMAIN cacheActive \cup {t})
          /\ Cardinality(DOMAIN cacheActive) \in Nat
          /\ Cardinality(DOMAIN cacheActive \cup {t}) \in Nat
          /\ Cardinality(DOMAIN cacheActive \cup {t}) <= Cardinality(DOMAIN cacheActive) + 1
      BY <2>1, OneMore
    <2> QED BY <1>1, <2>1, <2>2 DEF TransportAssumption
  <1>3. \A u \in DOMAIN cache : cache[u] = recursiveSearch(root, u)
    BY DEF CacheInv, CacheSound, CacheFresh
  <1>4. CASE size >= maxCacheSize
    <2>1. cacheOld' = cache /\ cacheActive' = Empty
      BY <1>4 DEF updateCache
    <2> HIDE DEF cache
    <2>2. CacheFresh'
      BY <1>3, <2>1 DEF CacheFresh, Empty
    <2>3. FiniteCache' /\ CacheBounded'
      BY <1>2, <2>1, EmptyCache DEF FiniteCache, CacheBounded, TransportAssumption
    <2> QED BY <2>2, <2>3 DEF CacheInv, CacheSound
  <1>5. CASE ~(size >= maxCacheSize)
    <2>1. cacheActive' = cache /\ cacheOld' = cacheOld
      BY <1>5 DEF updateCache
    <2> HIDE DEF cache
    <2>2. CacheFresh'
      BY <1>3, <2>1 DEF CacheInv, CacheSound, CacheFresh
    <2>3. FiniteCache' /\ CacheBounded'
      BY <1>2, <1>5, <2>1 DEF CacheInv, CacheSound, FiniteCache, CacheBounded, TransportAssumption
    <2> QED BY <2>2, <2>3 DEF CacheInv, CacheSound
  <1> QED BY <1>4, <1>5

LEMMA NextSound == TransportAssumption /\ CacheInv /\ [TransportNext]_transportVars => CacheInv'
  <1> SUFFICES ASSUME TransportAssumption, CacheInv, [TransportNext]_transportVars PROVE CacheInv'
    OBVIOUS
  <1>1. ASSUME NEW p \in Pattern, NEW h \in Handler, listen(p, h) PROVE CacheInv'
    BY <1>1, CacheCleared DEF listen
  <1>2. ASSUME NEW t \in Topic, emit(t) PROVE CacheInv'
    <2>1. match(t) = recursiveSearch(root, t)
      BY MatchSearches DEF CacheInv, CacheSound
    <2>2. CASE t \in DOMAIN cacheActive
      <3>1. UNCHANGED <<root, cacheActive, cacheOld>>
        BY <1>2, <2>2 DEF emit
      <3> QED BY <3>1 DEF CacheInv, FiniteCache, CacheSound, CacheFresh, CacheBounded
    <2>3. CASE t \notin DOMAIN cacheActive
      <3>1. updateCache(t, recursiveSearch(root, t)) /\ root' = root
        BY <1>2, <2>1, <2>3 DEF emit
      <3> QED BY <3>1, CacheUpdate
    <2> QED BY <2>2, <2>3
  <1>3. CASE close
    BY <1>3, CacheCleared DEF close
  <1>4. CASE UNCHANGED transportVars
    BY <1>4 DEF transportVars, CacheInv, FiniteCache, CacheSound, CacheFresh, CacheBounded
  <1> QED BY <1>1, <1>2, <1>3, <1>4 DEF TransportNext

(* The handlers an emit finds in the cache are those the trie holds for its *)
(* topic (match, updateCache and listen of common/transport.ts), and the    *)
(* cache never holds more than two generations.                             *)
THEOREM InternalCacheSound == TransportSpec => []CacheSound
  <1>1. TransportInit => CacheInv
    BY TransportAssumption, CacheInit
  <1>2. CacheInv /\ [TransportNext]_transportVars => CacheInv'
    BY TransportAssumption, NextSound
  <1>3. CacheInv => CacheSound
    BY DEF CacheInv
  <1> QED BY <1>1, <1>2, <1>3, PTL DEF TransportSpec
-----------------------------------------------------------------------------
(* A set of natural numbers has a least one.                                *)
LEMMA LeastNat ==
    ASSUME NEW T, T \subseteq Nat, T # {}
    PROVE  \E n \in T : \A m \in T : n <= m
  <1>1. PICK n \in T : \A m \in T : ~ (<<m, n>> \in OpToRel(<, Nat))
    BY WFMin, NatLessThanWellFounded
  <1>2. ASSUME NEW m \in T PROVE n <= m
    <2>1. m \in Nat /\ n \in Nat /\ ~ (<<m, n>> \in OpToRel(<, Nat))
      BY <1>1
    <2>2. m < n => <<m, n>> \in OpToRel(<, Nat)
      BY <2>1 DEF OpToRel
    <2>3. ~ (m < n)
      BY <2>1, <2>2, Zenon
    <2>4. m \in Nat /\ n \in Nat
      BY <2>1
    <2> QED BY <2>3, <2>4
  <1> QED BY <1>2

(* What holds at 0 and goes on from each number to the next holds up to m.  *)
LEMMA UpTo ==
    ASSUME NEW m \in Nat, NEW T, 0 \in T, \A i \in 1..m : i - 1 \in T => i \in T
    PROVE  \A i \in 0..m : i \in T
  <1> DEFINE Bad == {i \in Nat : i <= m /\ i \notin T}
  <1> SUFFICES ASSUME Bad # {} PROVE FALSE
    OBVIOUS
  <1>1. PICK i \in Bad : \A j \in Bad : i <= j
    BY LeastNat
  <1>2. i \in Nat /\ i <= m /\ i \notin T /\ i # 0
    BY <1>1
  <1>3. i - 1 \in Nat /\ i - 1 <= m /\ ~(i <= i - 1) /\ i \in 1..m
    BY <1>2
  <1>4. i - 1 \in T
    BY <1>1, <1>3
  <1> QED BY <1>2, <1>3, <1>4

(* A step that stays in S can be taken any number of times.                 *)
Takes(g, a, F, m) == g[0] = a /\ \A i \in 1..m : g[i] = F[i][g[i - 1]]

LEMMA Iterated ==
    ASSUME NEW S, NEW a \in S, NEW m \in Nat, NEW F,
           \A i \in 1..m : \A x \in S : F[i][x] \in S
    PROVE  \E g \in [0..m -> S] : Takes(g, a, F, m)
  <1> DEFINE T == {k \in 0..m : \E g \in [0..k -> S] : Takes(g, a, F, k)}
  <1>1. 0 \in T
    <2>1. [i \in 0..0 |-> a] \in [0..0 -> S] /\ Takes([i \in 0..0 |-> a], a, F, 0)
      BY DEF Takes
    <2> QED BY <2>1
  <1>2. ASSUME NEW k \in 1..m, k - 1 \in T PROVE k \in T
    <2>1. PICK g \in [0..(k - 1) -> S] : Takes(g, a, F, k - 1)
      BY <1>2
    <2> DEFINE h == [i \in 0..k |-> IF i = k THEN F[k][g[k - 1]] ELSE g[i]]
    <2>2. /\ k - 1 \in 0..(k - 1) /\ k \in 0..k /\ 0 \in 0..(k - 1) /\ 0 # k
          /\ \A i \in 0..k : i # k => i \in 0..(k - 1)
          /\ \A i \in 1..k : i - 1 \in 0..k /\ i - 1 # k /\ (i # k => i \in 1..(k - 1))
      OBVIOUS
    <2>3. F[k][g[k - 1]] \in S
      BY <2>2
    <2>4. h \in [0..k -> S]
      BY <2>2, <2>3
    <2>5. Takes(h, a, F, k)
      BY <2>1, <2>2 DEF Takes
    <2> QED BY <2>4, <2>5
  <1> HIDE DEF T
  <1>3. m \in T
    BY <1>1, <1>2, UpTo
  <1> QED BY <1>3 DEF T

(* Putting sequences together, and counting in them.                        *)
LEMMA JoinedType ==
    ASSUME NEW S, NEW s \in Seq(S), NEW t \in Seq(S)
    PROVE  /\ s \o t \in Seq(S)
           /\ Len(s) \in Nat /\ Len(t) \in Nat /\ Len(s \o t) = Len(s) + Len(t)
           /\ \A k \in 1..Len(s) : (s \o t)[k] = s[k]
           /\ \A k \in 1..Len(t) : (s \o t)[Len(s) + k] = t[k]
  <1>1. Len(s) \in Nat /\ Len(t) \in Nat
    BY LenProperties
  <1>2. /\ s \o t \in Seq(S) /\ Len(s \o t) = Len(s) + Len(t)
        /\ \A i \in 1 .. Len(s) + Len(t) :
             (s \o t)[i] = IF i <= Len(s) THEN s[i] ELSE t[i - Len(s)]
    BY ConcatProperties
  <1>3. \A k \in 1..Len(s) : (s \o t)[k] = s[k]
    BY <1>1, <1>2
  <1>4. ASSUME NEW k \in 1..Len(t) PROVE (s \o t)[Len(s) + k] = t[k]
    <2>1. /\ Len(s) + k \in 1 .. Len(s) + Len(t) /\ ~(Len(s) + k <= Len(s))
          /\ Len(s) + k - Len(s) = k
      BY <1>1
    <2> QED BY <1>2, <2>1
  <1> QED BY <1>1, <1>2, <1>3, <1>4

LEMMA FlattenType ==
    ASSUME NEW S, NEW ss \in Seq(Seq(S))
    PROVE  FlattenSeq(ss) \in Seq(S)
  <1> DEFINE n == Len(ss)
             h == CHOOSE f : f = [i \in 1..n |-> IF i = 1 THEN ss[i] ELSE f[i-1] \o ss[i]]
  <1>n. n \in Nat /\ \A i \in 1..n : ss[i] \in Seq(S)
    BY LenProperties, ElementOfSeq
  <1>1. CASE n = 0
    <2>1. ss = << >> /\ << >> \in Seq(S)
      BY <1>1, EmptySeq
    <2> QED BY <1>1, <2>1 DEF FlattenSeq
  <1>2. CASE n # 0
    <2> DEFINE F == [i \in 1..n |-> [x \in Seq(S) |-> IF i = 1 THEN ss[1] ELSE x \o ss[i]]]
    <2>1. \A i \in 1..n : \A x \in Seq(S) : F[i][x] \in Seq(S)
      BY <1>n, JoinedType
    <2>2. << >> \in Seq(S)
      BY EmptySeq
    <2>3. PICK g \in [0..n -> Seq(S)] : Takes(g, << >>, F, n)
      <3> HIDE DEF F
      <3> QED BY <1>n, <2>1, <2>2, Iterated
    <2> DEFINE f == [i \in 1..n |-> g[i]]
    <2>4. f = [i \in 1..n |-> IF i = 1 THEN ss[i] ELSE f[i-1] \o ss[i]]
      <3>1. ASSUME NEW i \in 1..n
            PROVE  g[i] = IF i = 1 THEN ss[i] ELSE g[i-1] \o ss[i]
        <4>1. i - 1 \in 0..n
          BY <1>n
        <4> QED BY <2>3, <4>1 DEF Takes
      <3>2. \A i \in 1..n : i # 1 => i - 1 \in 1..n
        BY <1>n
      <3> QED BY <3>1, <3>2
    <2>5. h = [i \in 1..n |-> IF i = 1 THEN ss[i] ELSE h[i-1] \o ss[i]]
      <3> HIDE DEF f
      <3> QED BY <2>4
    <2> HIDE DEF h
    <2> DEFINE T == {i \in 0..n : i # 0 => h[i] \in Seq(S)}
    <2>6. ASSUME NEW i \in 1..n, i - 1 \in T PROVE i \in T
      <3>1. i # 1 => h[i-1] \in Seq(S)
        BY <2>6
      <3>2. h[i] = IF i = 1 THEN ss[i] ELSE h[i-1] \o ss[i]
        BY <2>5
      <3>3. h[i] \in Seq(S)
        BY <1>n, <3>1, <3>2, JoinedType
      <3> QED BY <3>3
    <2>7. 0 \in T
      BY <1>n
    <2>8. n \in T
      <3> HIDE DEF T, n
      <3>1. \A i \in 0..n : i \in T
        BY <1>n, <2>6, <2>7, UpTo
      <3> QED BY <1>n, <3>1
    <2>9. FlattenSeq(ss) = h[n]
      BY <1>2 DEF FlattenSeq, h
    <2> QED BY <1>2, <2>8, <2>9
  <1> QED BY <1>1, <1>2

LEMMA TimesType ==
    ASSUME NEW S, NEW s \in Seq(S), NEW h
    PROVE  /\ IsFiniteSet({i \in DOMAIN s : s[i] = h}) /\ Times(s, h) \in Nat
           /\ DOMAIN s = 1..Len(s) /\ Len(s) \in Nat
  <1>1. DOMAIN s = 1..Len(s) /\ Len(s) \in Nat
    BY LenProperties
  <1>2. IsFiniteSet(DOMAIN s)
    BY <1>1, FS_Interval
  <1>3. IsFiniteSet({i \in DOMAIN s : s[i] = h})
    BY <1>2, FS_Subset
  <1> QED BY <1>1, <1>3, FS_CardinalityType DEF Times

LEMMA TimesEmpty == ASSUME NEW h PROVE Times(<< >>, h) = 0
  <1>1. {i \in DOMAIN << >> : << >>[i] = h} = {}
    OBVIOUS
  <1> QED BY <1>1, FS_EmptySet DEF Times

One(b) == IF b THEN 1 ELSE 0

LEMMA TimesAppend ==
    ASSUME NEW S, NEW s \in Seq(S), NEW x \in S, NEW h
    PROVE  Append(s, x) \in Seq(S) /\ Times(Append(s, x), h) = Times(s, h) + One(x = h)
  <1> DEFINE A == {i \in DOMAIN s : s[i] = h}
             l == Len(s)
  <1>1. Append(s, x) \in Seq(S) /\ Len(Append(s, x)) = l + 1
        /\ (\A i \in 1..l : Append(s, x)[i] = s[i]) /\ Append(s, x)[l + 1] = x
    BY AppendProperties
  <1>2. l \in Nat /\ DOMAIN s = 1..l /\ DOMAIN Append(s, x) = 1..(l + 1) /\ IsFiniteSet(A)
        /\ Cardinality(A) \in Nat
    BY <1>1, TimesType, LenProperties, FS_CardinalityType
  <1>3. \A i \in 1..(l + 1) : i \in 1..l \/ i = l + 1
    BY <1>2
  <1>4. l + 1 \in 1..(l + 1) /\ l + 1 \notin 1..l /\ \A i \in 1..l : i \in 1..(l + 1)
    BY <1>2
  <1>5. CASE x = h
    <2>1. {i \in DOMAIN Append(s, x) : Append(s, x)[i] = h} = A \cup {l + 1} /\ l + 1 \notin A
      <3> HIDE DEF l
      <3> QED BY <1>1, <1>2, <1>3, <1>4, <1>5
    <2>2. Cardinality(A \cup {l + 1}) = Cardinality(A) + 1
      <3> HIDE DEF A
      <3> QED BY <1>2, <2>1, FS_AddElement
    <2> QED BY <1>1, <1>5, <2>1, <2>2 DEF Times, One
  <1>6. CASE x # h
    <2>1. {i \in DOMAIN Append(s, x) : Append(s, x)[i] = h} = A
      <3> HIDE DEF l
      <3> QED BY <1>1, <1>2, <1>3, <1>4, <1>6
    <2>2. Times(Append(s, x), h) = Cardinality(A) /\ Times(s, h) = Cardinality(A)
      BY <2>1 DEF Times
    <2>3. One(x = h) = 0
      BY <1>6 DEF One
    <2> HIDE DEF A
    <2> QED BY <1>1, <1>2, <2>2, <2>3
  <1> QED BY <1>5, <1>6

LEMMA TimesJoin ==
    ASSUME NEW S, NEW s \in Seq(S), NEW t \in Seq(S), NEW h
    PROVE  Times(s \o t, h) = Times(s, h) + Times(t, h)
  <1> DEFINE A == {i \in DOMAIN s : s[i] = h}
             B == {i \in DOMAIN t : t[i] = h}
             l == Len(s)
             C == {i \in DOMAIN (s \o t) : i \notin DOMAIN s /\ (s \o t)[i] = h}
             f == [i \in B |-> l + i]
  <1>1. /\ s \o t \in Seq(S) /\ l \in Nat /\ Len(t) \in Nat /\ Len(s \o t) = l + Len(t)
        /\ \A k \in 1..l : (s \o t)[k] = s[k]
        /\ \A k \in 1..Len(t) : (s \o t)[l + k] = t[k]
    BY JoinedType
  <1>2. DOMAIN s = 1..l /\ DOMAIN t = 1..Len(t) /\ DOMAIN (s \o t) = 1..(l + Len(t))
    BY <1>1, LenProperties
  <1>3. IsFiniteSet(A) /\ IsFiniteSet(B)
    BY TimesType
  <1>4. ASSUME NEW i \in C PROVE \E j \in B : i = l + j
    <2>1. i - l \in 1..Len(t) /\ i = l + (i - l)
      BY <1>1, <1>2
    <2>2. t[i - l] = (s \o t)[l + (i - l)]
      BY <1>1, <2>1
    <2>3. (s \o t)[l + (i - l)] = h
      BY <2>1
    <2>4. i - l \in B
      BY <1>2, <2>1, <2>2, <2>3
    <2> QED BY <2>1, <2>4
  <1>5. ASSUME NEW j \in B PROVE l + j \in C
    <2>1. j \in 1..Len(t) /\ l + j \in 1..(l + Len(t)) /\ l + j \notin 1..l
      BY <1>1, <1>2
    <2> QED BY <1>1, <1>2, <2>1
  <1>6. f \in Bijection(B, C)
    <2>1. f \in [B -> C]
      BY <1>5
    <2>2. \A i, j \in B : f[i] = f[j] => i = j
      <3>1. \A i \in B : i \in Int
        BY <1>2
      <3>2. SUFFICES ASSUME NEW i \in B, NEW j \in B, f[i] = f[j] PROVE i = j
        OBVIOUS
      <3>3. l + i = l + j
        BY <3>2
      <3> QED BY <1>1, <3>1, <3>3
    <2>3. \A i \in C : \E j \in B : f[j] = i
      BY <1>4
    <2> HIDE DEF f, B, C
    <2>4. DOMAIN f = B
      BY <2>1
    <2> QED BY <2>1, <2>2, <2>3, <2>4 DEF Bijection, Injection, Surjection, IsInjective
  <1>7. IsFiniteSet(C) /\ Cardinality(C) = Cardinality(B)
    <2> HIDE DEF B, C, f
    <2> QED BY <1>3, <1>6, FS_Bijection DEF ExistsBijection
  <1>8. {i \in DOMAIN (s \o t) : (s \o t)[i] = h} = A \cup C /\ A \cap C = {}
    <2>1. \A i \in 1..l : i \in 1..(l + Len(t))
      BY <1>1
    <2> HIDE DEF l
    <2> QED BY <1>1, <1>2, <2>1
  <1>9. Cardinality(A \cup C) = Cardinality(A) + Cardinality(C)
    <2> HIDE DEF A, C
    <2>1. Cardinality(A) \in Nat /\ Cardinality(C) \in Nat /\ Cardinality({}) = 0
      BY <1>3, <1>7, FS_CardinalityType, FS_EmptySet
    <2>2. Cardinality(A \cup C) = Cardinality(A) + Cardinality(C) - Cardinality(A \cap C)
      BY <1>3, <1>7, FS_Union
    <2>3. Cardinality(A \cap C) = 0
      BY <1>8, FS_EmptySet
    <2> QED BY <2>1, <2>2, <2>3
  <1> QED BY <1>7, <1>8, <1>9 DEF Times
-----------------------------------------------------------------------------
Word == DOMAIN Hash \cup {"*", ">"}

(* The paths of a pattern are sequences of words.                           *)
Extended(pattern, i, x) ==
    FlattenSeq([c \in DOMAIN pattern[i] |-> [p \in DOMAIN x |-> Append(x[p], pattern[i][c])]])

LEMMA ExtendedType ==
    ASSUME NEW pattern \in Seq(Seq(Word)), NEW i \in 1..Len(pattern), NEW x \in Seq(Seq(Word))
    PROVE  Extended(pattern, i, x) \in Seq(Seq(Word))
  <1> DEFINE q == pattern[i]
             row(w) == [p \in DOMAIN x |-> Append(x[p], w)]
             rows == [c \in DOMAIN q |-> row(q[c])]
  <1>1. q \in Seq(Word)
    BY ElementOfSeq
  <1>2. ASSUME NEW w \in Word PROVE row(w) \in Seq(Seq(Word))
    <2>1. Len(x) \in Nat /\ DOMAIN x = 1..Len(x)
      BY LenProperties
    <2>2. ASSUME NEW p \in 1..Len(x) PROVE Append(x[p], w) \in Seq(Word)
      <3>1. x[p] \in Seq(Word)
        BY ElementOfSeq
      <3> QED BY <3>1, AppendProperties
    <2>3. row(w) = [p \in 1..Len(x) |-> Append(x[p], w)]
      BY <2>1
    <2>4. [p \in 1..Len(x) |-> Append(x[p], w)] \in Seq(Seq(Word))
      BY <2>1, <2>2, IsASeq
    <2> QED BY <2>3, <2>4
  <1>3. Len(q) \in Nat /\ DOMAIN q = 1..Len(q) /\ \A c \in 1..Len(q) : q[c] \in Word
    <2> HIDE DEF q
    <2> QED BY <1>1, LenProperties, ElementOfSeq
  <1>4. rows = [c \in 1..Len(q) |-> row(q[c])]
    <2> HIDE DEF q, row
    <2> QED BY <1>3
  <1>5. [c \in 1..Len(q) |-> row(q[c])] \in Seq(Seq(Seq(Word)))
    <2> HIDE DEF q, row
    <2>1. \A c \in 1..Len(q) : row(q[c]) \in Seq(Seq(Word))
      BY <1>2, <1>3
    <2> QED BY <1>3, <2>1, IsASeq
  <1>6. FlattenSeq(rows) \in Seq(Seq(Word))
    <2> HIDE DEF rows
    <2> QED BY <1>4, <1>5, FlattenType
  <1> QED BY <1>6 DEF Extended

LEMMA PrecomputeType ==
    ASSUME NEW pattern \in Seq(Seq(Word))
    PROVE  precompute(pattern) \in Seq(Seq(Word))
  <1> DEFINE n == Len(pattern)
             S == Seq(Seq(Word))
             F == [i \in 1..n |-> [x \in S |-> Extended(pattern, i, x)]]
             f == CHOOSE f : f = [i \in 0..n |->
                    IF i = 0 THEN << << >> >> ELSE Extended(pattern, i, f[i-1])]
  <1>n. n \in Nat /\ n \in 0..n /\ 0 \in 0..n /\ \A i \in 1..n : i - 1 \in 0..n /\ i \in 0..n /\ i # 0
    BY LenProperties
  <1>e. << << >> >> \in S
    <2>1. << >> \in Seq(Word)
      BY EmptySeq
    <2>2. [i \in 1..1 |-> << >>] \in Seq(Seq(Word))
      BY <2>1, IsASeq
    <2>3. << << >> >> = [i \in 1..1 |-> << >>]
      OBVIOUS
    <2> QED BY <2>2, <2>3
  <1>1. \A i \in 1..n : \A x \in S : F[i][x] = Extended(pattern, i, x) /\ F[i][x] \in S
    BY ExtendedType
  <1>2. PICK g \in [0..n -> S] : Takes(g, << << >> >>, F, n)
    <2> HIDE DEF F, S, n
    <2> QED BY <1>n, <1>e, <1>1, Iterated
  <1>3. g = [i \in 0..n |-> IF i = 0 THEN << << >> >> ELSE Extended(pattern, i, g[i-1])]
    <2> HIDE DEF F, S
    <2>1. ASSUME NEW i \in 1..n PROVE g[i] = Extended(pattern, i, g[i-1])
      BY <1>n, <1>1, <1>2 DEF Takes
    <2>2. g[0] = << << >> >>
      BY <1>2 DEF Takes
    <2>3. \A i \in 0..n : i # 0 => i \in 1..n
      BY <1>n
    <2> HIDE DEF n
    <2> QED BY <1>2, <2>1, <2>2, <2>3
  <1>4. f = [i \in 0..n |-> IF i = 0 THEN << << >> >> ELSE Extended(pattern, i, f[i-1])]
    <2> HIDE DEF n
    <2> QED BY <1>3
  <1>5. precompute(pattern) = f[n]
    BY DEF precompute, Extended
  <1> HIDE DEF f, S, n
  <1> DEFINE T == {i \in 0..n : f[i] \in S}
  <1>6. 0 \in T
    BY <1>n, <1>e, <1>4
  <1>7. ASSUME NEW i \in 1..n, i - 1 \in T PROVE i \in T
    <2>1. f[i] = Extended(pattern, i, f[i-1])
      BY <1>n, <1>4
    <2> QED BY <1>n, <1>7, <2>1, ExtendedType DEF S, n
  <1>8. n \in T
    <2> HIDE DEF T
    <2>1. \A i \in 0..n : i \in T
      BY <1>n, <1>6, <1>7, UpTo
    <2> QED BY <1>n, <2>1
  <1> QED BY <1>5, <1>8 DEF S
-----------------------------------------------------------------------------
PathOf(segments) == [i \in DOMAIN segments |-> Key(segments[i])]

LEMMA PathType ==
    ASSUME NEW segments \in Seq(Word)
    PROVE  /\ PathOf(segments) \in Seq(Keys) /\ Len(PathOf(segments)) = Len(segments)
           /\ \A i \in 1..Len(segments) :
                /\ PathOf(segments)[i] = Key(segments[i])
                /\ segments[i] \in {"*", ">"} => PathOf(segments)[i] = segments[i]
                /\ segments[i] \notin {"*", ">"} =>
                     /\ PathOf(segments)[i] = Hash[segments[i]]
                     /\ PathOf(segments)[i] \notin {"*", ">"}
  <1>1. Len(segments) \in Nat /\ DOMAIN segments = 1..Len(segments)
    BY LenProperties
  <1>2. ASSUME NEW i \in 1..Len(segments)
        PROVE  /\ Key(segments[i]) \in Keys
               /\ segments[i] \in {"*", ">"} => Key(segments[i]) = segments[i]
               /\ segments[i] \notin {"*", ">"} =>
                     /\ Key(segments[i]) = Hash[segments[i]]
                     /\ Key(segments[i]) \notin {"*", ">"}
    <2>1. segments[i] \in Word
      BY ElementOfSeq
    <2>2. CASE segments[i] \in {"*", ">"}
      BY <2>2 DEF Key, Keys
    <2>3. CASE segments[i] \notin {"*", ">"}
      <3>1. segments[i] \in DOMAIN Hash
        BY <2>1, <2>3 DEF Word
      <3> QED BY <2>3, <3>1, WordsAssumption DEF Key, Keys
    <2> QED BY <2>2, <2>3
  <1>3. PathOf(segments) = [i \in 1..Len(segments) |-> Key(segments[i])]
    BY <1>1 DEF PathOf
  <1>4. PathOf(segments) \in Seq(Keys)
    <2>1. [i \in 1..Len(segments) |-> Key(segments[i])] \in Seq(Keys)
      BY <1>1, <1>2, IsASeq
    <2> QED BY <1>3, <2>1
  <1>5. Len(PathOf(segments)) = Len(segments)
    <2>1. DOMAIN PathOf(segments) = 1..Len(segments)
      BY <1>3
    <2>2. DOMAIN PathOf(segments) = 1..Len(PathOf(segments)) /\ Len(PathOf(segments)) \in Nat
      BY <1>4, LenProperties
    <2> HIDE DEF PathOf
    <2> QED BY <1>1, <2>1, <2>2
  <1> QED BY <1>2, <1>3, <1>4, <1>5

(* The trie holds handlers, at the paths of patterns.                       *)
Tries == UNION {[D -> Seq(Handler)] : D \in SUBSET Seq(Keys)}

LEMMA AtType ==
    ASSUME NEW node \in Tries, NEW path
    PROVE  HandlersAt(node, path) \in Seq(Handler)
  <1>1. << >> \in Seq(Handler)
    BY EmptySeq
  <1>2. PICK D \in SUBSET Seq(Keys) : node \in [D -> Seq(Handler)]
    BY DEF Tries
  <1> QED BY <1>1, <1>2 DEF HandlersAt

LEMMA AddedAt ==
    ASSUME NEW node, NEW segments, NEW x, NEW path
    PROVE  HandlersAt(addSubscription(node, segments, x), path) =
             IF path = PathOf(segments) THEN Append(HandlersAt(node, path), x)
             ELSE HandlersAt(node, path)
  BY DEF addSubscription, HandlersAt, PathOf

LEMMA AddedType ==
    ASSUME NEW node \in Tries, NEW segments \in Seq(Word), NEW x \in Handler
    PROVE  addSubscription(node, segments, x) \in Tries
  <1> DEFINE q == PathOf(segments)
             e(p) == IF p = q THEN Append(HandlersAt(node, p), x) ELSE HandlersAt(node, p)
  <1>1. PICK D \in SUBSET Seq(Keys) : node \in [D -> Seq(Handler)]
    BY DEF Tries
  <1>2. ASSUME NEW p PROVE e(p) \in Seq(Handler)
    <2>1. HandlersAt(node, p) \in Seq(Handler)
      BY AtType
    <2>2. Append(HandlersAt(node, p), x) \in Seq(Handler)
      BY <2>1, AppendProperties
    <2> QED BY <2>1, <2>2
  <1>3. DOMAIN node \cup {q} \in SUBSET Seq(Keys)
    BY <1>1, PathType
  <1>4. addSubscription(node, segments, x) = [p \in DOMAIN node \cup {q} |-> e(p)]
    BY DEF addSubscription, PathOf
  <1> HIDE DEF e, q
  <1>5. [p \in DOMAIN node \cup {q} |-> e(p)] \in [DOMAIN node \cup {q} -> Seq(Handler)]
    BY <1>2
  <1> QED BY <1>3, <1>4, <1>5 DEF Tries

(* What the search does with k words left, from what it finds with one less. *)
More(node, topic, k, r, path) ==
    (IF k > 1 \/ topic[Len(topic)] # EmptyWord THEN HandlersAt(node, Append(path, ">")) ELSE <<>>)
    \o r[Append(path, Hash[topic[Len(topic) - k + 1]])]
    \o r[Append(path, "*")]

Searched(f, node, topic) ==
    /\ f \in [0..Len(topic) -> [Seq(Keys) -> Seq(Handler)]]
    /\ \A path \in Seq(Keys) : f[0][path] = HandlersAt(node, path)
    /\ \A k \in 1..Len(topic) : \A path \in Seq(Keys) :
          f[k][path] = More(node, topic, k, f[k - 1], path)
    /\ recursiveSearch(node, topic) = f[Len(topic)][<<>>]

LEMMA Hashed ==
    ASSUME NEW topic \in Seq(DOMAIN Hash), NEW i \in 1..Len(topic)
    PROVE  Hash[topic[i]] \in Keys /\ Hash[topic[i]] \notin {"*", ">"}
  <1>1. topic[i] \in DOMAIN Hash
    BY ElementOfSeq
  <1> QED BY <1>1, WordsAssumption DEF Keys

LEMMA MoreType ==
    ASSUME NEW topic \in Seq(DOMAIN Hash), NEW node \in Tries,
           NEW k \in 1..Len(topic), NEW r \in [Seq(Keys) -> Seq(Handler)],
           NEW path \in Seq(Keys)
    PROVE  More(node, topic, k, r, path) \in Seq(Handler)
  <1>1. Len(topic) \in Nat /\ Len(topic) - k + 1 \in 1..Len(topic)
    BY LenProperties
  <1>2. Hash[topic[Len(topic) - k + 1]] \in Keys
    BY <1>1, Hashed
  <1>3. Append(path, Hash[topic[Len(topic) - k + 1]]) \in Seq(Keys)
    BY <1>2, AppendProperties
  <1>4. Append(path, "*") \in Seq(Keys)
    <2>1. "*" \in Keys
      BY DEF Keys
    <2> QED BY <2>1, AppendProperties
  <1> DEFINE a == IF k > 1 \/ topic[Len(topic)] # EmptyWord THEN HandlersAt(node, Append(path, ">")) ELSE <<>>
             b == r[Append(path, Hash[topic[Len(topic) - k + 1]])]
             c == r[Append(path, "*")]
  <1>5. a \in Seq(Handler)
    <2>1. HandlersAt(node, Append(path, ">")) \in Seq(Handler) /\ << >> \in Seq(Handler)
      BY AtType, EmptySeq
    <2> QED BY <2>1
  <1>6. b \in Seq(Handler) /\ c \in Seq(Handler)
    BY <1>3, <1>4
  <1>7. More(node, topic, k, r, path) = a \o b \o c
    BY DEF More
  <1> HIDE DEF a, b, c
  <1>8. a \o b \in Seq(Handler)
    BY <1>5, <1>6, JoinedType
  <1> QED BY <1>6, <1>7, <1>8, JoinedType

LEMMA SearchExists ==
    ASSUME NEW topic \in Seq(DOMAIN Hash), NEW node \in Tries
    PROVE  \E f : Searched(f, node, topic)
  <1> DEFINE n == Len(topic)
             S == [Seq(Keys) -> Seq(Handler)]
             F == [k \in 1..n |-> [r \in S |-> [path \in Seq(Keys) |-> More(node, topic, k, r, path)]]]
             a == [path \in Seq(Keys) |-> HandlersAt(node, path)]
             f == CHOOSE f : f = [k \in 0..n |-> [path \in Seq(Keys) |->
                    IF k = 0 THEN HandlersAt(node, path) ELSE More(node, topic, k, f[k-1], path)]]
  <1>n. n \in Nat /\ n \in 0..n /\ 0 \in 0..n /\ \A k \in 1..n : k - 1 \in 0..n /\ k \in 0..n /\ k # 0
    BY LenProperties
  <1>a. a \in S
    BY AtType
  <1>1. \A k \in 1..n : \A r \in S :
          F[k][r] = [path \in Seq(Keys) |-> More(node, topic, k, r, path)] /\ F[k][r] \in S
    BY MoreType
  <1>2. PICK g \in [0..n -> S] : Takes(g, a, F, n)
    <2> HIDE DEF F, S, n, a
    <2> QED BY <1>n, <1>a, <1>1, Iterated
  <1>3. g = [k \in 0..n |-> [path \in Seq(Keys) |->
               IF k = 0 THEN HandlersAt(node, path) ELSE More(node, topic, k, g[k-1], path)]]
    <2> DEFINE e(k) == [path \in Seq(Keys) |->
               IF k = 0 THEN HandlersAt(node, path) ELSE More(node, topic, k, g[k-1], path)]
    <2>1. ASSUME NEW k \in 1..n PROVE g[k] = e(k)
      <3>1. g[k] = F[k][g[k-1]] /\ g[k-1] \in S
        BY <1>n, <1>2 DEF Takes
      <3>2. F[k][g[k-1]] = [path \in Seq(Keys) |-> More(node, topic, k, g[k-1], path)]
        <4> HIDE DEF F, S
        <4> QED BY <1>1, <3>1
      <3>3. k # 0
        BY <1>n
      <3> HIDE DEF F, n
      <3> QED BY <3>1, <3>2, <3>3
    <2>2. g[0] = e(0)
      BY <1>2 DEF Takes
    <2>3. \A k \in 0..n : k = 0 \/ k \in 1..n
      BY <1>n
    <2>4. \A k \in 0..n : g[k] = e(k)
      <3> HIDE DEF n, e
      <3> QED BY <2>1, <2>2, <2>3
    <2>5. g = [k \in 0..n |-> e(k)]
      <3> HIDE DEF n, e, S
      <3> QED BY <1>2, <2>4
    <2> QED BY <2>5
  <1>4. f = [k \in 0..n |-> [path \in Seq(Keys) |->
               IF k = 0 THEN HandlersAt(node, path) ELSE More(node, topic, k, f[k-1], path)]]
    <2> HIDE DEF n
    <2> QED BY <1>3
  <1>5. recursiveSearch(node, topic) = f[n][<<>>]
    BY DEF recursiveSearch, More
  <1> HIDE DEF f, n, F
  <1> DEFINE T == {k \in 0..n : f[k] \in S}
  <1>6. 0 \in T /\ \A path \in Seq(Keys) : f[0][path] = HandlersAt(node, path)
    <2>1. f[0] = a
      BY <1>n, <1>4
    <2> QED BY <1>n, <1>a, <2>1
  <1>7. ASSUME NEW k \in 1..n PROVE f[k] = [path \in Seq(Keys) |-> More(node, topic, k, f[k-1], path)]
    BY <1>n, <1>4
  <1>8. ASSUME NEW k \in 1..n, k - 1 \in T PROVE k \in T
    <2>1. f[k-1] \in S
      BY <1>8
    <2>2. k \in 1..Len(topic)
      BY DEF n
    <2>3. \A path \in Seq(Keys) : More(node, topic, k, f[k-1], path) \in Seq(Handler)
      BY <2>1, <2>2, MoreType
    <2>4. f[k] \in S
      BY <1>7, <2>3
    <2> QED BY <1>n, <2>4
  <1>9. \A k \in 0..n : k \in T
    <2> HIDE DEF T
    <2> QED BY <1>n, <1>6, <1>8, UpTo
  <1>10. f \in [0..n -> S]
    <2> HIDE DEF S
    <2> QED BY <1>4, <1>9
  <1>11. \A k \in 1..n : \A path \in Seq(Keys) : f[k][path] = More(node, topic, k, f[k - 1], path)
    BY <1>7
  <1> QED BY <1>5, <1>6, <1>10, <1>11 DEF Searched, n
-----------------------------------------------------------------------------
(* From its node, the search for a topic comes to the path q.               *)
Fits(q, topic, i) == q[i] \in {"*", Hash[topic[i]]}

Leads(q, topic, path) ==
    /\ Len(path) <= Len(q)
    /\ \A i \in 1..Len(path) : q[i] = path[i]
    /\ \/ Len(q) = Len(topic) /\ \A i \in (Len(path) + 1)..Len(topic) : Fits(q, topic, i)
       \/ /\ Len(path) < Len(q) /\ Len(q) <= Len(topic) /\ q[Len(q)] = ">"
          /\ Len(q) = Len(topic) => topic[Len(topic)] # EmptyWord
          /\ \A i \in (Len(path) + 1)..(Len(q) - 1) : Fits(q, topic, i)

LEMMA SameSeq ==
    ASSUME NEW S, NEW s \in Seq(S), NEW t \in Seq(S), Len(s) = Len(t),
           \A i \in 1..Len(s) : s[i] = t[i]
    PROVE  s = t
  BY SeqEqual

OneLonger(q, path, x) == /\ Len(q) = Len(path) + 1 /\ q[Len(path) + 1] = x
                         /\ \A i \in 1..Len(path) : q[i] = path[i]

LEMMA AppendIs ==
    ASSUME NEW S, NEW q \in Seq(S), NEW path \in Seq(S), NEW x \in S
    PROVE  q = Append(path, x) <=> OneLonger(q, path, x)
  <1>1. /\ Append(path, x) \in Seq(S) /\ Len(Append(path, x)) = Len(path) + 1
        /\ \A i \in 1..Len(path) : Append(path, x)[i] = path[i]
        /\ Append(path, x)[Len(path) + 1] = x
    BY AppendProperties
  <1>2. Len(path) \in Nat
    BY LenProperties
  <1>3. \A i \in 1..(Len(path) + 1) : i \in 1..Len(path) \/ i = Len(path) + 1
    BY <1>2
  <1>4. ASSUME OneLonger(q, path, x) PROVE q = Append(path, x)
    <2>1. \A i \in 1..Len(q) : q[i] = Append(path, x)[i]
      BY <1>1, <1>3, <1>4 DEF OneLonger
    <2> QED BY <1>1, <1>4, <2>1, SameSeq DEF OneLonger
  <1> QED BY <1>1, <1>4 DEF OneLonger

(* At the end of the topic it is there or not.                              *)
LEMMA LeadsEnd ==
    ASSUME NEW topic \in Seq(DOMAIN Hash), NEW q \in Seq(Keys), NEW path \in Seq(Keys),
           Len(path) = Len(topic)
    PROVE  Leads(q, topic, path) <=> q = path
  <1>1. Len(topic) \in Nat /\ Len(q) \in Nat
    BY LenProperties
  <1>2. ASSUME Leads(q, topic, path) PROVE q = path
    <2>1. Len(q) = Len(path) /\ \A i \in 1..Len(q) : q[i] = path[i]
      BY <1>1, <1>2 DEF Leads
    <2> QED BY <2>1, SameSeq
  <1>3. ASSUME q = path PROVE Leads(q, topic, path)
    BY <1>1, <1>3 DEF Leads
  <1> QED BY <1>2, <1>3

(* Before that it goes one way only: to ">", by the word, or by "*".         *)
LEMMA LeadsOn ==
    ASSUME NEW topic \in Seq(DOMAIN Hash), NEW q \in Seq(Keys), NEW path \in Seq(Keys),
           Len(path) < Len(topic), NEW x \in Keys, x # ">"
    PROVE  Leads(q, topic, Append(path, x)) <=>
             /\ Len(path) + 1 <= Len(q) /\ q[Len(path) + 1] = x
             /\ \A i \in 1..Len(path) : q[i] = path[i]
             /\ \/ Len(q) = Len(topic) /\ \A i \in (Len(path) + 2)..Len(topic) : Fits(q, topic, i)
                \/ /\ Len(path) + 1 < Len(q) /\ Len(q) <= Len(topic) /\ q[Len(q)] = ">"
                   /\ Len(q) = Len(topic) => topic[Len(topic)] # EmptyWord
                   /\ \A i \in (Len(path) + 2)..(Len(q) - 1) : Fits(q, topic, i)
  <1> DEFINE p == Append(path, x)
             l == Len(path)
  <1>1. /\ Len(p) = l + 1 /\ p[l + 1] = x /\ \A i \in 1..l : p[i] = path[i]
    BY AppendProperties
  <1>2. l \in Nat /\ Len(q) \in Nat /\ Len(topic) \in Nat /\ l + 1 + 1 = l + 2
    BY LenProperties
  <1>3. (\A i \in 1..(l + 1) : q[i] = p[i]) <=> q[l + 1] = x /\ \A i \in 1..l : q[i] = path[i]
    <2>1. \A i \in 1..(l + 1) : i \in 1..l \/ i = l + 1
      BY <1>2
    <2>2. l + 1 \in 1..(l + 1) /\ \A i \in 1..l : i \in 1..(l + 1)
      BY <1>2
    <2> HIDE DEF p, l
    <2> QED BY <1>1, <2>1, <2>2
  <1> HIDE DEF p
  <1>4. Leads(q, topic, p) <=>
             /\ l + 1 <= Len(q) /\ q[l + 1] = x /\ \A i \in 1..l : q[i] = path[i]
             /\ \/ Len(q) = Len(topic) /\ \A i \in (l + 2)..Len(topic) : Fits(q, topic, i)
                \/ /\ l + 1 < Len(q) /\ Len(q) <= Len(topic) /\ q[Len(q)] = ">"
                   /\ Len(q) = Len(topic) => topic[Len(topic)] # EmptyWord
                   /\ \A i \in (l + 2)..(Len(q) - 1) : Fits(q, topic, i)
    <2> HIDE DEF l
    <2>1. Leads(q, topic, p) <=>
             /\ l + 1 <= Len(q) /\ (\A i \in 1..(l + 1) : q[i] = p[i])
             /\ \/ Len(q) = Len(topic) /\ \A i \in (l + 1 + 1)..Len(topic) : Fits(q, topic, i)
                \/ /\ l + 1 < Len(q) /\ Len(q) <= Len(topic) /\ q[Len(q)] = ">"
                   /\ Len(q) = Len(topic) => topic[Len(topic)] # EmptyWord
                   /\ \A i \in (l + 1 + 1)..(Len(q) - 1) : Fits(q, topic, i)
      BY <1>1 DEF Leads
    <2> QED BY <1>2, <1>3, <2>1
  <1> QED BY <1>4 DEF l, p

LEMMA LeadsOneWay ==
    ASSUME NEW topic \in Seq(DOMAIN Hash), NEW q \in Seq(Keys),
           NEW path \in Seq(Keys), NEW k \in 1..Len(topic), Len(path) = Len(topic) - k
    PROVE  One(Leads(q, topic, path)) =
             One(q = Append(path, ">") /\ (k > 1 \/ topic[Len(topic)] # EmptyWord))
             + One(Leads(q, topic, Append(path, Hash[topic[Len(topic) - k + 1]])))
             + One(Leads(q, topic, Append(path, "*")))
  <1> DEFINE l == Len(path)
             n == Len(topic)
             m == Len(q)
             w == Hash[topic[n - k + 1]]
             Rest == /\ l + 1 <= m
                     /\ \A i \in 1..l : q[i] = path[i]
                     /\ \/ m = n /\ \A i \in (l + 2)..n : Fits(q, topic, i)
                        \/ /\ l + 1 < m /\ m <= n /\ q[m] = ">"
                           /\ m = n => topic[n] # EmptyWord
                           /\ \A i \in (l + 2)..(m - 1) : Fits(q, topic, i)
             Ends == q = Append(path, ">") /\ (k > 1 \/ topic[n] # EmptyWord)
  <1>1. /\ l \in Nat /\ n \in Nat /\ m \in Nat /\ n - k + 1 = l + 1 /\ l < n /\ (k > 1 <=> l + 1 < n)
        /\ n - k + 1 \in 1..n
    BY LenProperties
  <1>2. w \in Keys /\ w # "*" /\ w # ">" /\ "*" \in Keys /\ ">" \in Keys /\ w = Hash[topic[l + 1]]
        /\ "*" # ">"
    BY <1>1, Hashed DEF Keys
  <1>3. /\ Leads(q, topic, Append(path, w)) <=> Rest /\ q[l + 1] = w
        /\ Leads(q, topic, Append(path, "*")) <=> Rest /\ q[l + 1] = "*"
    <2>1. ASSUME NEW x \in Keys, x # ">"
          PROVE  Leads(q, topic, Append(path, x)) <=> Rest /\ q[l + 1] = x
      <3>1. Len(path) < Len(topic)
        BY <1>1
      <3> DEFINE End == \/ m = n /\ \A i \in (l + 2)..n : Fits(q, topic, i)
                        \/ /\ l + 1 < m /\ m <= n /\ q[m] = ">"
                           /\ m = n => topic[n] # EmptyWord
                           /\ \A i \in (l + 2)..(m - 1) : Fits(q, topic, i)
      <3>2. Leads(q, topic, Append(path, x)) <=>
              /\ l + 1 <= m /\ q[l + 1] = x
              /\ \A i \in 1..l : q[i] = path[i]
              /\ End
        BY <2>1, <3>1, LeadsOn
      <3>3. Rest <=> /\ l + 1 <= m
                     /\ \A i \in 1..l : q[i] = path[i]
                     /\ End
        OBVIOUS
      <3> HIDE DEF Rest, End, l, n, m, w
      <3> QED BY <3>2, <3>3
    <2> HIDE DEF Rest, w, l
    <2> QED BY <1>2, <2>1
  <1>4. Ends <=> /\ m = l + 1 /\ q[l + 1] = ">" /\ (\A i \in 1..l : q[i] = path[i])
                 /\ m = n => topic[n] # EmptyWord
    <2>1. q = Append(path, ">") <=> /\ m = l + 1 /\ q[l + 1] = ">"
                                    /\ \A i \in 1..l : q[i] = path[i]
      <3>1. ">" \in Keys
        BY <1>2
      <3>2. q = Append(path, ">") <=> OneLonger(q, path, ">")
        BY <3>1, AppendIs
      <3> QED BY <3>2 DEF OneLonger
    <2>2. m = l + 1 => ((k > 1 \/ topic[n] # EmptyWord) <=> (m = n => topic[n] # EmptyWord))
      <3> HIDE DEF l, n, m
      <3> QED BY <1>1
    <2> HIDE DEF l, n, m
    <2> QED BY <2>1, <2>2
  <1>5. Leads(q, topic, path) => m >= l + 1 /\ q[l + 1] \in {"*", ">", w}
    <2> SUFFICES ASSUME Leads(q, topic, path) PROVE m >= l + 1 /\ q[l + 1] \in {"*", ">", w}
      OBVIOUS
    <2>1. m >= l + 1
      BY <1>1 DEF Leads
    <2>2. CASE m = n /\ \A i \in (l + 1)..n : Fits(q, topic, i)
      <3>1. l + 1 \in (l + 1)..n
        BY <1>1
      <3> QED BY <1>2, <2>1, <2>2, <3>1 DEF Fits
    <2>3. CASE q[m] = ">" /\ \A i \in (l + 1)..(m - 1) : Fits(q, topic, i)
      <3>1. m = l + 1 \/ l + 1 \in (l + 1)..(m - 1)
        <4> HIDE DEF l, n, m
        <4> QED BY <1>1, <2>1
      <3> QED BY <1>2, <2>1, <2>3, <3>1 DEF Fits
    <2> QED BY <2>2, <2>3 DEF Leads
  <1>6. CASE q[l + 1] = ">"
    <2>1. ~ Fits(q, topic, l + 1)
      BY <1>2, <1>6 DEF Fits
    <2>2. l + 1 \in (l + 1)..n /\ (l + 1 < m => l + 1 \in (l + 1)..(m - 1))
      BY <1>1
    <2>3. Leads(q, topic, path) => Ends
      <3> SUFFICES ASSUME Leads(q, topic, path) PROVE Ends
        OBVIOUS
      <3>1. m >= l + 1 /\ \A i \in 1..l : q[i] = path[i]
        BY <1>5 DEF Leads
      <3>2. ~ (m = n /\ \A i \in (l + 1)..n : Fits(q, topic, i))
        BY <2>1, <2>2
      <3>3. (m = n => topic[n] # EmptyWord) /\ \A i \in (l + 1)..(m - 1) : Fits(q, topic, i)
        BY <3>2 DEF Leads
      <3>4. ~ (l + 1 < m)
        BY <2>1, <2>2, <3>3
      <3>5. m = l + 1
        <4> HIDE DEF l, n, m
        <4> QED BY <1>1, <3>1, <3>4
      <3> QED BY <1>4, <1>6, <3>1, <3>3, <3>5
    <2>4. Ends => Leads(q, topic, path)
      <3> SUFFICES ASSUME Ends PROVE Leads(q, topic, path)
        OBVIOUS
      <3>1. m = l + 1 /\ q[m] = ">" /\ (\A i \in 1..l : q[i] = path[i]) /\ (m = n => topic[n] # EmptyWord)
        BY <1>4
      <3>2. l <= m /\ l < m /\ m <= n /\ \A i \in (l + 1)..(m - 1) : FALSE
        BY <1>1, <3>1
      <3> HIDE DEF Ends
      <3> QED BY <3>1, <3>2 DEF Leads
    <2>5. /\ ~ Leads(q, topic, Append(path, w)) /\ ~ Leads(q, topic, Append(path, "*"))
      BY <1>2, <1>3, <1>6
    <2> HIDE DEF Ends, w
    <2>6. (Leads(q, topic, path) <=> Ends)
      BY <2>3, <2>4
    <2>7. CASE Ends
      BY <2>5, <2>6, <2>7 DEF One, Ends, w
    <2>8. CASE ~ Ends
      BY <2>5, <2>6, <2>8 DEF One, Ends, w
    <2> QED BY <2>7, <2>8
  <1>7. CASE q[l + 1] # ">"
    <2>1. ~ Ends
      BY <1>4, <1>7
    <2>2. Leads(q, topic, path) <=> Rest /\ q[l + 1] \in {"*", w}
      <3>1. ASSUME Leads(q, topic, path) PROVE Rest /\ q[l + 1] \in {"*", w}
        <4>1. m >= l + 1 /\ q[l + 1] \in {"*", w} /\ \A i \in 1..l : q[i] = path[i]
          BY <1>5, <1>7, <3>1 DEF Leads
        <4>2. /\ \A i \in (l + 2)..n : i \in (l + 1)..n
              /\ \A i \in (l + 2)..(m - 1) : i \in (l + 1)..(m - 1)
          <5> HIDE DEF l, n, m
          <5> QED BY <1>1
        <4>3. q[m] = ">" => m # l + 1
          BY <1>7
        <4>4. m # l + 1 => l + 1 < m
          <5> HIDE DEF l, n, m
          <5> QED BY <1>1, <4>1
        <4>5. \/ m = n /\ \A i \in (l + 1)..n : Fits(q, topic, i)
              \/ /\ l < m /\ m <= n /\ q[m] = ">"
                 /\ m = n => topic[n] # EmptyWord
                 /\ \A i \in (l + 1)..(m - 1) : Fits(q, topic, i)
          BY <3>1 DEF Leads
        <4>6. /\ m = n /\ (\A i \in (l + 1)..n : Fits(q, topic, i))
                   => \A i \in (l + 2)..n : Fits(q, topic, i)
              /\ (\A i \in (l + 1)..(m - 1) : Fits(q, topic, i))
                   => \A i \in (l + 2)..(m - 1) : Fits(q, topic, i)
          BY <4>2, Zenon
        <4>7. l + 1 <= m
          BY <1>1, <4>1
        <4> QED BY <4>1, <4>3, <4>4, <4>5, <4>6, <4>7, Zenon
      <3>2. ASSUME Rest, q[l + 1] \in {"*", w} PROVE Leads(q, topic, path)
        <4>1. Fits(q, topic, l + 1)
          BY <1>2, <3>2 DEF Fits
        <4>2. /\ \A i \in (l + 1)..n : i = l + 1 \/ i \in (l + 2)..n
              /\ \A i \in (l + 1)..(m - 1) : i = l + 1 \/ i \in (l + 2)..(m - 1)
          <5> HIDE DEF l, n, m
          <5> QED BY <1>1
        <4>3. l <= m /\ l < m
          BY <1>1, <3>2
        <4> QED BY <3>2, <4>1, <4>2, <4>3 DEF Leads
      <3> QED BY <3>1, <3>2
    <2> HIDE DEF Rest, Ends
    <2>3. CASE Rest /\ q[l + 1] = w
      <3>1. /\ Leads(q, topic, path) /\ Leads(q, topic, Append(path, w))
            /\ ~ Leads(q, topic, Append(path, "*"))
        BY <1>2, <1>3, <2>2, <2>3
      <3> HIDE DEF w
      <3> QED BY <2>1, <3>1 DEF One, Ends, w
    <2>4. CASE Rest /\ q[l + 1] = "*"
      <3>1. /\ Leads(q, topic, path) /\ ~ Leads(q, topic, Append(path, w))
            /\ Leads(q, topic, Append(path, "*"))
        BY <1>2, <1>3, <2>2, <2>4
      <3> HIDE DEF w
      <3> QED BY <2>1, <3>1 DEF One, Ends, w
    <2>5. CASE ~ (Rest /\ q[l + 1] \in {"*", w})
      <3>1. /\ ~ Leads(q, topic, path) /\ ~ Leads(q, topic, Append(path, w))
            /\ ~ Leads(q, topic, Append(path, "*"))
        BY <1>3, <2>2, <2>5
      <3> HIDE DEF w
      <3> QED BY <2>1, <3>1 DEF One, Ends, w
    <2> QED BY <2>3, <2>4, <2>5
  <1> QED BY <1>6, <1>7
(* From the root the search comes to the paths that cover the topic.        *)
LEMMA LeadsTop ==
    ASSUME NEW topic \in Seq(DOMAIN Hash), NEW segments \in Seq(Word)
    PROVE  Leads(PathOf(segments), topic, <<>>) <=> Covers(segments, topic)
  <1> DEFINE q == PathOf(segments)
             n == Len(segments)
             m == Len(topic)
             Same(i) == \/ segments[i] = "*"
                        \/ segments[i] \notin {"*", ">"} /\ Hash[segments[i]] = Hash[topic[i]]
  <1>1. n \in Nat /\ m \in Nat /\ Len(<<>>) = 0
    BY LenProperties
  <1>2. Len(q) = n /\ \A i \in 1..n : q[i] = ">" <=> segments[i] = ">"
    <2>1. Len(q) = n
      BY PathType
    <2>2. ASSUME NEW i \in 1..n PROVE q[i] = ">" <=> segments[i] = ">"
      <3>1. /\ segments[i] \in {"*", ">"} => q[i] = segments[i]
            /\ segments[i] \notin {"*", ">"} => q[i] \notin {"*", ">"}
        BY PathType
      <3> HIDE DEF q
      <3> QED BY <3>1
    <2> QED BY <2>1, <2>2
  <1>3. ASSUME NEW i \in 1..n, i \in 1..m PROVE Fits(q, topic, i) <=> Same(i)
    <2>1. Hash[topic[i]] \notin {"*", ">"}
      BY <1>3, Hashed
    <2>2. /\ segments[i] \in {"*", ">"} => q[i] = segments[i]
          /\ segments[i] \notin {"*", ">"} => q[i] = Hash[segments[i]] /\ q[i] \notin {"*", ">"}
      BY PathType
    <2> HIDE DEF q
    <2> QED BY <2>1, <2>2 DEF Fits
  <1> DEFINE Full == n = m /\ \A i \in 1..n : Same(i)
             Rest == /\ n > 0 /\ n <= m /\ segments[n] = ">"
                     /\ n = m => topic[m] # EmptyWord
                     /\ \A i \in 1..(n - 1) : Same(i)
  <1>4. Covers(segments, topic) <=> Full \/ Rest
    <2>1. Covers(segments, topic) <=>
            \/ n = m /\ \A i \in 1..n : Same(i)
            \/ /\ n > 0 /\ n <= m /\ segments[n] = ">"
               /\ n = m => topic[n] # EmptyWord
               /\ \A i \in 1..(n - 1) : Same(i)
      BY DEF Covers
    <2> HIDE DEF n, m, Same
    <2> QED BY <2>1
  <1>5. Leads(q, topic, <<>>) <=>
          \/ n = m /\ \A i \in 1..m : Fits(q, topic, i)
          \/ /\ 0 < n /\ n <= m /\ q[n] = ">"
             /\ n = m => topic[m] # EmptyWord
             /\ \A i \in 1..(n - 1) : Fits(q, topic, i)
    <2> HIDE DEF q, n
    <2>1. 0 <= n /\ 0 + 1 = 1 /\ \A i \in 1..0 : FALSE
      BY <1>1
    <2> QED BY <1>1, <1>2, <2>1 DEF Leads
  <1>6. n = m => ((\A i \in 1..m : Fits(q, topic, i)) <=> \A i \in 1..n : Same(i))
    <2> HIDE DEF q, n, m, Same
    <2> QED BY <1>3
  <1>7. n <= m /\ 0 < n => ((\A i \in 1..(n - 1) : Fits(q, topic, i)) <=> \A i \in 1..(n - 1) : Same(i))
    <2>1. n <= m => \A i \in 1..(n - 1) : i \in 1..n /\ i \in 1..m
      <3> HIDE DEF n, m
      <3> QED BY <1>1
    <2> HIDE DEF q, n, m, Same
    <2> QED BY <1>3, <2>1
  <1>8. 0 < n => (q[n] = ">" <=> segments[n] = ">")
    <2>1. 0 < n => n \in 1..n
      <3> HIDE DEF n
      <3> QED BY <1>1
    <2> HIDE DEF q, n
    <2> QED BY <1>2, <2>1
  <1>9. n > 0 <=> 0 < n
    <2> HIDE DEF n
    <2> QED BY <1>1
  <1> HIDE DEF q, n, m, Same
  <1> QED BY <1>4, <1>5, <1>6, <1>7, <1>8, <1>9 DEF q
-----------------------------------------------------------------------------
MoreTimes(node, topic, k, r, path, h) ==
    (IF k > 1 \/ topic[Len(topic)] # EmptyWord
       THEN Times(HandlersAt(node, Append(path, ">")), h) ELSE 0)
    + Times(r[Append(path, Hash[topic[Len(topic) - k + 1]])], h)
    + Times(r[Append(path, "*")], h)

(* One more handler at a path is found once more wherever the search comes   *)
(* to it.                                                                   *)
LEMMA MoreCounted ==
    ASSUME NEW topic \in Seq(DOMAIN Hash), NEW node \in Tries,
           NEW k \in 1..Len(topic), NEW r \in [Seq(Keys) -> Seq(Handler)],
           NEW path \in Seq(Keys), NEW h \in Handler
    PROVE  Times(More(node, topic, k, r, path), h) = MoreTimes(node, topic, k, r, path, h)
  <1> DEFINE w == Hash[topic[Len(topic) - k + 1]]
             Here == HandlersAt(node, Append(path, ">"))
             a == IF k > 1 \/ topic[Len(topic)] # EmptyWord THEN Here ELSE <<>>
             b == r[Append(path, w)]
             c == r[Append(path, "*")]
  <1>1. Len(topic) - k + 1 \in 1..Len(topic)
    BY LenProperties
  <1>2. w \in Keys /\ "*" \in Keys
    BY <1>1, Hashed DEF Keys
  <1>3. b \in Seq(Handler) /\ c \in Seq(Handler)
    <2>1. Append(path, w) \in Seq(Keys) /\ Append(path, "*") \in Seq(Keys)
      BY <1>2, AppendProperties
    <2> QED BY <2>1
  <1>4. Here \in Seq(Handler) /\ << >> \in Seq(Handler)
    BY AtType, EmptySeq
  <1>5. a \in Seq(Handler)
    BY <1>4
  <1>6. Times(a, h) = IF k > 1 \/ topic[Len(topic)] # EmptyWord THEN Times(Here, h) ELSE 0
    BY TimesEmpty
  <1>7. More(node, topic, k, r, path) = a \o b \o c
    BY DEF More
  <1> HIDE DEF a, b, c
  <1>8. a \o b \in Seq(Handler) /\ Times(a \o b, h) = Times(a, h) + Times(b, h)
    BY <1>3, <1>5, JoinedType, TimesJoin
  <1> DEFINE d == a \o b
  <1>9. Times(a \o b \o c, h) = Times(a \o b, h) + Times(c, h)
    <2>0. d \in Seq(Handler)
      BY <1>8
    <2> HIDE DEF d
    <2>1. Times(d \o c, h) = Times(d, h) + Times(c, h)
      BY <1>3, <2>0, TimesJoin
    <2> QED BY <2>1 DEF d
  <1>10. MoreTimes(node, topic, k, r, path, h) = Times(a, h) + Times(b, h) + Times(c, h)
    BY <1>6 DEF MoreTimes, b, c
  <1> QED BY <1>7, <1>8, <1>9, <1>10

LEMMA AtCounted ==
    ASSUME NEW node \in Tries, NEW segments, NEW x \in Handler, NEW path, NEW h
    PROVE  Times(HandlersAt(addSubscription(node, segments, x), path), h) =
             Times(HandlersAt(node, path), h) + One(x = h /\ PathOf(segments) = path)
  <1> DEFINE s == HandlersAt(node, path)
  <1>1. s \in Seq(Handler)
    BY AtType
  <1>2. Times(s, h) \in Nat /\ Times(Append(s, x), h) = Times(s, h) + One(x = h)
    <2> HIDE DEF s
    <2>1. Times(s, h) \in Nat
      BY <1>1, TimesType
    <2>2. Times(Append(s, x), h) = Times(s, h) + One(x = h)
      BY <1>1, TimesAppend DEF One
    <2> QED BY <2>1, <2>2 DEF One
  <1>3. CASE PathOf(segments) = path
    <2>1. HandlersAt(addSubscription(node, segments, x), path) = Append(s, x)
      BY <1>3, AddedAt
    <2>2. (x = h /\ PathOf(segments) = path) <=> x = h
      BY <1>3
    <2> HIDE DEF s
    <2> QED BY <1>2, <2>1, <2>2 DEF One, s
  <1>4. CASE PathOf(segments) # path
    <2>1. HandlersAt(addSubscription(node, segments, x), path) = s
      BY <1>4, AddedAt
    <2>2. One(x = h /\ PathOf(segments) = path) = 0
      BY <1>4 DEF One
    <2> HIDE DEF s
    <2> QED BY <1>2, <2>1, <2>2 DEF s
  <1> QED BY <1>3, <1>4

LEMMA Counted ==
    ASSUME NEW topic \in Seq(DOMAIN Hash), NEW node \in Tries,
           NEW segments \in Seq(Word), NEW x \in Handler, NEW h \in Handler, NEW f, NEW g,
           Searched(f, node, topic), Searched(g, addSubscription(node, segments, x), topic)
    PROVE  \A k \in 0..Len(topic) : \A path \in Seq(Keys) :
             Len(path) = Len(topic) - k =>
               Times(g[k][path], h) =
                 Times(f[k][path], h) + One(x = h /\ Leads(PathOf(segments), topic, path))
  <1> DEFINE n == Len(topic)
             q == PathOf(segments)
             new == addSubscription(node, segments, x)
             Adds(k, path) == Times(g[k][path], h) =
                                Times(f[k][path], h) + One(x = h /\ Leads(q, topic, path))
             T == {k \in 0..n : \A path \in Seq(Keys) : Len(path) = n - k => Adds(k, path)}
  <1>1. n \in Nat /\ q \in Seq(Keys) /\ new \in Tries
    BY LenProperties, PathType, AddedType
  <1>2. ASSUME NEW path \in Seq(Keys), Len(path) = n - 0 PROVE Adds(0, path)
    <2>1. g[0][path] = HandlersAt(new, path) /\ f[0][path] = HandlersAt(node, path)
      BY DEF Searched
    <2>2. Len(path) = Len(topic)
      BY <1>1, <1>2
    <2>3. Leads(q, topic, path) <=> q = path
      BY <1>1, <2>2, LeadsEnd
    <2>4. Times(HandlersAt(new, path), h) = Times(HandlersAt(node, path), h) + One(x = h /\ q = path)
      BY AtCounted
    <2>5. (x = h /\ q = path) <=> (x = h /\ Leads(q, topic, path))
      BY <2>3
    <2>6. One(x = h /\ q = path) = One(x = h /\ Leads(q, topic, path))
      BY <2>5 DEF One
    <2> QED BY <2>1, <2>4, <2>6
  <1>3. ASSUME NEW k \in 1..n, k - 1 \in T, NEW path \in Seq(Keys), Len(path) = n - k
        PROVE  Adds(k, path)
    <2> DEFINE w == Hash[topic[n - k + 1]]
               pw == Append(path, w)
               ps == Append(path, "*")
               pg == Append(path, ">")
               Ahead == k > 1 \/ topic[n] # EmptyWord
               L(p) == Leads(q, topic, p)
    <2>1. n - k + 1 \in 1..n /\ k - 1 \in 0..n /\ k \in 0..n
      BY <1>1
    <2>2. w \in Keys /\ "*" \in Keys /\ ">" \in Keys
      BY <2>1, Hashed DEF Keys
    <2>3. pw \in Seq(Keys) /\ ps \in Seq(Keys) /\ pg \in Seq(Keys)
          /\ Len(pw) = Len(path) + 1 /\ Len(ps) = Len(path) + 1
      BY <2>2, AppendProperties
    <2>4. Len(path) + 1 = n - (k - 1)
      BY <1>1, <1>3
    <2>5. Adds(k - 1, pw) /\ Adds(k - 1, ps)
      <3> HIDE DEF Adds
      <3> QED BY <1>3, <2>3, <2>4
    <2>6. /\ f[k] \in [Seq(Keys) -> Seq(Handler)] /\ f[k - 1] \in [Seq(Keys) -> Seq(Handler)]
          /\ g[k] \in [Seq(Keys) -> Seq(Handler)] /\ g[k - 1] \in [Seq(Keys) -> Seq(Handler)]
      BY <2>1 DEF Searched
    <2>7. /\ f[k][path] = More(node, topic, k, f[k - 1], path)
          /\ g[k][path] = More(new, topic, k, g[k - 1], path)
      BY DEF Searched
    <2>8. Times(f[k][path], h) =
            (IF Ahead THEN Times(HandlersAt(node, pg), h) ELSE 0)
             + Times(f[k - 1][pw], h) + Times(f[k - 1][ps], h)
      <3> DEFINE r == f[k - 1]
      <3> HIDE DEF r
      <3>1. r \in [Seq(Keys) -> Seq(Handler)]
        BY <2>6 DEF r
      <3>2. Times(More(node, topic, k, r, path), h) = MoreTimes(node, topic, k, r, path, h)
        BY <3>1, MoreCounted
      <3> QED BY <2>7, <3>2 DEF r, MoreTimes
    <2>9. Times(g[k][path], h) =
            (IF Ahead THEN Times(HandlersAt(new, pg), h) ELSE 0)
             + Times(g[k - 1][pw], h) + Times(g[k - 1][ps], h)
      <3> DEFINE r == g[k - 1]
      <3> HIDE DEF new, r
      <3>1. r \in [Seq(Keys) -> Seq(Handler)]
        BY <2>6 DEF r
      <3>2. Times(More(new, topic, k, r, path), h) = MoreTimes(new, topic, k, r, path, h)
        BY <1>1, <3>1, MoreCounted
      <3> QED BY <2>7, <3>2 DEF r, MoreTimes
    <2>10. Times(HandlersAt(new, pg), h) = Times(HandlersAt(node, pg), h) + One(x = h /\ q = pg)
      <3> HIDE DEF pg
      <3> QED BY AtCounted DEF One
    <2>11. One(L(path)) = One(q = pg /\ Ahead) + One(L(pw)) + One(L(ps))
      BY <1>1, <1>3, LeadsOneWay
    <2>12. /\ Times(f[k - 1][pw], h) \in Nat /\ Times(f[k - 1][ps], h) \in Nat
           /\ Times(HandlersAt(node, pg), h) \in Nat
      <3>1. f[k - 1][pw] \in Seq(Handler) /\ f[k - 1][ps] \in Seq(Handler)
            /\ HandlersAt(node, pg) \in Seq(Handler)
        BY <2>3, <2>6, AtType
      <3> QED BY <3>1, TimesType
    <2> HIDE DEF n, q, new, w, pw, ps, pg, L
    <2>13. CASE x = h
      <3>1. /\ One(x = h /\ q = pg) = One(q = pg) /\ One(x = h /\ L(path)) = One(L(path))
            /\ One(x = h /\ L(pw)) = One(L(pw)) /\ One(x = h /\ L(ps)) = One(L(ps))
        BY <2>13 DEF One
      <3>2. /\ One(q = pg) \in Nat /\ One(L(pw)) \in Nat /\ One(L(ps)) \in Nat
            /\ One(q = pg /\ Ahead) = IF Ahead THEN One(q = pg) ELSE 0
        BY DEF One
      <3>3. /\ Times(g[k - 1][pw], h) = Times(f[k - 1][pw], h) + One(L(pw))
            /\ Times(g[k - 1][ps], h) = Times(f[k - 1][ps], h) + One(L(ps))
        BY <2>5, <3>1 DEF L
      <3>4. Times(g[k][path], h) = Times(f[k][path], h) + One(L(path))
        <4> HIDE DEF Ahead
        <4> QED BY <2>8, <2>9, <2>10, <2>11, <2>12, <3>1, <3>2, <3>3
      <3> QED BY <3>1, <3>4 DEF L
    <2>14. CASE x # h
      <3>1. /\ One(x = h /\ q = pg) = 0 /\ One(x = h /\ L(path)) = 0
            /\ One(x = h /\ L(pw)) = 0 /\ One(x = h /\ L(ps)) = 0
        BY <2>14 DEF One
      <3>3. /\ Times(g[k - 1][pw], h) = Times(f[k - 1][pw], h) + 0
            /\ Times(g[k - 1][ps], h) = Times(f[k - 1][ps], h) + 0
        BY <2>5, <3>1 DEF L
      <3>4. Times(g[k][path], h) = Times(f[k][path], h) + 0
        <4> HIDE DEF Ahead
        <4> QED BY <2>8, <2>9, <2>10, <2>12, <3>1, <3>3
      <3> QED BY <3>1, <3>4 DEF L
    <2> QED BY <2>13, <2>14
  <1> HIDE DEF Adds, n
  <1>4. 0 \in T
    BY <1>1, <1>2
  <1>5. ASSUME NEW k \in 1..n, k - 1 \in T PROVE k \in T
    <2>1. k \in 0..n
      BY <1>1
    <2> QED BY <1>3, <1>5, <2>1
  <1>6. \A k \in 0..n : k \in T
    <2> HIDE DEF T
    <2> QED BY <1>1, <1>4, <1>5, UpTo
  <1> QED BY <1>6 DEF Adds, n
LEMMA FoundMore ==
    ASSUME NEW topic \in Seq(DOMAIN Hash), NEW node \in Tries, NEW segments \in Seq(Word),
           NEW x \in Handler, NEW h \in Handler
    PROVE  Times(recursiveSearch(addSubscription(node, segments, x), topic), h) =
             Times(recursiveSearch(node, topic), h) + One(x = h /\ Covers(segments, topic))
  <1> DEFINE new == addSubscription(node, segments, x)
             n == Len(topic)
  <1>1. new \in Tries /\ n \in Nat /\ << >> \in Seq(Keys) /\ Len(<< >>) = 0
    BY AddedType, LenProperties, EmptySeq
  <1>2. PICK f : Searched(f, node, topic)
    BY SearchExists
  <1>3. PICK g : Searched(g, new, topic)
    <2> HIDE DEF new
    <2> QED BY <1>1, SearchExists
  <1>4. Times(g[n][<< >>], h) =
          Times(f[n][<< >>], h) + One(x = h /\ Leads(PathOf(segments), topic, << >>))
    <2>1. \A k \in 0..n : \A path \in Seq(Keys) :
             Len(path) = n - k =>
               Times(g[k][path], h) =
                 Times(f[k][path], h) + One(x = h /\ Leads(PathOf(segments), topic, path))
      BY <1>2, <1>3, Counted
    <2>2. n \in 0..n /\ Len(<< >>) = n - n
      BY <1>1
    <2> HIDE DEF n
    <2> QED BY <1>1, <2>1, <2>2
  <1>5. Leads(PathOf(segments), topic, << >>) <=> Covers(segments, topic)
    BY LeadsTop
  <1>6. One(x = h /\ Leads(PathOf(segments), topic, << >>)) = One(x = h /\ Covers(segments, topic))
    BY <1>5 DEF One
  <1>7. recursiveSearch(node, topic) = f[n][<< >>] /\ recursiveSearch(new, topic) = g[n][<< >>]
    BY <1>2, <1>3 DEF Searched
  <1> HIDE DEF new, n
  <1> QED BY <1>4, <1>6, <1>7 DEF new

LEMMA SearchType ==
    ASSUME NEW topic \in Seq(DOMAIN Hash), NEW node \in Tries
    PROVE  recursiveSearch(node, topic) \in Seq(Handler)
  <1>1. PICK f : Searched(f, node, topic)
    BY SearchExists
  <1>2. << >> \in Seq(Keys) /\ Len(topic) \in 0..Len(topic)
    BY EmptySeq, LenProperties
  <1>3. recursiveSearch(node, topic) = f[Len(topic)][<< >>]
        /\ f[Len(topic)] \in [Seq(Keys) -> Seq(Handler)]
    BY <1>1, <1>2 DEF Searched
  <1> QED BY <1>2, <1>3

(* The paths of a pattern are added one after the other.                    *)
Adding(f, node, p, x) ==
    /\ f \in [0..Len(precompute(p)) -> Tries]
    /\ f[0] = node
    /\ \A i \in 1..Len(precompute(p)) : f[i] = addSubscription(f[i - 1], precompute(p)[i], x)
    /\ WithPaths(node, p, x) = f[Len(precompute(p))]

LEMMA AddingExists ==
    ASSUME NEW node \in Tries, NEW p \in Seq(Seq(Word)), NEW x \in Handler
    PROVE  \E f : Adding(f, node, p, x)
  <1> DEFINE paths == precompute(p)
             n == Len(paths)
             F == [i \in 1..n |-> [a \in Tries |-> addSubscription(a, paths[i], x)]]
             f == CHOOSE f : f = [i \in 0..n |->
                    IF i = 0 THEN node ELSE addSubscription(f[i - 1], paths[i], x)]
  <1>n. n \in Nat /\ n \in 0..n /\ 0 \in 0..n /\ (\A i \in 1..n : i - 1 \in 0..n /\ i \in 0..n /\ i # 0)
        /\ \A i \in 1..n : paths[i] \in Seq(Word)
    <2>1. paths \in Seq(Seq(Word))
      BY PrecomputeType
    <2> HIDE DEF paths
    <2> QED BY <2>1, LenProperties, ElementOfSeq
  <1> HIDE DEF paths
  <1>1. \A i \in 1..n : \A a \in Tries : F[i][a] = addSubscription(a, paths[i], x) /\ F[i][a] \in Tries
    BY <1>n, AddedType
  <1>2. PICK g \in [0..n -> Tries] : Takes(g, node, F, n)
    <2> HIDE DEF F, n
    <2> QED BY <1>n, <1>1, Iterated
  <1>3. g = [i \in 0..n |-> IF i = 0 THEN node ELSE addSubscription(g[i - 1], paths[i], x)]
    <2>1. ASSUME NEW i \in 1..n PROVE g[i] = addSubscription(g[i - 1], paths[i], x)
      <3>1. g[i] = F[i][g[i - 1]] /\ g[i - 1] \in Tries
        BY <1>n, <1>2 DEF Takes
      <3> HIDE DEF F, n
      <3> QED BY <1>1, <3>1
    <2>2. g[0] = node
      BY <1>2 DEF Takes
    <2>3. \A i \in 0..n : i # 0 => i \in 1..n
      BY <1>n
    <2> HIDE DEF n
    <2> QED BY <1>2, <2>1, <2>2, <2>3
  <1>4. f = [i \in 0..n |-> IF i = 0 THEN node ELSE addSubscription(f[i - 1], paths[i], x)]
    <2> HIDE DEF n
    <2> QED BY <1>3
  <1>5. WithPaths(node, p, x) = f[n]
    BY DEF WithPaths, paths
  <1> HIDE DEF f, n, F
  <1> DEFINE T == {i \in 0..n : f[i] \in Tries}
  <1>6. f[0] = node /\ \A i \in 1..n : f[i] = addSubscription(f[i - 1], paths[i], x)
    BY <1>n, <1>4
  <1>7. 0 \in T
    BY <1>n, <1>6
  <1>8. ASSUME NEW i \in 1..n, i - 1 \in T PROVE i \in T
    BY <1>n, <1>6, <1>8, AddedType
  <1>9. \A i \in 0..n : i \in T
    <2> HIDE DEF T
    <2> QED BY <1>n, <1>7, <1>8, UpTo
  <1>10. f \in [0..n -> Tries]
    BY <1>4, <1>9
  <1> QED BY <1>5, <1>6, <1>10 DEF Adding, n, paths

LEMMA AddingType ==
    ASSUME NEW node \in Tries, NEW p \in Seq(Seq(Word)), NEW x \in Handler
    PROVE  WithPaths(node, p, x) \in Tries
  <1>1. PICK f : Adding(f, node, p, x)
    BY AddingExists
  <1>2. Len(precompute(p)) \in 0..Len(precompute(p))
    BY PrecomputeType, LenProperties
  <1> QED BY <1>1, <1>2 DEF Adding

(* Of the paths of a pattern, those that cover a topic.                     *)
Met(p, topic, i) == {j \in 1..i : Covers(precompute(p)[j], topic)}

LEMMA FoundAll ==
    ASSUME NEW topic \in Seq(DOMAIN Hash), NEW node \in Tries, NEW p \in Seq(Seq(Word)),
           NEW x \in Handler, NEW h \in Handler
    PROVE  /\ DOMAIN precompute(p) = 1..Len(precompute(p))
           /\ IsFiniteSet(Met(p, topic, Len(precompute(p))))
           /\ Times(recursiveSearch(WithPaths(node, p, x), topic), h) =
                Times(recursiveSearch(node, topic), h) +
                  IF x = h THEN Cardinality(Met(p, topic, Len(precompute(p)))) ELSE 0
  <1> DEFINE paths == precompute(p)
             n == Len(paths)
             C(i) == Cardinality(Met(p, topic, i))
             Found(a) == Times(recursiveSearch(a, topic), h)
  <1>n. n \in Nat /\ n \in 0..n /\ (\A i \in 1..n : paths[i] \in Seq(Word)) /\ DOMAIN paths = 1..n
    <2>1. paths \in Seq(Seq(Word))
      BY PrecomputeType
    <2> HIDE DEF paths
    <2> QED BY <2>1, LenProperties, ElementOfSeq
  <1>1. PICK f : Adding(f, node, p, x)
    BY AddingExists
  <1>2. \A i \in 0..n : IsFiniteSet(Met(p, topic, i)) /\ C(i) \in Nat
    <2> SUFFICES ASSUME NEW i \in 0..n PROVE IsFiniteSet(Met(p, topic, i)) /\ C(i) \in Nat
      OBVIOUS
    <2>1. IsFiniteSet(1..i)
      BY FS_Interval
    <2>2. Met(p, topic, i) \in SUBSET (1..i)
      BY DEF Met
    <2> QED BY <2>1, <2>2, FS_Subset, FS_CardinalityType
  <1>3. ASSUME NEW i \in 1..n PROVE C(i) = C(i - 1) + One(Covers(paths[i], topic))
    <2>1. i - 1 \in 0..n /\ i \notin 1..(i - 1) /\ \A j \in 1..i : j = i \/ j \in 1..(i - 1)
      BY <1>n
    <2>2. i \in 1..i /\ \A j \in 1..(i - 1) : j \in 1..i
      BY <1>n
    <2>3. IsFiniteSet(Met(p, topic, i - 1)) /\ C(i - 1) \in Nat
      BY <1>2, <2>1
    <2>4. CASE Covers(paths[i], topic)
      <3>1. Met(p, topic, i) = Met(p, topic, i - 1) \cup {i} /\ i \notin Met(p, topic, i - 1)
        BY <2>1, <2>2, <2>4 DEF Met
      <3> QED BY <2>3, <2>4, <3>1, FS_AddElement DEF One
    <2>5. CASE ~ Covers(paths[i], topic)
      <3>1. Met(p, topic, i) = Met(p, topic, i - 1)
        BY <2>1, <2>2, <2>5 DEF Met
      <3> QED BY <2>3, <2>5, <3>1 DEF One
    <2> QED BY <2>4, <2>5
  <1> DEFINE T == {i \in 0..n : Found(f[i]) = Found(node) + IF x = h THEN C(i) ELSE 0}
  <1>4. Found(node) \in Nat
    BY SearchType, TimesType
  <1>5. 0 \in T
    <2>1. f[0] = node /\ 0 \in 0..n
      BY <1>n, <1>1 DEF Adding
    <2>2. Met(p, topic, 0) = {}
      BY DEF Met
    <2>3. C(0) = 0
      BY <2>2, FS_EmptySet
    <2> HIDE DEF Found, C, n
    <2> QED BY <1>4, <2>1, <2>3
  <1>6. ASSUME NEW i \in 1..n, i - 1 \in T PROVE i \in T
    <2>1. i - 1 \in 0..n /\ i \in 0..n
      BY <1>n
    <2>2. f[i - 1] \in Tries /\ f[i] = addSubscription(f[i - 1], paths[i], x) /\ paths[i] \in Seq(Word)
      BY <1>n, <1>1, <2>1 DEF Adding
    <2>3. Found(f[i]) = Found(f[i - 1]) + One(x = h /\ Covers(paths[i], topic))
      <3> DEFINE a == f[i - 1]
                 s == paths[i]
      <3>1. a \in Tries /\ s \in Seq(Word)
        BY <2>2
      <3> HIDE DEF a, s
      <3>2. Found(addSubscription(a, s, x)) = Found(a) + One(x = h /\ Covers(s, topic))
        BY <3>1, FoundMore DEF One
      <3> QED BY <2>2, <3>2 DEF a, s
    <2>4. Found(f[i - 1]) = Found(node) + IF x = h THEN C(i - 1) ELSE 0
      BY <1>6
    <2>5. C(i) = C(i - 1) + One(Covers(paths[i], topic)) /\ C(i - 1) \in Nat
      BY <1>2, <1>3, <2>1
    <2> HIDE DEF Found, C, n, paths
    <2>6. CASE x = h
      <3>1. One(x = h /\ Covers(paths[i], topic)) = One(Covers(paths[i], topic))
            /\ One(Covers(paths[i], topic)) \in Nat
        BY <2>6 DEF One
      <3>2. Found(f[i]) = Found(node) + C(i)
        BY <1>4, <2>3, <2>4, <2>5, <2>6, <3>1
      <3> QED BY <2>1, <2>6, <3>2
    <2>7. CASE x # h
      <3>1. One(x = h /\ Covers(paths[i], topic)) = 0
        BY <2>7 DEF One
      <3>2. Found(f[i]) = Found(node) + 0
        BY <1>4, <2>3, <2>4, <2>7, <3>1
      <3> QED BY <2>1, <2>7, <3>2
    <2> QED BY <2>6, <2>7
  <1>7. n \in T
    <2> HIDE DEF T, n
    <2>1. \A i \in 0..n : i \in T
      BY <1>n, <1>5, <1>6, UpTo
    <2> QED BY <1>n, <2>1
  <1>8. WithPaths(node, p, x) = f[n] /\ f[n] \in Tries
    BY <1>n, <1>1 DEF Adding
  <1>9. Found(f[n]) = Found(node) + IF x = h THEN C(n) ELSE 0
    BY <1>7
  <1> QED BY <1>n, <1>2, <1>8, <1>9
-----------------------------------------------------------------------------
(* What is asked for grows with the subscriptions in the same way.          *)
Listened == [pattern : Pattern, handler : Handler]

SubsOf(l) == UNION {{i} \X DOMAIN precompute(l[i].pattern) : i \in DOMAIN l}

AskedOf(l, topic, h) ==
    {s \in SubsOf(l) : /\ l[s[1]].handler = h
                       /\ Covers(precompute(l[s[1]].pattern)[s[2]], topic)}

LEMMA InAsked ==
    ASSUME NEW l, NEW topic, NEW h, NEW s
    PROVE  s \in AskedOf(l, topic, h) <=>
             \E i \in DOMAIN l : \E j \in DOMAIN precompute(l[i].pattern) :
               /\ s = <<i, j>>
               /\ l[i].handler = h
               /\ Covers(precompute(l[i].pattern)[j], topic)
  <1>1. ASSUME s \in AskedOf(l, topic, h)
        PROVE  \E i \in DOMAIN l : \E j \in DOMAIN precompute(l[i].pattern) :
                 /\ s = <<i, j>>
                 /\ l[i].handler = h
                 /\ Covers(precompute(l[i].pattern)[j], topic)
    <2>1. PICK i \in DOMAIN l : s \in {i} \X DOMAIN precompute(l[i].pattern)
      BY <1>1 DEF AskedOf, SubsOf
    <2>2. s[1] = i /\ s[2] \in DOMAIN precompute(l[i].pattern) /\ s = <<i, s[2]>>
      BY <2>1
    <2>3. l[s[1]].handler = h /\ Covers(precompute(l[s[1]].pattern)[s[2]], topic)
      BY <1>1 DEF AskedOf
    <2> QED BY <2>2, <2>3
  <1>2. ASSUME NEW i \in DOMAIN l, NEW j \in DOMAIN precompute(l[i].pattern), s = <<i, j>>,
               l[i].handler = h, Covers(precompute(l[i].pattern)[j], topic)
        PROVE  s \in AskedOf(l, topic, h)
    <2>1. s[1] = i /\ s[2] = j /\ s \in {i} \X DOMAIN precompute(l[i].pattern)
      BY <1>2
    <2>2. s \in SubsOf(l)
      BY <2>1 DEF SubsOf
    <2> QED BY <1>2, <2>1, <2>2 DEF AskedOf
  <1> QED BY <1>1, <1>2

LEMMA AskedMore ==
    ASSUME NEW l \in Seq(Listened), NEW e \in Listened, NEW topic \in Seq(DOMAIN Hash),
           NEW h \in Handler, IsFiniteSet(AskedOf(l, topic, h)),
           DOMAIN precompute(e.pattern) = 1..Len(precompute(e.pattern)),
           IsFiniteSet(Met(e.pattern, topic, Len(precompute(e.pattern))))
    PROVE  /\ IsFiniteSet(AskedOf(Append(l, e), topic, h))
           /\ Cardinality(AskedOf(Append(l, e), topic, h)) =
                Cardinality(AskedOf(l, topic, h)) +
                  IF e.handler = h THEN Cardinality(Met(e.pattern, topic, Len(precompute(e.pattern)))) ELSE 0
  <1> DEFINE new == Append(l, e)
             n == Len(l) + 1
             A == AskedOf(l, topic, h)
             B == AskedOf(new, topic, h)
             M == Met(e.pattern, topic, Len(precompute(e.pattern)))
             f == [j \in M |-> <<n, j>>]
             C == {<<n, j>> : j \in M}
  <1>1. /\ n \notin DOMAIN l /\ DOMAIN new = DOMAIN l \cup {n} /\ new[n] = e
        /\ \A i \in DOMAIN l : new[i] = l[i]
    <2>1. /\ new \in Seq(Listened) /\ Len(new) = Len(l) + 1 /\ new[Len(l) + 1] = e
          /\ \A i \in 1..Len(l) : new[i] = l[i]
      BY AppendProperties
    <2>2. Len(l) \in Nat /\ DOMAIN l = 1..Len(l) /\ DOMAIN new = 1..n
      BY <2>1, LenProperties
    <2>3. 1..n = 1..Len(l) \cup {n} /\ n \notin 1..Len(l)
      BY <2>2
    <2> HIDE DEF new, n
    <2> QED BY <2>1, <2>2, <2>3 DEF n
  <1>2. ASSUME NEW j PROVE j \in M <=> j \in DOMAIN precompute(e.pattern) /\ Covers(precompute(e.pattern)[j], topic)
    BY DEF Met
  <1> HIDE DEF new, n, M
  <1>3. ASSUME NEW s, s \in A PROVE s \in B /\ s \notin C
    <2>1. PICK i \in DOMAIN l : \E j \in DOMAIN precompute(l[i].pattern) :
               s = <<i, j>> /\ l[i].handler = h /\ Covers(precompute(l[i].pattern)[j], topic)
      BY <1>3, InAsked
    <2> PICK j \in DOMAIN precompute(l[i].pattern) :
               s = <<i, j>> /\ l[i].handler = h /\ Covers(precompute(l[i].pattern)[j], topic)
      BY <2>1
    <2>2. s \in B
      <3>1. i \in DOMAIN new /\ new[i] = l[i]
        BY <1>1
      <3> QED BY <2>1, <3>1, InAsked
    <2>3. i # n
      BY <1>1
    <2> QED BY <2>1, <2>2, <2>3
  <1>4. ASSUME NEW s, s \in B PROVE s \in A \/ (s \in C /\ e.handler = h)
    <2>1. PICK i \in DOMAIN new : \E j \in DOMAIN precompute(new[i].pattern) :
               s = <<i, j>> /\ new[i].handler = h /\ Covers(precompute(new[i].pattern)[j], topic)
      BY <1>4, InAsked
    <2> PICK j \in DOMAIN precompute(new[i].pattern) :
               s = <<i, j>> /\ new[i].handler = h /\ Covers(precompute(new[i].pattern)[j], topic)
      BY <2>1
    <2>2. CASE i \in DOMAIN l
      <3>1. new[i] = l[i]
        BY <1>1, <2>2
      <3>2. j \in DOMAIN precompute(l[i].pattern)
            /\ l[i].handler = h /\ Covers(precompute(l[i].pattern)[j], topic)
        BY <2>1, <3>1
      <3>3. s \in A
        BY <2>1, <2>2, <3>2, InAsked
      <3> QED BY <3>3
    <2>3. CASE i = n
      <3>1. new[i] = e
        BY <1>1, <2>3
      <3>2. j \in DOMAIN precompute(e.pattern) /\ e.handler = h /\ Covers(precompute(e.pattern)[j], topic)
        BY <2>1, <3>1
      <3>3. j \in M
        BY <1>2, <3>2
      <3> QED BY <2>1, <2>3, <3>2, <3>3
    <2> QED BY <1>1, <2>2, <2>3
  <1>5. ASSUME NEW s, s \in C, e.handler = h PROVE s \in B
    <2>1. PICK j \in M : s = <<n, j>>
      BY <1>5
    <2>2. j \in DOMAIN precompute(e.pattern) /\ Covers(precompute(e.pattern)[j], topic)
      BY <1>2
    <2>3. n \in DOMAIN new /\ new[n] = e
      BY <1>1
    <2>4. j \in DOMAIN precompute(new[n].pattern) /\ new[n].handler = h
          /\ Covers(precompute(new[n].pattern)[j], topic)
      BY <1>5, <2>2, <2>3
    <2> QED BY <2>1, <2>3, <2>4, InAsked
  <1>6. f \in Bijection(M, C)
    <2>1. f \in [M -> C] /\ DOMAIN f = M
      OBVIOUS
    <2>2. \A i, j \in M : f[i] = f[j] => i = j
      OBVIOUS
    <2>3. \A s \in C : \E j \in M : f[j] = s
      OBVIOUS
    <2> HIDE DEF f, C
    <2> QED BY <2>1, <2>2, <2>3 DEF Bijection, Injection, Surjection, IsInjective
  <1>7. IsFiniteSet(M) /\ IsFiniteSet(A)
    BY DEF M
  <1>8. IsFiniteSet(C) /\ Cardinality(C) = Cardinality(M) /\ Cardinality(A) \in Nat /\ Cardinality(C) \in Nat
    <2> HIDE DEF C, f, A
    <2> QED BY <1>6, <1>7, FS_Bijection, FS_CardinalityType DEF ExistsBijection
  <1> HIDE DEF A, B, C, f
  <1>9. CASE e.handler = h
    <2>1. B = A \cup C /\ A \cap C = {}
      BY <1>3, <1>4, <1>5, <1>9
    <2>2. IsFiniteSet(A \cup C) /\ Cardinality(A \cup C) = Cardinality(A) + Cardinality(C) - Cardinality(A \cap C)
      BY <1>7, <1>8, FS_Union
    <2>3. Cardinality(A \cap C) = 0
      BY <2>1, FS_EmptySet
    <2>4. IsFiniteSet(B) /\ Cardinality(B) = Cardinality(A) + Cardinality(M)
      BY <1>8, <2>1, <2>2, <2>3
    <2> QED BY <1>9, <2>4 DEF A, B, M, new
  <1>10. CASE e.handler # h
    <2>1. B = A
      BY <1>3, <1>4, <1>10
    <2>2. IsFiniteSet(B) /\ Cardinality(B) = Cardinality(A) + 0
      BY <1>7, <1>8, <2>1
    <2> QED BY <1>10, <2>2 DEF A, B, new
  <1> QED BY <1>9, <1>10
-----------------------------------------------------------------------------
(* An emit that ends at a handler that throws calls the handlers before it.  *)
LEMMA PrefixTimes ==
    ASSUME NEW s \in Seq(Handler), NEW k \in 1..Len(s), NEW h
    PROVE  Times(SubSeq(s, 1, k), h) <= Times(s, h)
  <1> DEFINE t == SubSeq(s, 1, k)
  <1>1. Len(s) \in Nat /\ DOMAIN s = 1..Len(s)
    BY LenProperties
  <1>2. \A i \in 1..k : s[i] \in Handler
    <2>1. \A i \in 1..k : i \in 1..Len(s)
      BY <1>1
    <2> QED BY <2>1, ElementOfSeq
  <1>3. t \in Seq(Handler) /\ Len(t) = k /\ \A i \in 1..k : t[i] = s[i]
    <2>1. /\ t \in Seq(Handler) /\ Len(t) = (IF 1 <= k THEN k - 1 + 1 ELSE 0)
          /\ \A i \in 1..(k - 1 + 1) : t[i] = s[1 + i - 1]
      BY <1>2, SubSeqProperties
    <2> HIDE DEF t
    <2> QED BY <2>1
  <1>4. DOMAIN t = 1..k
    <2> HIDE DEF t
    <2> QED BY <1>3, LenProperties
  <1>5. {i \in DOMAIN t : t[i] = h} \in SUBSET {i \in DOMAIN s : s[i] = h}
    <2>1. \A i \in 1..k : i \in 1..Len(s)
      BY <1>1
    <2> HIDE DEF t
    <2> QED BY <1>1, <1>3, <1>4, <2>1
  <1>6. IsFiniteSet({i \in DOMAIN s : s[i] = h})
    BY TimesType
  <1> HIDE DEF t
  <1> QED BY <1>5, <1>6, FS_Subset DEF Times, t

LEMMA ThrowIs ==
    ASSUME NEW s \in Seq(Handler)
    PROVE  \/ /\ UpToThrow(s) = s
              /\ s # <<>> => Last(s) \notin Throwing
           \/ \E k \in 1..Len(s) :
                /\ UpToThrow(s) = SubSeq(s, 1, k)
                /\ SubSeq(s, 1, k) # <<>> /\ Last(SubSeq(s, 1, k)) \in Throwing
  <1> DEFINE I == {i \in 1..Len(s) : s[i] \in Throwing}
             first == SelectInSeq(s, LAMBDA h : h \in Throwing)
  <1>1. Len(s) \in Nat /\ (s # <<>> => Len(s) \in 1..Len(s))
    BY EmptySeq, LenProperties
  <1>2. UpToThrow(s) = IF first = 0 THEN s ELSE SubSeq(s, 1, first)
    BY DEF UpToThrow
  <1>3. first = IF I # {} THEN CHOOSE x \in I : \A y \in I : x <= y ELSE 0
    BY DEF SelectInSeq, Min
  <1> HIDE DEF first
  <1>4. CASE I = {}
    <2>1. s # <<>> => Last(s) \notin Throwing
      BY <1>1, <1>4 DEF Last
    <2> QED BY <1>2, <1>3, <1>4, <2>1
  <1>5. CASE I # {}
    <2>1. I \subseteq Nat
      BY <1>1
    <2>2. \E x \in I : \A y \in I : x <= y
      <3> HIDE DEF I
      <3> QED BY <1>5, <2>1, LeastNat
    <2>3. first \in I
      <3> HIDE DEF I
      <3> QED BY <1>3, <1>5, <2>2
    <2>4. first \in 1..Len(s) /\ first # 0 /\ s[first] \in Throwing
      BY <1>1, <2>3
    <2> DEFINE t == SubSeq(s, 1, first)
    <2>5. Len(t) = first /\ t[first] = s[first]
      <3>1. \A i \in 1..first : i \in 1..Len(s)
        BY <1>1, <2>4
      <3>2. \A i \in 1..first : s[i] \in Handler
        BY <3>1, ElementOfSeq
      <3>3. first \in Int /\ first - 1 + 1 = first /\ 1 + first - 1 = first /\ 1 <= first
            /\ first \in 1..first
        BY <1>1, <2>4
      <3>4. /\ Len(t) = (IF 1 <= first THEN first - 1 + 1 ELSE 0)
            /\ \A i \in 1..(first - 1 + 1) : t[i] = s[1 + i - 1]
        BY <3>2, <3>3, SubSeqProperties
      <3> HIDE DEF t
      <3> QED BY <3>3, <3>4
    <2>6. t # <<>> /\ Last(t) \in Throwing
      <3>1. Len(<<>>) = 0
        BY EmptySeq
      <3> HIDE DEF t
      <3> QED BY <2>4, <2>5, <3>1 DEF Last
    <2>7. UpToThrow(s) = t
      BY <1>2, <2>4
    <2> QED BY <2>4, <2>6, <2>7
  <1> QED BY <1>4, <1>5
-----------------------------------------------------------------------------
(* The trie finds a handler as often as the calls of listen ask for it, and  *)
(* an emit calls what the trie finds, up to a handler that throws.          *)
Kept(node, l, t, h) ==
    /\ IsFiniteSet(AskedOf(l, t, h))
    /\ Times(recursiveSearch(node, t), h) = Cardinality(AskedOf(l, t, h))

TrieInv ==
    /\ root \in Tries
    /\ listens \in Seq(Listened)
    /\ \A t \in Topic, h \in Handler : Kept(root, listens, t, h)

CalledInv ==
    called # Nothing =>
      /\ called.topic \in Topic
      /\ called.handlers = UpToThrow(recursiveSearch(root, called.topic))

LEMMA NoneFound ==
    ASSUME NEW topic \in Seq(DOMAIN Hash), NEW h \in Handler
    PROVE  Empty \in Tries /\ Times(recursiveSearch(Empty, topic), h) = 0
  <1>1. Empty \in Tries
    <2>1. Empty \in [{} -> Seq(Handler)] /\ {} \in SUBSET Seq(Keys)
      BY DEF Empty
    <2> QED BY <2>1 DEF Tries
  <1>2. \A path : Times(HandlersAt(Empty, path), h) = 0
    BY TimesEmpty DEF HandlersAt, Empty
  <1>3. PICK f : Searched(f, Empty, topic)
    BY <1>1, SearchExists
  <1> DEFINE n == Len(topic)
             T == {k \in 0..n : \A path \in Seq(Keys) : Times(f[k][path], h) = 0}
  <1>4. n \in Nat /\ << >> \in Seq(Keys)
    BY LenProperties, EmptySeq
  <1>5. 0 \in T
    BY <1>2, <1>3, <1>4 DEF Searched
  <1>6. ASSUME NEW k \in 1..n, k - 1 \in T, NEW path \in Seq(Keys)
        PROVE  Times(f[k][path], h) = 0
    <2> DEFINE r == f[k - 1]
               w == Hash[topic[n - k + 1]]
    <2>1. k - 1 \in 0..n /\ n - k + 1 \in 1..n
      BY <1>4
    <2>2. r \in [Seq(Keys) -> Seq(Handler)] /\ f[k][path] = More(Empty, topic, k, r, path)
      BY <1>3, <2>1 DEF Searched
    <2>3. w \in Keys /\ "*" \in Keys
      BY <2>1, Hashed DEF Keys
    <2>4. Append(path, w) \in Seq(Keys) /\ Append(path, "*") \in Seq(Keys)
      <3> HIDE DEF w
      <3> QED BY <2>3, AppendProperties
    <2>5. Times(r[Append(path, w)], h) = 0 /\ Times(r[Append(path, "*")], h) = 0
      BY <1>6, <2>4
    <2> HIDE DEF r
    <2>6. Times(More(Empty, topic, k, r, path), h) = MoreTimes(Empty, topic, k, r, path, h)
      BY <1>1, <2>2, MoreCounted
    <2>7. MoreTimes(Empty, topic, k, r, path, h) = 0
      BY <1>2, <2>5 DEF MoreTimes
    <2> QED BY <2>2, <2>6, <2>7
  <1>7. ASSUME NEW k \in 1..n, k - 1 \in T PROVE k \in T
    <2>1. k \in 0..n
      BY <1>4
    <2> QED BY <1>6, <1>7, <2>1
  <1>8. n \in T
    <2> HIDE DEF T, n
    <2>1. \A k \in 0..n : k \in T
      BY <1>4, <1>5, <1>7, UpTo
    <2> QED BY <1>4, <2>1
  <1>9. recursiveSearch(Empty, topic) = f[n][<< >>]
    BY <1>3 DEF Searched
  <1> QED BY <1>1, <1>4, <1>8, <1>9

LEMMA TopicType ==
    ASSUME NEW t \in Topic PROVE t \in Seq(DOMAIN Hash)
  BY WordsAssumption

LEMMA TrieInit == TransportInit => TrieInv /\ CalledInv
  <1> SUFFICES ASSUME TransportInit PROVE TrieInv /\ CalledInv
    OBVIOUS
  <1>1. root = Empty /\ listens = << >> /\ called = Nothing
    BY DEF TransportInit
  <1>2. Empty \in Tries
    <2>1. Empty \in [{} -> Seq(Handler)] /\ {} \in SUBSET Seq(Keys)
      BY DEF Empty
    <2> QED BY <2>1 DEF Tries
  <1>3. ASSUME NEW t \in Topic, NEW h \in Handler PROVE Kept(Empty, << >>, t, h)
    <2>1. SubsOf(<< >>) = {}
      BY DEF SubsOf
    <2>2. AskedOf(<< >>, t, h) = {}
      BY <2>1 DEF AskedOf
    <2>3. Times(recursiveSearch(Empty, t), h) = 0
      BY TopicType, NoneFound
    <2> QED BY <2>2, <2>3, FS_EmptySet DEF Kept
  <1>4. << >> \in Seq(Listened)
    BY EmptySeq
  <1> QED BY <1>1, <1>2, <1>3, <1>4 DEF TrieInv, CalledInv

LEMMA ListenKeeps ==
    ASSUME TrieInv, NEW p \in Pattern, NEW x \in Handler, listen(p, x)
    PROVE  TrieInv'
  <1> DEFINE e == [pattern |-> p, handler |-> x]
             N == Len(precompute(p))
  <1>1. listens' = Append(listens, e) /\ root' = WithPaths(root, p, x)
    BY DEF listen
  <1>2. e \in Listened /\ e.pattern = p /\ e.handler = x
    BY DEF Listened
  <1>3. p \in Seq(Seq(Word))
    BY WordsAssumption DEF Word
  <1>4. root \in Tries /\ listens \in Seq(Listened)
    BY DEF TrieInv
  <1>5. ASSUME NEW t \in Topic, NEW h \in Handler
        PROVE  Kept(WithPaths(root, p, x), Append(listens, e), t, h)
    <2>1. t \in Seq(DOMAIN Hash)
      BY TopicType
    <2>2. Kept(root, listens, t, h)
      BY DEF TrieInv
    <2>3. /\ DOMAIN precompute(p) = 1..N
          /\ IsFiniteSet(Met(p, t, N))
          /\ Times(recursiveSearch(WithPaths(root, p, x), t), h) =
               Times(recursiveSearch(root, t), h) + IF x = h THEN Cardinality(Met(p, t, N)) ELSE 0
      BY <1>3, <1>4, <2>1, FoundAll
    <2> HIDE DEF e
    <2>4. /\ IsFiniteSet(AskedOf(Append(listens, e), t, h))
          /\ Cardinality(AskedOf(Append(listens, e), t, h)) =
               Cardinality(AskedOf(listens, t, h)) + IF x = h THEN Cardinality(Met(p, t, N)) ELSE 0
      <3>1. IsFiniteSet(AskedOf(listens, t, h))
        BY <2>2 DEF Kept
      <3> QED BY <1>2, <1>4, <2>1, <2>3, <3>1, AskedMore
    <2> HIDE DEF N
    <2> QED BY <2>2, <2>3, <2>4 DEF Kept
  <1>6. Append(listens, e) \in Seq(Listened)
    <2> HIDE DEF e
    <2> QED BY <1>2, <1>4, AppendProperties
  <1>7. WithPaths(root, p, x) \in Tries
    BY <1>3, <1>4, AddingType
  <1> HIDE DEF e
  <1> QED BY <1>1, <1>5, <1>6, <1>7 DEF TrieInv

LEMMA TransportStep ==
    CacheInv /\ TrieInv /\ CalledInv /\ [TransportNext]_transportVars => (TrieInv /\ CalledInv)'
  <1> SUFFICES ASSUME CacheInv, TrieInv, CalledInv, [TransportNext]_transportVars
               PROVE  (TrieInv /\ CalledInv)'
    OBVIOUS
  <1>1. ASSUME NEW p \in Pattern, NEW h \in Handler, listen(p, h) PROVE (TrieInv /\ CalledInv)'
    <2>1. called' = Nothing
      BY <1>1 DEF listen
    <2> QED BY <1>1, <2>1, ListenKeeps DEF CalledInv
  <1>2. ASSUME NEW t \in Topic, emit(t) PROVE (TrieInv /\ CalledInv)'
    <2>1. match(t) = recursiveSearch(root, t)
      BY MatchSearches DEF CacheInv, CacheSound
    <2>2. called' = [topic |-> t, handlers |-> UpToThrow(recursiveSearch(root, t))]
          /\ root' = root /\ listens' = listens
      BY <1>2, <2>1 DEF emit
    <2> QED BY <2>2 DEF TrieInv, CalledInv
  <1>3. CASE close
    <2>1. called' = called /\ root' = root /\ listens' = listens
      BY <1>3 DEF close
    <2> QED BY <2>1 DEF TrieInv, CalledInv
  <1>4. CASE UNCHANGED transportVars
    BY <1>4 DEF transportVars, TrieInv, CalledInv
  <1> QED BY <1>1, <1>2, <1>3, <1>4 DEF TransportNext

LEMMA KeptDelivers == TrieInv /\ CalledInv => Delivered
  <1> SUFFICES ASSUME TrieInv, CalledInv, called # Nothing
               PROVE  IF called.handlers # <<>> /\ Last(called.handlers) \in Throwing
                        THEN \A h \in Handler : Times(called.handlers, h) <= Asked(called.topic, h)
                        ELSE \A h \in Handler : Times(called.handlers, h) = Asked(called.topic, h)
    BY DEF Delivered
  <1> DEFINE t == called.topic
             s == recursiveSearch(root, t)
  <1>1. t \in Topic /\ called.handlers = UpToThrow(s)
    BY DEF CalledInv
  <1>2. s \in Seq(Handler)
    <2> HIDE DEF t
    <2>1. t \in Seq(DOMAIN Hash) /\ root \in Tries
      BY <1>1, TopicType DEF TrieInv
    <2> QED BY <2>1, SearchType
  <1>3. ASSUME NEW h \in Handler PROVE Times(s, h) = Asked(t, h)
    <2>1. Kept(root, listens, t, h)
      BY <1>1 DEF TrieInv
    <2>2. Asked(t, h) = Cardinality(AskedOf(listens, t, h))
      BY DEF Asked, AskedOf, Subscriptions, SubsOf
    <2> QED BY <2>1, <2>2 DEF Kept
  <1> HIDE DEF s
  <1>4. CASE UpToThrow(s) = s /\ (s # <<>> => Last(s) \notin Throwing)
    BY <1>1, <1>3, <1>4
  <1>5. ASSUME NEW k \in 1..Len(s), UpToThrow(s) = SubSeq(s, 1, k),
               SubSeq(s, 1, k) # <<>>, Last(SubSeq(s, 1, k)) \in Throwing
        PROVE  /\ called.handlers # <<>> /\ Last(called.handlers) \in Throwing
               /\ \A h \in Handler : Times(called.handlers, h) <= Asked(t, h)
    <2>1. called.handlers = SubSeq(s, 1, k)
      BY <1>1, <1>5
    <2>2. ASSUME NEW h \in Handler PROVE Times(SubSeq(s, 1, k), h) <= Asked(t, h)
      <3>1. Times(SubSeq(s, 1, k), h) <= Times(s, h)
        BY <1>2, PrefixTimes
      <3> QED BY <1>3, <3>1
    <2> QED BY <1>5, <2>1, <2>2
  <1>6. \/ UpToThrow(s) = s /\ (s # <<>> => Last(s) \notin Throwing)
        \/ \E k \in 1..Len(s) : /\ UpToThrow(s) = SubSeq(s, 1, k)
                                /\ SubSeq(s, 1, k) # <<>> /\ Last(SubSeq(s, 1, k)) \in Throwing
    BY <1>2, ThrowIs
  <1> QED BY <1>4, <1>5, <1>6

(* What an emit calls is what the subscriptions made so far ask for: each    *)
(* handler as often as a path of a pattern of its own covers the topic, or   *)
(* no more often than that when one of them throws (listen, emit and match   *)
(* of common/transport.ts).                                                 *)
THEOREM InternalDelivers == TransportSpec => []Delivered
  <1>1. TransportInit => CacheInv /\ TrieInv /\ CalledInv
    BY TransportAssumption, CacheInit, TrieInit
  <1>2. CacheInv /\ TrieInv /\ CalledInv /\ [TransportNext]_transportVars
          => (CacheInv /\ TrieInv /\ CalledInv)'
    BY TransportAssumption, NextSound, TransportStep
  <1>3. CacheInv /\ TrieInv /\ CalledInv => Delivered
    BY KeptDelivers
  <1> QED BY <1>1, <1>2, <1>3, PTL DEF TransportSpec
-----------------------------------------------------------------------------
(* What mergeSubjects puts above what: a strict order among subjects.       *)
Good(s) == s \in Seq(Range(s)) \ {<<>>} /\ \A i \in 1..(Len(s) - 1) : s[i] # ">"

LEMMA FrontOf ==
    ASSUME NEW o, Good(o)
    PROVE  /\ Len(o) \in Nat \ {0} /\ Len(Front(o)) = Len(o) - 1
           /\ DOMAIN Front(o) = 1..(Len(o) - 1)
           /\ \A i \in 1..(Len(o) - 1) : Front(o)[i] = o[i]
  <1>1. o \in Seq(Range(o)) /\ Len(o) \in Nat /\ Len(o) # 0
    <2>1. o \in Seq(Range(o)) /\ o # << >>
      BY DEF Good
    <2> QED BY <2>1, EmptySeq, LenProperties
  <1> DEFINE n == Len(o) - 1
  <1>2. n \in Nat /\ 1 \in Int /\ \A i \in 1..n : o[i] \in Range(o)
    BY <1>1, ElementOfSeq
  <1>3. /\ SubSeq(o, 1, n) \in Seq(Range(o))
        /\ Len(SubSeq(o, 1, n)) = IF 1 <= n THEN n - 1 + 1 ELSE 0
        /\ \A i \in 1..(n - 1 + 1) : SubSeq(o, 1, n)[i] = o[1 + i - 1]
    BY <1>2, SubSeqProperties
  <1>4. PICK q : q = SubSeq(o, 1, n)
    OBVIOUS
  <1>5. q \in Seq(Range(o)) /\ Len(q) = n /\ \A i \in 1..n : q[i] = o[i]
    <2> HIDE DEF n
    <2>1. n - 1 + 1 = n /\ (~(1 <= n) => n = 0) /\ \A i \in 1..n : 1 + i - 1 = i
      BY <1>2
    <2> QED BY <1>3, <1>4, <2>1
  <1>6. DOMAIN q = 1..n
    BY <1>5, LenProperties
  <1> QED BY <1>1, <1>4, <1>5, <1>6 DEF Front

LEMMA IsBelow ==
    ASSUME NEW s, NEW o, Good(o)
    PROVE  Below(s, o) <=>
             /\ s # o /\ o[Len(o)] = ">" /\ Len(o) - 1 <= Len(s)
             /\ \A i \in 1..(Len(o) - 1) :
                  s[i] = o[i] \/ (i = Len(o) - 1 /\ <<o[i], s[i]>> \in PrefixOf)
  BY FrontOf DEF Below, StartsWith, Last

LEMMA LastWord ==
    ASSUME NEW s, NEW o, Good(s), Good(o), Below(s, o), s[Len(s)] = ">"
    PROVE  Len(o) <= Len(s)
  <1>1. Len(s) \in Nat \ {0} /\ Len(o) \in Nat \ {0}
    BY FrontOf
  <1>2. Len(o) - 1 <= Len(s)
    BY IsBelow
  <1>3. ASSUME Len(o) - 1 = Len(s) PROVE FALSE
    <2>1. Len(s) \in 1..(Len(o) - 1)
      BY <1>1, <1>3
    <2>2. o[Len(s)] # ">"
      BY <2>1 DEF Good
    <2>3. ">" = o[Len(s)] \/ <<o[Len(s)], ">">> \in PrefixOf
      BY <2>1, IsBelow
    <2>4. <<o[Len(s)], ">">> \notin PrefixOf
      BY PrefixAssumption
    <2> QED BY <2>2, <2>3, <2>4
  <1> QED BY <1>1, <1>2, <1>3

LEMMA BelowOneWay ==
    ASSUME NEW s, NEW o, Good(s), Good(o), Below(s, o) PROVE ~Below(o, s)
  <1> SUFFICES ASSUME Below(o, s) PROVE FALSE
    OBVIOUS
  <1>1. /\ s[Len(s)] = ">" /\ o[Len(o)] = ">" /\ s # o
        /\ Len(s) \in Nat \ {0} /\ Len(o) \in Nat \ {0}
    BY IsBelow, FrontOf
  <1>2. Len(s) = Len(o)
    BY <1>1, LastWord
  <1>3. ASSUME NEW i \in 1..Len(s) PROVE s[i] = o[i]
    <2>1. CASE i = Len(s)
      BY <1>1, <1>2, <2>1
    <2>2. CASE i # Len(s) /\ s[i] # o[i]
      <3>1. i \in 1..(Len(o) - 1) /\ i \in 1..(Len(s) - 1)
        BY <1>1, <1>2, <2>2
      <3>2. <<o[i], s[i]>> \in PrefixOf /\ <<s[i], o[i]>> \in PrefixOf
        BY <2>2, <3>1, IsBelow
      <3>3. <<o[i], o[i]>> \in PrefixOf
        BY <3>2, PrefixAssumption
      <3> QED BY <3>3, PrefixAssumption
    <2> QED BY <2>1, <2>2
  <1>4. s \in Seq(Range(s)) /\ o \in Seq(Range(o))
    BY DEF Good
  <1>5. s = o
    <2>1. s \in [1..Len(s) -> Range(s)] /\ o \in [1..Len(o) -> Range(o)]
      BY <1>4, LenProperties
    <2> QED BY <1>2, <1>3, <2>1
  <1> QED BY <1>1, <1>5

LEMMA BelowOn ==
    ASSUME NEW s, NEW o, NEW p, Good(s), Good(o), Good(p), Below(s, o), Below(o, p)
    PROVE  Below(s, p)
  <1>1. s # p
    BY BelowOneWay
  <1>2. /\ p[Len(p)] = ">" /\ o[Len(o)] = ">" /\ Len(o) - 1 <= Len(s)
        /\ Len(s) \in Nat \ {0} /\ Len(o) \in Nat \ {0} /\ Len(p) \in Nat \ {0}
    BY IsBelow, FrontOf
  <1>3. Len(p) <= Len(o)
    BY <1>2, LastWord
  <1>4. ASSUME NEW i \in 1..(Len(p) - 1)
        PROVE  s[i] = p[i] \/ (i = Len(p) - 1 /\ <<p[i], s[i]>> \in PrefixOf)
    <2>1. i \in 1..(Len(o) - 1)
      BY <1>2, <1>3
    <2>2. o[i] = p[i] \/ (i = Len(p) - 1 /\ <<p[i], o[i]>> \in PrefixOf)
      BY IsBelow
    <2>3. s[i] = o[i] \/ (i = Len(o) - 1 /\ <<o[i], s[i]>> \in PrefixOf)
      BY <2>1, IsBelow
    <2>4. i = Len(o) - 1 => i = Len(p) - 1
      BY <1>2, <1>3
    <2>5. <<p[i], o[i]>> \in PrefixOf /\ <<o[i], s[i]>> \in PrefixOf => <<p[i], s[i]>> \in PrefixOf
      BY PrefixAssumption
    <2> QED BY <2>2, <2>3, <2>4, <2>5
  <1>5. Len(p) - 1 <= Len(s)
    BY <1>2, <1>3
  <1> QED BY <1>1, <1>2, <1>4, <1>5, IsBelow
-----------------------------------------------------------------------------
Listed(K) == IsFiniteSet(K) /\ \A k \in K : Good(k)

(* Nothing is above what has the fewest above it.                           *)
LEMMA Topmost ==
    ASSUME NEW K, Listed(K), NEW x \in K
    PROVE  \E k \in K : (k = x \/ Below(x, k)) /\ \A o \in K : ~Below(k, o)
  <1> DEFINE Above(k) == {o \in K : Below(k, o)}
             U == {k \in K : k = x \/ Below(x, k)}
             N == {Cardinality(Above(k)) : k \in U}
  <1>1. \A k \in K : IsFiniteSet(Above(k)) /\ Cardinality(Above(k)) \in Nat
    BY FS_Subset, FS_CardinalityType DEF Listed
  <1>2. N \subseteq Nat /\ N # {}
    BY <1>1
  <1>3. PICK c \in N : \A m \in N : c <= m
    BY <1>2, LeastNat
  <1>4. PICK k \in U : c = Cardinality(Above(k))
    BY <1>3
  <1>5. ASSUME NEW o \in K, Below(k, o) PROVE FALSE
    <2>1. \A j \in K : Good(j)
      BY DEF Listed
    <2>2. o \in U
      BY <1>4, <1>5, <2>1, BelowOn
    <2>3. Above(o) \subseteq Above(k) /\ o \in Above(k) /\ o \notin Above(o)
      BY <1>4, <1>5, <2>1, BelowOn, BelowOneWay
    <2>4. Cardinality(Above(o)) <= Cardinality(Above(k)) /\ Cardinality(Above(o)) # Cardinality(Above(k))
      <3>1. k \in K /\ IsFiniteSet(Above(k))
        BY <1>1, <1>4
      <3> HIDE DEF Above
      <3> QED BY <2>3, <3>1, FS_Subset
    <2>n. k \in K /\ Cardinality(Above(k)) \in Nat /\ Cardinality(Above(o)) \in Nat
      BY <1>1, <1>4
    <2> HIDE DEF Above
    <2>5. Cardinality(Above(k)) <= Cardinality(Above(o))
      BY <1>3, <1>4, <2>2
    <2> QED BY <2>n, <2>4, <2>5
  <1> QED BY <1>4, <1>5

(* A stream has a subject, or one that was put above it.                    *)
Has(K, x) == x \in K \/ \E k \in K : Below(x, k)

LEMMA MergeOne ==
    ASSUME NEW K, Listed(K), NEW y, Good(y)
    PROVE  /\ Listed(mergeSubjects(K, y))
           /\ mergeSubjects(K, y) \subseteq K \cup {y}
           /\ \A x : Good(x) /\ (Has(K, x) \/ x = y) => Has(mergeSubjects(K, y), x)
  <1> DEFINE A == K \cup {y}
             M == {x \in A : \A o \in A : ~Below(x, o)}
  <1>1. Listed(A)
    BY FS_AddElement DEF Listed
  <1>2. CASE y \in K
    BY <1>2 DEF mergeSubjects, Has
  <1>3. CASE y \notin K
    <2>1. mergeSubjects(K, y) = M
      BY <1>3 DEF mergeSubjects
    <2>2. Listed(M) /\ M \subseteq A
      BY <1>1, FS_Subset DEF Listed
    <2>3. ASSUME NEW x, Good(x), Has(K, x) \/ x = y PROVE Has(M, x)
      <3>1. PICK k \in A : k = x \/ Below(x, k)
        BY <2>3 DEF Has
      <3>2. PICK t \in A : (t = k \/ Below(k, t)) /\ \A o \in A : ~Below(t, o)
        BY <1>1, Topmost
      <3>3. t \in M
        BY <3>2
      <3>4. t = x \/ Below(x, t)
        BY <1>1, <2>3, <3>1, <3>2, BelowOn DEF Listed
      <3> QED BY <3>3, <3>4 DEF Has
    <2> QED BY <2>1, <2>2, <2>3
  <1> QED BY <1>2, <1>3
-----------------------------------------------------------------------------

AllTasks == UNION {Range(Tasks[n]) : n \in Node}
Subjects == {t.subject : t \in AllTasks}

(* What a node's tasks are.                                                 *)
LEMMA TasksOf ==
    ASSUME NEW n \in Node
    PROVE  /\ Len(Tasks[n]) \in Nat \ {0} /\ DOMAIN Tasks[n] = 1..Len(Tasks[n])
           /\ \A i \in 1..Len(Tasks[n]) : Tasks[n][i] \in Range(Tasks[n])
           /\ \A t \in Range(Tasks[n]) : \E i \in 1..Len(Tasks[n]) : t = Tasks[n][i]
           /\ \A t \in Range(Tasks[n]) : Good(t.subject) /\ StreamOf(t) \in Stream
  <1>1. Tasks[n] \in Seq(Range(Tasks[n])) /\ Tasks[n] # << >>
    BY TasksAssumption
  <1>2. Len(Tasks[n]) \in Nat \ {0} /\ DOMAIN Tasks[n] = 1..Len(Tasks[n])
    BY <1>1, EmptySeq, LenProperties
  <1>3. \A t \in Range(Tasks[n]) : Good(t.subject) /\ StreamOf(t) \in Stream
    BY TasksAssumption DEF Good
  <1> QED BY <1>2, <1>3 DEF Range

(* The merging of a stream's subjects, task by task.                        *)
IsMerging(f, K, n, s, k) ==
    f = [i \in 0..k |->
           IF i = 0 THEN K
           ELSE IF StreamOf(Tasks[n][i]) # s THEN f[i - 1]
           ELSE mergeSubjects(f[i - 1], Tasks[n][i].subject)]

LEMMA MergingExists ==
    ASSUME NEW K, NEW n, NEW s, NEW k \in Nat PROVE \E f : IsMerging(f, K, n, s, k)
  <1> DEFINE Bad == {j \in Nat : ~ \E f : IsMerging(f, K, n, s, j)}
  <1> SUFFICES ASSUME Bad # {} PROVE FALSE
    OBVIOUS
  <1>1. PICK j \in Bad : \A m \in Bad : j <= m
    BY LeastNat
  <1>2. CASE j = 0
    <2>1. IsMerging([i \in 0..0 |-> K], K, n, s, 0)
      BY DEF IsMerging
    <2> QED BY <1>2, <2>1
  <1>3. CASE j # 0
    <2>1. j - 1 \in Nat /\ j - 1 \notin Bad /\ j \in Nat
      BY <1>1, <1>3
    <2>2. PICK f : IsMerging(f, K, n, s, j - 1)
      BY <2>1
    <2> DEFINE g == [i \in 0..j |->
                       IF i # j THEN f[i]
                       ELSE IF StreamOf(Tasks[n][j]) # s THEN f[j - 1]
                       ELSE mergeSubjects(f[j - 1], Tasks[n][j].subject)]
    <2>3. ASSUME NEW i \in 0..j
          PROVE  g[i] = IF i = 0 THEN K
                        ELSE IF StreamOf(Tasks[n][i]) # s THEN g[i - 1]
                        ELSE mergeSubjects(g[i - 1], Tasks[n][i].subject)
      <3>1. CASE i = j
        <4>1. j - 1 \in 0..j /\ j - 1 # j /\ i # 0
          BY <1>3, <2>1, <3>1
        <4> QED BY <3>1, <4>1
      <3>2. CASE i # j
        <4>1. i \in 0..(j - 1)
          BY <2>1, <3>2
        <4>2. f[i] = IF i = 0 THEN K
                     ELSE IF StreamOf(Tasks[n][i]) # s THEN f[i - 1]
                     ELSE mergeSubjects(f[i - 1], Tasks[n][i].subject)
          BY <2>2, <4>1 DEF IsMerging
        <4>3. i # 0 => i - 1 \in 0..j /\ i - 1 # j
          BY <4>1, <2>1
        <4> QED BY <3>2, <4>2, <4>3
      <3> QED BY <3>1, <3>2
    <2>4. IsMerging(g, K, n, s, j)
      BY <2>3 DEF IsMerging
    <2> QED BY <1>1, <2>4
  <1> QED BY <1>2, <1>3

LEMMA MergedIs ==
    ASSUME NEW K, NEW n \in Node, NEW s
    PROVE  \E f : IsMerging(f, K, n, s, Len(Tasks[n])) /\ Merged(K, n, s) = f[Len(Tasks[n])]
  <1> DEFINE M == CHOOSE f : f = [i \in 0..Len(Tasks[n]) |->
                     IF i = 0 THEN K
                     ELSE IF StreamOf(Tasks[n][i]) # s THEN f[i - 1]
                     ELSE mergeSubjects(f[i - 1], Tasks[n][i].subject)]
  <1>1. \E f : f = [i \in 0..Len(Tasks[n]) |->
                     IF i = 0 THEN K
                     ELSE IF StreamOf(Tasks[n][i]) # s THEN f[i - 1]
                     ELSE mergeSubjects(f[i - 1], Tasks[n][i].subject)]
    <2>1. Len(Tasks[n]) \in Nat
      BY TasksOf
    <2>2. \E f : IsMerging(f, K, n, s, Len(Tasks[n]))
      BY <2>1, MergingExists
    <2> QED BY <2>2 DEF IsMerging
  <1>2. IsMerging(M, K, n, s, Len(Tasks[n]))
    BY <1>1 DEF IsMerging
  <1>3. Merged(K, n, s) = M[Len(Tasks[n])]
    BY DEF Merged
  <1> QED BY <1>2, <1>3

(* A stream keeps what it has and gets what the node has for it.            *)
LEMMA MergeAll ==
    ASSUME NEW K \in SUBSET Subjects, Listed(K), NEW n \in Node, NEW s
    PROVE  /\ Listed(Merged(K, n, s)) /\ Merged(K, n, s) \subseteq Subjects
           /\ \A x : Good(x) /\ Has(K, x) => Has(Merged(K, n, s), x)
           /\ \A t \in Range(Tasks[n]) : StreamOf(t) = s => Has(Merged(K, n, s), t.subject)
  <1> DEFINE l == Len(Tasks[n])
  <1>l. l \in Nat \ {0}
    BY TasksOf
  <1>1. PICK f : IsMerging(f, K, n, s, l) /\ Merged(K, n, s) = f[l]
    BY MergedIs
  <1> HIDE DEF l
  <1> DEFINE Fine(j) == /\ Listed(f[j]) /\ f[j] \subseteq Subjects
                        /\ \A x : Good(x) /\ Has(K, x) => Has(f[j], x)
                        /\ \A i \in 1..j : StreamOf(Tasks[n][i]) = s
                                             => Has(f[j], Tasks[n][i].subject)
             Bad == {j \in Nat : j <= l /\ ~Fine(j)}
  <1>2. Fine(0)
    <2>1. f[0] = K
      BY <1>l, <1>1 DEF IsMerging
    <2> QED BY <2>1
  <1>3. ASSUME NEW j \in Nat, j # 0, j <= l, Fine(j - 1) PROVE Fine(j)
    <2> DEFINE y == Tasks[n][j].subject
    <2>1. /\ j \in 0..l /\ j \in 1..l
          /\ \A i \in 1..j : i \in 1..(j - 1) \/ i = j
          /\ \A i \in 1..j : i \in 1..l
      BY <1>l, <1>3
    <2>2. f[j] = IF StreamOf(Tasks[n][j]) # s THEN f[j - 1] ELSE mergeSubjects(f[j - 1], y)
      BY <1>1, <1>3, <2>1 DEF IsMerging
    <2>3. Good(y) /\ y \in Subjects /\ \A i \in 1..l : Good(Tasks[n][i].subject)
      BY <2>1, TasksOf DEF l, Subjects, AllTasks
    <2>4. CASE StreamOf(Tasks[n][j]) # s
      BY <1>3, <2>1, <2>2, <2>4
    <2>5. CASE StreamOf(Tasks[n][j]) = s
      <3>1. f[j] = mergeSubjects(f[j - 1], y) /\ Listed(f[j - 1])
        BY <1>3, <2>2, <2>5
      <3>2. /\ Listed(f[j]) /\ f[j] \subseteq f[j - 1] \cup {y}
            /\ \A x : Good(x) /\ (Has(f[j - 1], x) \/ x = y) => Has(f[j], x)
        BY <2>3, <3>1, MergeOne
      <3> QED BY <1>3, <2>1, <2>3, <3>2
    <2> QED BY <2>4, <2>5
  <1> HIDE DEF Fine
  <1>4. Bad = {}
    <2> SUFFICES ASSUME Bad # {} PROVE FALSE
      OBVIOUS
    <2>1. PICK j \in Bad : \A m \in Bad : j <= m
      BY LeastNat
    <2>2. j \in Nat /\ j <= l /\ ~Fine(j) /\ j # 0
      BY <1>2, <2>1
    <2>3. j - 1 \in Nat /\ j - 1 <= l /\ ~(j <= j - 1)
      BY <1>l, <2>2
    <2>4. Fine(j - 1)
      BY <2>1, <2>3
    <2> QED BY <1>3, <2>2, <2>4
  <1>5. Fine(l)
    BY <1>l, <1>4
  <1>6. \A t \in Range(Tasks[n]) : \E i \in 1..l : t = Tasks[n][i]
    BY TasksOf DEF l
  <1> QED BY <1>1, <1>5, <1>6 DEF Fine
-----------------------------------------------------------------------------
(* The streams of a node's tasks, in the order in which they come up.       *)
IsNaming(f, n, k) ==
    f = [i \in 0..k |->
           IF i = 0 THEN <<>>
           ELSE IF StreamOf(Tasks[n][i]) \in Range(f[i - 1]) THEN f[i - 1]
           ELSE Append(f[i - 1], StreamOf(Tasks[n][i]))]

LEMMA NamingExists ==
    ASSUME NEW n, NEW k \in Nat PROVE \E f : IsNaming(f, n, k)
  <1> DEFINE Bad == {j \in Nat : ~ \E f : IsNaming(f, n, j)}
  <1> SUFFICES ASSUME Bad # {} PROVE FALSE
    OBVIOUS
  <1>1. PICK j \in Bad : \A m \in Bad : j <= m
    BY LeastNat
  <1>2. CASE j = 0
    <2>1. IsNaming([i \in 0..0 |-> <<>>], n, 0)
      BY DEF IsNaming
    <2> QED BY <1>2, <2>1
  <1>3. CASE j # 0
    <2>1. j - 1 \in Nat /\ j - 1 \notin Bad /\ j \in Nat
      BY <1>1, <1>3
    <2>2. PICK f : IsNaming(f, n, j - 1)
      BY <2>1
    <2> DEFINE g == [i \in 0..j |->
                       IF i # j THEN f[i]
                       ELSE IF StreamOf(Tasks[n][j]) \in Range(f[j - 1]) THEN f[j - 1]
                       ELSE Append(f[j - 1], StreamOf(Tasks[n][j]))]
    <2>3. ASSUME NEW i \in 0..j
          PROVE  g[i] = IF i = 0 THEN <<>>
                        ELSE IF StreamOf(Tasks[n][i]) \in Range(g[i - 1]) THEN g[i - 1]
                        ELSE Append(g[i - 1], StreamOf(Tasks[n][i]))
      <3>1. CASE i = j
        <4>1. j - 1 \in 0..j /\ j - 1 # j /\ i # 0
          BY <1>3, <2>1, <3>1
        <4> QED BY <3>1, <4>1
      <3>2. CASE i # j
        <4>1. i \in 0..(j - 1)
          BY <2>1, <3>2
        <4>2. f[i] = IF i = 0 THEN <<>>
                     ELSE IF StreamOf(Tasks[n][i]) \in Range(f[i - 1]) THEN f[i - 1]
                     ELSE Append(f[i - 1], StreamOf(Tasks[n][i]))
          BY <2>2, <4>1 DEF IsNaming
        <4>3. i # 0 => i - 1 \in 0..j /\ i - 1 # j
          BY <4>1, <2>1
        <4> QED BY <3>2, <4>2, <4>3
      <3> QED BY <3>1, <3>2
    <2>4. IsNaming(g, n, j)
      BY <2>3 DEF IsNaming
    <2> QED BY <1>1, <2>4
  <1> QED BY <1>2, <1>3

LEMMA StreamsOfIs ==
    ASSUME NEW n \in Node
    PROVE  \E f : IsNaming(f, n, Len(Tasks[n])) /\ StreamsOf[n] = f[Len(Tasks[n])]
  <1> DEFINE M == CHOOSE f : f = [i \in 0..Len(Tasks[n]) |->
                     IF i = 0 THEN <<>>
                     ELSE IF StreamOf(Tasks[n][i]) \in Range(f[i - 1]) THEN f[i - 1]
                     ELSE Append(f[i - 1], StreamOf(Tasks[n][i]))]
  <1>1. \E f : f = [i \in 0..Len(Tasks[n]) |->
                     IF i = 0 THEN <<>>
                     ELSE IF StreamOf(Tasks[n][i]) \in Range(f[i - 1]) THEN f[i - 1]
                     ELSE Append(f[i - 1], StreamOf(Tasks[n][i]))]
    <2>1. Len(Tasks[n]) \in Nat
      BY TasksOf
    <2>2. \E f : IsNaming(f, n, Len(Tasks[n]))
      BY <2>1, NamingExists
    <2> QED BY <2>2 DEF IsNaming
  <1>2. IsNaming(M, n, Len(Tasks[n]))
    BY <1>1 DEF IsNaming
  <1>3. StreamsOf[n] = M[Len(Tasks[n])]
    BY DEF StreamsOf
  <1> QED BY <1>2, <1>3

LEMMA Appended ==
    ASSUME NEW S, NEW s \in Seq(S), NEW x \in S
    PROVE  /\ Append(s, x) \in Seq(S) /\ x \in Range(Append(s, x))
           /\ Range(s) \subseteq Range(Append(s, x))
  <1>1. Append(s, x) \in Seq(S) /\ Len(s) \in Nat /\ Len(Append(s, x)) = Len(s) + 1
    BY AppendProperties, LenProperties
  <1>2. Append(s, x)[Len(s) + 1] = x /\ \A i \in 1..Len(s) : Append(s, x)[i] = s[i]
    BY AppendProperties
  <1>3. DOMAIN s = 1..Len(s) /\ DOMAIN Append(s, x) = 1..(Len(s) + 1)
    BY <1>1, LenProperties
  <1> QED BY <1>1, <1>2, <1>3 DEF Range

LEMMA StreamsOfNode ==
    ASSUME NEW n \in Node
    PROVE  /\ Len(StreamsOf[n]) \in Nat \ {0}
           /\ \A j \in 1..Len(StreamsOf[n]) : StreamsOf[n][j] \in Stream
           /\ \A t \in Range(Tasks[n]) :
                \E j \in 1..Len(StreamsOf[n]) : StreamsOf[n][j] = StreamOf(t)
  <1> DEFINE l == Len(Tasks[n])
  <1>l. l \in Nat \ {0}
    BY TasksOf
  <1>1. PICK f : IsNaming(f, n, l) /\ StreamsOf[n] = f[l]
    BY StreamsOfIs
  <1>2. \A i \in 1..l : StreamOf(Tasks[n][i]) \in Stream
    BY TasksOf
  <1>t. \A t \in Range(Tasks[n]) : \E i \in 1..l : t = Tasks[n][i]
    BY TasksOf
  <1>s. 1 \in 1..l /\ Tasks[n][1] \in Range(Tasks[n])
    BY <1>l, TasksOf
  <1> HIDE DEF l
  <1> DEFINE Fine(j) == /\ f[j] \in Seq(Stream)
                        /\ \A i \in 1..j : StreamOf(Tasks[n][i]) \in Range(f[j])
             Bad == {j \in Nat : j <= l /\ ~Fine(j)}
  <1>3. Fine(0)
    <2>1. f[0] = << >>
      BY <1>l, <1>1 DEF IsNaming
    <2> QED BY <2>1, EmptySeq
  <1>4. ASSUME NEW j \in Nat, j # 0, j <= l, Fine(j - 1) PROVE Fine(j)
    <2> DEFINE y == StreamOf(Tasks[n][j])
    <2>1. /\ j \in 0..l /\ j \in 1..l
          /\ \A i \in 1..j : i \in 1..(j - 1) \/ i = j
      BY <1>l, <1>4
    <2>2. f[j] = IF y \in Range(f[j - 1]) THEN f[j - 1] ELSE Append(f[j - 1], y)
      BY <1>1, <1>4, <2>1 DEF IsNaming
    <2>3. y \in Stream
      BY <1>2, <2>1
    <2> HIDE DEF y
    <2>4. f[j] \in Seq(Stream) /\ Range(f[j - 1]) \subseteq Range(f[j]) /\ y \in Range(f[j])
      BY <1>4, <2>2, <2>3, Appended
    <2> QED BY <1>4, <2>1, <2>4 DEF y
  <1> HIDE DEF Fine
  <1>5. Bad = {}
    <2> SUFFICES ASSUME Bad # {} PROVE FALSE
      OBVIOUS
    <2>1. PICK j \in Bad : \A m \in Bad : j <= m
      BY LeastNat
    <2>2. j \in Nat /\ j <= l /\ ~Fine(j) /\ j # 0
      BY <1>3, <2>1
    <2>3. j - 1 \in Nat /\ j - 1 <= l /\ ~(j <= j - 1)
      BY <1>l, <2>2
    <2>4. Fine(j - 1)
      BY <2>1, <2>3
    <2> QED BY <1>4, <2>2, <2>4
  <1>6. Fine(l)
    <2>1. l \in Nat /\ l <= l
      BY <1>l
    <2> QED BY <1>5, <2>1
  <1>7. StreamsOf[n] \in Seq(Stream) /\ \A i \in 1..l : StreamOf(Tasks[n][i]) \in Range(StreamsOf[n])
    BY <1>1, <1>6 DEF Fine
  <1>8. Len(StreamsOf[n]) \in Nat /\ DOMAIN StreamsOf[n] = 1..Len(StreamsOf[n])
    BY <1>7, LenProperties
  <1>9. \A t \in Range(Tasks[n]) :
          \E j \in 1..Len(StreamsOf[n]) : StreamsOf[n][j] = StreamOf(t)
    <2> SUFFICES ASSUME NEW t \in Range(Tasks[n])
                 PROVE  \E j \in 1..Len(StreamsOf[n]) : StreamsOf[n][j] = StreamOf(t)
      OBVIOUS
    <2>1. StreamOf(t) \in Range(StreamsOf[n])
      BY <1>7, <1>t
    <2> QED BY <1>8, <2>1 DEF Range
  <1>10. Len(StreamsOf[n]) # 0
    BY <1>8, <1>9, <1>s
  <1>11. \A j \in 1..Len(StreamsOf[n]) : StreamsOf[n][j] \in Stream
    BY <1>7, ElementOfSeq
  <1> QED BY <1>8, <1>9, <1>10, <1>11
-----------------------------------------------------------------------------
Providing == {"stream", "merge", "add"}
Places == Providing \cup {"down", "consumer", "activate", "up", "failed"}
Consumers == {ConsumerOf(t) : t \in AllTasks}
Filters == Subjects \cup {t.options.filter : t \in AllTasks}

StartupTypes ==
    /\ streams \in [Stream -> SUBSET Subjects] /\ \A s \in Stream : Listed(streams[s])
    /\ seen \in [Node -> SUBSET Subjects] /\ \A n \in Node : Listed(seen[n])
    /\ consumers \in [Consumers -> SUBSET Filters]
    /\ pc \in [Node -> Places] /\ at \in [Node -> Nat]
    /\ active \in [Node -> SUBSET AllTasks]
    /\ crons \in [Node -> BOOLEAN]

NodePlace(n) ==
    /\ pc[n] = "down" => at[n] = 1
    /\ pc[n] \in Providing => at[n] \in 1..Len(StreamsOf[n])
    /\ pc[n] \in {"consumer", "activate"} => at[n] \in 1..Len(Tasks[n])
    /\ pc[n] \in Providing \cup {"down", "consumer"} => active[n] = {}
    /\ active[n] \subseteq {t \in Range(Tasks[n]) : t.options.stream # "-"}

StartupInv == StartupTypes /\ \A n \in Node : NodePlace(n)

StagePlaces(stage) == IF stage = "stream" THEN Providing ELSE {stage}

LEMMA StageLength ==
    ASSUME NEW n \in Node, pc[n] \in Providing \cup {"consumer", "activate"}
    PROVE  /\ Stage(n) = IF pc[n] \in Providing THEN Len(StreamsOf[n]) ELSE Len(Tasks[n])
           /\ Stage(n) \in Nat \ {0}
  BY StreamsOfNode, TasksOf DEF Stage, Providing

(* Where Advance leads.                                                     *)
NextPlace(n, stage, p) ==
    \/ stage = "stream" /\ p \in {"consumer", "activate"} /\ (p = "activate" => Entry[n] = "subscribe")
    \/ stage = "consumer" /\ p = "activate"
    \/ stage = "activate" /\ p = "up"

LEMMA AdvanceMoves ==
    ASSUME StartupInv, NEW n \in Node, NEW stage \in {"stream", "consumer", "activate"},
           pc[n] \in StagePlaces(stage), Advance(n, stage)
    PROVE  /\ \A m \in Node \ {n} : pc'[m] = pc[m] /\ at'[m] = at[m]
           /\ pc' \in [Node -> Places] /\ at' \in [Node -> Nat]
           /\ at[n] \in 1..Stage(n)
           /\ \/ at[n] < Stage(n) /\ pc'[n] = stage /\ at'[n] = at[n] + 1
              \/ at[n] = Stage(n) /\ at'[n] = 1 /\ NextPlace(n, stage, pc'[n])
  <1>1. pc \in [Node -> Places] /\ at \in [Node -> Nat] /\ NodePlace(n)
    BY DEF StartupInv, StartupTypes
  <1>2. pc[n] \in Providing \cup {"consumer", "activate"}
    BY DEF StagePlaces, Providing
  <1>3. at[n] \in 1..Stage(n) /\ Stage(n) \in Nat
    BY <1>1, <1>2, StageLength DEF NodePlace
  <1>4. CASE at[n] < Stage(n)
    <2>1. at' = [at EXCEPT ![n] = @ + 1] /\ pc' = [pc EXCEPT ![n] = stage]
      BY <1>4 DEF Advance
    <2>2. stage \in Places
      BY DEF Places, Providing
    <2> QED BY <1>1, <1>3, <1>4, <2>1, <2>2
  <1>5. CASE ~(at[n] < Stage(n))
    <2>1. at' = [at EXCEPT ![n] = 1] /\ pc' = [pc EXCEPT ![n] = Following(n)[stage]]
      BY <1>5 DEF Advance
    <2>2. NextPlace(n, stage, Following(n)[stage]) /\ Following(n)[stage] \in Places
      BY DEF Following, NextPlace, Places, Providing
    <2>3. at[n] = Stage(n)
      BY <1>3, <1>5
    <2> QED BY <1>1, <1>3, <2>1, <2>2, <2>3
  <1> QED BY <1>4, <1>5

(* It leads to a place a node can be at.                                    *)
LEMMA AdvancePlaces ==
    ASSUME StartupInv, NEW n \in Node, NEW stage \in {"stream", "consumer", "activate"},
           pc[n] \in StagePlaces(stage), Advance(n, stage),
           \/ stage # "activate" /\ UNCHANGED active
           \/ /\ stage = "activate"
              /\ \A m \in Node \ {n} : active'[m] = active[m]
              /\ active'[n] \subseteq {t \in Range(Tasks[n]) : t.options.stream # "-"}
    PROVE  \A m \in Node : NodePlace(m)'
  <1>1. /\ \A m \in Node \ {n} : pc'[m] = pc[m] /\ at'[m] = at[m] /\ active'[m] = active[m]
        /\ at[n] \in 1..Stage(n)
        /\ \/ at[n] < Stage(n) /\ pc'[n] = stage /\ at'[n] = at[n] + 1
           \/ at[n] = Stage(n) /\ at'[n] = 1 /\ NextPlace(n, stage, pc'[n])
    BY AdvanceMoves
  <1>2. ASSUME NEW m \in Node, m # n PROVE NodePlace(m)'
    BY <1>1, <1>2 DEF StartupInv, NodePlace
  <1>3. /\ Stage(n) = IF pc[n] \in Providing THEN Len(StreamsOf[n]) ELSE Len(Tasks[n])
        /\ Stage(n) \in Nat \ {0} /\ Len(Tasks[n]) \in Nat \ {0}
    BY StageLength, TasksOf DEF StagePlaces, Providing
  <1>4. NodePlace(n)
    BY DEF StartupInv
  <1>5. /\ pc'[n] \in {"stream", "consumer", "activate", "up"}
        /\ pc'[n] = "stream" => at'[n] \in 1..Len(StreamsOf[n])
        /\ pc'[n] \in {"consumer", "activate"} => at'[n] \in 1..Len(Tasks[n])
        /\ pc'[n] \in {"stream", "consumer"} => active'[n] = {}
        /\ active'[n] \subseteq {t \in Range(Tasks[n]) : t.options.stream # "-"}
    <2>1. CASE stage = "stream"
      BY <1>1, <1>3, <1>4, <2>1 DEF NextPlace, StagePlaces, NodePlace
    <2>2. CASE stage = "consumer"
      BY <1>1, <1>3, <1>4, <2>2 DEF NextPlace, StagePlaces, NodePlace, Providing
    <2>3. CASE stage = "activate"
      BY <1>1, <1>3, <1>4, <2>3 DEF NextPlace, StagePlaces, NodePlace, Providing
    <2> QED BY <2>1, <2>2, <2>3
  <1>6. NodePlace(n)'
    BY <1>5 DEF NodePlace, Providing
  <1> QED BY <1>2, <1>6

LEMMA StartupBegins == StartupInit => StartupInv
  <1> SUFFICES ASSUME StartupInit PROVE StartupInv
    OBVIOUS
  <1>1. Listed({})
    BY FS_EmptySet DEF Listed
  <1>2. StartupTypes
    BY <1>1 DEF StartupInit, StartupTypes, Consumers, AllTasks, Places
  <1>3. \A n \in Node : NodePlace(n)
    BY DEF StartupInit, NodePlace, Providing
  <1> QED BY <1>2, <1>3 DEF StartupInv

LEMMA EnsuredType ==
    ASSUME StartupInv, NEW n \in Node, NEW t \in Range(Tasks[n]), NEW f \in Filters, Ensured(t, f)
    PROVE  /\ consumers' \in [Consumers -> SUBSET Filters]
           /\ consumers'[ConsumerOf(t)] # {}
           /\ \A c \in Consumers : consumers'[c] = consumers[c]
                                   \/ (c = ConsumerOf(t) /\ consumers[c] = {} /\ consumers'[c] = {f})
  <1>1. ConsumerOf(t) \in Consumers /\ consumers \in [Consumers -> SUBSET Filters]
    BY DEF Consumers, AllTasks, StartupInv, StartupTypes
  <1>2. PICK c : c = ConsumerOf(t)
    OBVIOUS
  <1>3. consumers' = [consumers EXCEPT ![c] = IF @ = {} THEN {f} ELSE @]
    BY <1>2 DEF Ensured
  <1> QED BY <1>1, <1>2, <1>3

LEMMA TaskIs ==
    ASSUME StartupInv, NEW n \in Node, pc[n] \in {"consumer", "activate"}
    PROVE  /\ Task(n) \in Range(Tasks[n]) /\ at[n] \in 1..Len(Tasks[n]) /\ Task(n) = Tasks[n][at[n]]
           /\ Task(n).subject \in Filters /\ sanitizeConsumerConfig(Task(n).options).filter \in Filters
  <1>1. Task(n) \in Range(Tasks[n]) /\ at[n] \in 1..Len(Tasks[n]) /\ Task(n) = Tasks[n][at[n]]
    BY TasksOf DEF StartupInv, NodePlace, Task
  <1>2. Task(n) \in AllTasks /\ sanitizeConsumerConfig(Task(n).options).filter = Task(n).options.filter
    BY <1>1 DEF AllTasks, sanitizeConsumerConfig
  <1> QED BY <1>1, <1>2 DEF Filters, Subjects

LEMMA CurrentIs ==
    ASSUME StartupInv, NEW n \in Node, pc[n] \in Providing
    PROVE  /\ Current(n) \in Stream /\ at[n] \in 1..Len(StreamsOf[n])
           /\ Current(n) = StreamsOf[n][at[n]]
  BY StreamsOfNode DEF StartupInv, NodePlace, Current

(* The subjects of a stream after each of the requests.                     *)
LEMMA UpdateStreams ==
    ASSUME StartupInv, NEW n \in Node, streamsUpdate(n), NEW s, s = Current(n)
    PROVE  /\ s \in Stream /\ streams' = [streams EXCEPT ![s] = Merged(seen[n], n, s)]
           /\ Listed(Merged(seen[n], n, s)) /\ Merged(seen[n], n, s) \subseteq Subjects
           /\ overrun \subseteq overrun' /\ (streams[s] # seen[n] => s \in overrun')
  <1>1. pc[n] \in Providing
    BY DEF streamsUpdate, Providing
  <1>2. seen[n] \in SUBSET Subjects /\ Listed(seen[n])
    BY DEF StartupInv, StartupTypes
  <1>3. Listed(Merged(seen[n], n, s)) /\ Merged(seen[n], n, s) \subseteq Subjects
    BY <1>2, MergeAll
  <1>4. s \in Stream
    BY <1>1, CurrentIs
  <1>5. /\ streams' = [streams EXCEPT ![s] = Merged(seen[n], n, s)]
        /\ overrun' = IF streams[s] # seen[n] THEN overrun \cup {s} ELSE overrun
    BY DEF streamsUpdate
  <1> QED BY <1>3, <1>4, <1>5

LEMMA SubjectsListed ==
    ASSUME NEW n \in Node, NEW s
    PROVE  Listed(SubjectsOf(n, s)) /\ SubjectsOf(n, s) \subseteq Subjects
  <1> DEFINE l == Len(Tasks[n])
             g == [i \in 1..l |-> Tasks[n][i].subject]
             G == Range(g)
  <1>1. l \in Nat
    BY TasksOf
  <1>2. IsFiniteSet(1..l)
    BY <1>1, FS_Interval
  <1>3. IsFiniteSet(G)
    <2>1. DOMAIN g = 1..l
      OBVIOUS
    <2>f. g = [x \in DOMAIN g |-> g[x]]
      OBVIOUS
    <2> HIDE DEF g
    <2>2. g \in Surjection(1..l, G)
      <3>1. g \in [1..l -> G] /\ \A y \in G : \E x \in 1..l : g[x] = y
        BY <2>1, <2>f DEF Range
      <3> QED BY <3>1 DEF Surjection
    <2> QED BY <1>2, <2>2, FS_Surjection
  <1>4. SubjectsOf(n, s) \subseteq G
    <2> SUFFICES ASSUME NEW x \in SubjectsOf(n, s) PROVE x \in G
      OBVIOUS
    <2>1. PICK i \in 1..l : x = Tasks[n][i].subject
      BY TasksOf DEF SubjectsOf
    <2> QED BY <2>1 DEF Range
  <1>5. IsFiniteSet(SubjectsOf(n, s))
    BY <1>3, <1>4, FS_Subset
  <1>6. \A x \in SubjectsOf(n, s) : Good(x)
    BY TasksOf DEF SubjectsOf
  <1>7. SubjectsOf(n, s) \subseteq Subjects
    BY DEF SubjectsOf, Subjects, AllTasks
  <1> QED BY <1>5, <1>6, <1>7 DEF Listed

LEMMA StartupStep == StartupInv /\ [StartupNext]_startupVars => StartupInv'
  <1> SUFFICES ASSUME StartupInv, [StartupNext]_startupVars PROVE StartupInv'
    OBVIOUS
  <1>0. StartupTypes /\ \A n \in Node : NodePlace(n)
    BY DEF StartupInv
  <1>1. ASSUME NEW n \in Node, Start(n) PROVE StartupInv'
    <2>1. /\ pc[n] = "down" /\ pc' = [pc EXCEPT ![n] = "stream"]
          /\ \E b \in BOOLEAN : crons' = [crons EXCEPT ![n] = b]
          /\ UNCHANGED <<streams, consumers, at, seen, active>>
      BY <1>1 DEF Start
    <2>2. StartupTypes'
      BY <1>0, <2>1 DEF StartupTypes, Places, Providing
    <2>3. ASSUME NEW m \in Node PROVE NodePlace(m)'
      BY <1>0, <2>1, StreamsOfNode DEF StartupTypes, NodePlace, Providing
    <2> QED BY <2>2, <2>3 DEF StartupInv
  <1>2. ASSUME NEW n \in Node, streamsInfo(n) PROVE StartupInv'
    <2>1. /\ pc[n] = "stream" /\ UNCHANGED <<streams, consumers, active, crons>>
      BY <1>2 DEF streamsInfo
    <2>2. CASE Advance(n, "stream") /\ UNCHANGED seen
      <3>1. pc[n] \in StagePlaces("stream")
        BY <2>1 DEF StagePlaces, Providing
      <3>2. \A m \in Node : NodePlace(m)'
        BY <2>1, <2>2, <3>1, AdvancePlaces
      <3>3. pc' \in [Node -> Places] /\ at' \in [Node -> Nat]
        BY <2>2, <3>1, AdvanceMoves
      <3> QED BY <1>0, <2>1, <2>2, <3>2, <3>3 DEF StartupInv, StartupTypes
    <2>3. CASE /\ \E p \in {"add", "merge"} : pc' = [pc EXCEPT ![n] = p]
               /\ \/ UNCHANGED seen
                  \/ \E s \in Stream : seen' = [seen EXCEPT ![n] = streams[s]]
               /\ UNCHANGED at
      <3>1. StartupTypes'
        BY <1>0, <2>1, <2>3 DEF StartupTypes, Places, Providing
      <3>2. ASSUME NEW m \in Node PROVE NodePlace(m)'
        BY <1>0, <2>1, <2>3 DEF StartupTypes, NodePlace, Providing
      <3> QED BY <3>1, <3>2 DEF StartupInv
    <2>4. Current(n) \in Stream
      BY <2>1, CurrentIs DEF Providing
    <2> QED BY <1>2, <2>2, <2>3, <2>4 DEF streamsInfo
  <1>3. ASSUME NEW n \in Node, streamsUpdate(n) PROVE StartupInv'
    <2>1. /\ pc[n] \in StagePlaces("stream") /\ Advance(n, "stream")
          /\ seen' = [seen EXCEPT ![n] = {}] /\ UNCHANGED <<consumers, active, crons>>
      BY <1>3 DEF streamsUpdate, StagePlaces, Providing
    <2>2. \A m \in Node : NodePlace(m)'
      BY <2>1, AdvancePlaces
    <2>3. pc' \in [Node -> Places] /\ at' \in [Node -> Nat]
      BY <2>1, AdvanceMoves
    <2>4. streams' \in [Stream -> SUBSET Subjects] /\ \A s \in Stream : Listed(streams'[s])
      <3>1. PICK s : s = Current(n)
        OBVIOUS
      <3>2. PICK K \in SUBSET Subjects : s \in Stream /\ Listed(K) /\ streams' = [streams EXCEPT ![s] = K]
        BY <1>3, <3>1, UpdateStreams
      <3> QED BY <1>0, <3>2 DEF StartupTypes
    <2>5. Listed({})
      BY FS_EmptySet DEF Listed
    <2> QED BY <1>0, <2>1, <2>2, <2>3, <2>4, <2>5 DEF StartupInv, StartupTypes
  <1>4. ASSUME NEW n \in Node, streamsAdd(n) PROVE StartupInv'
    <2>1. /\ pc[n] = "add" /\ UNCHANGED <<consumers, seen, active, crons>>
      BY <1>4 DEF streamsAdd
    <2>2. CASE pc' = [pc EXCEPT ![n] = "failed"] /\ UNCHANGED <<streams, at>>
      <3>1. StartupTypes'
        BY <1>0, <2>1, <2>2 DEF StartupTypes, Places
      <3>2. ASSUME NEW m \in Node PROVE NodePlace(m)'
        BY <1>0, <2>1, <2>2 DEF StartupTypes, NodePlace, Providing
      <3> QED BY <3>1, <3>2 DEF StartupInv
    <2>3. CASE /\ streams' = [streams EXCEPT ![Current(n)] = SubjectsOf(n, Current(n))]
               /\ Advance(n, "stream")
      <3>1. pc[n] \in StagePlaces("stream")
        BY <2>1 DEF StagePlaces, Providing
      <3>2. \A m \in Node : NodePlace(m)'
        BY <2>1, <2>3, <3>1, AdvancePlaces
      <3>3. pc' \in [Node -> Places] /\ at' \in [Node -> Nat]
        BY <2>3, <3>1, AdvanceMoves
      <3>4. streams' \in [Stream -> SUBSET Subjects] /\ \A s \in Stream : Listed(streams'[s])
        <4>1. PICK s \in Stream : s = Current(n)
          BY <2>1, CurrentIs DEF Providing
        <4>2. PICK K \in SUBSET Subjects : Listed(K) /\ streams' = [streams EXCEPT ![s] = K]
          BY <2>3, <4>1, SubjectsListed
        <4> QED BY <1>0, <4>2 DEF StartupTypes
      <3> QED BY <1>0, <2>1, <3>2, <3>3, <3>4 DEF StartupInv, StartupTypes
    <2> QED BY <1>4, <2>2, <2>3 DEF streamsAdd
  <1>5. ASSUME NEW n \in Node, provisionConsumer(n) PROVE StartupInv'
    <2>1. /\ pc[n] = "consumer" /\ pc[n] \in StagePlaces("consumer") /\ Advance(n, "consumer")
          /\ UNCHANGED <<streams, seen, active, crons>>
          /\ UNCHANGED consumers \/ Ensured(Task(n), Task(n).subject)
      BY <1>5 DEF provisionConsumer, StagePlaces
    <2>2. \A m \in Node : NodePlace(m)'
      BY <2>1, AdvancePlaces
    <2>3. pc' \in [Node -> Places] /\ at' \in [Node -> Nat]
      BY <2>1, AdvanceMoves
    <2>4. consumers' \in [Consumers -> SUBSET Filters]
      BY <1>0, <2>1, TaskIs, EnsuredType DEF StartupTypes
    <2> QED BY <1>0, <2>1, <2>2, <2>3, <2>4 DEF StartupInv, StartupTypes
  <1>6. ASSUME NEW n \in Node, createPullConsumer(n) \/ Unhandled(n) PROVE StartupInv'
    <2>1. /\ pc[n] = "activate" /\ pc[n] \in StagePlaces("activate") /\ Advance(n, "activate")
          /\ UNCHANGED <<streams, seen>>
          /\ \E b \in BOOLEAN : crons' = [crons EXCEPT ![n] = b]
          /\ \/ UNCHANGED consumers
             \/ Ensured(Task(n), sanitizeConsumerConfig(Task(n).options).filter)
          /\ \/ UNCHANGED active
             \/ /\ Task(n).options.stream # "-"
                /\ active' = [active EXCEPT ![n] = @ \cup {Task(n)}]
      <3>1. Scheduled(n) => \E b \in BOOLEAN : crons' = [crons EXCEPT ![n] = b]
        <4>1. crons[n] \in BOOLEAN
          BY <1>0 DEF StartupTypes
        <4> QED BY <4>1 DEF Scheduled
      <3> QED BY <1>6, <3>1 DEF createPullConsumer, Unhandled, StagePlaces
    <2>2. /\ Task(n) \in Range(Tasks[n]) /\ Task(n) \in AllTasks
          /\ active \in [Node -> SUBSET AllTasks]
          /\ active[n] \subseteq {t \in Range(Tasks[n]) : t.options.stream # "-"}
      BY <1>0, <2>1, TaskIs DEF StartupTypes, NodePlace, AllTasks
    <2>3. /\ \A m \in Node \ {n} : active'[m] = active[m]
          /\ active'[n] \subseteq {t \in Range(Tasks[n]) : t.options.stream # "-"}
          /\ active' \in [Node -> SUBSET AllTasks]
      BY <2>1, <2>2
    <2>4. \A m \in Node : NodePlace(m)'
      BY <2>1, <2>3, AdvancePlaces
    <2>5. pc' \in [Node -> Places] /\ at' \in [Node -> Nat]
      BY <2>1, AdvanceMoves
    <2>6. consumers' \in [Consumers -> SUBSET Filters]
      BY <1>0, <2>1, TaskIs, EnsuredType DEF StartupTypes
    <2> QED BY <1>0, <2>1, <2>3, <2>4, <2>5, <2>6 DEF StartupInv, StartupTypes
  <1>7. ASSUME NEW n \in Node, StreamRequired(n) \/ Fails(n) PROVE StartupInv'
    <2>1. /\ pc' = [pc EXCEPT ![n] = "failed"]
          /\ UNCHANGED <<streams, consumers, at, seen, active, crons>>
      BY <1>7 DEF StreamRequired, Fails
    <2>2. StartupTypes'
      BY <1>0, <2>1 DEF StartupTypes, Places
    <2>3. ASSUME NEW m \in Node PROVE NodePlace(m)'
      BY <1>0, <2>1 DEF StartupTypes, NodePlace, Providing
    <2> QED BY <2>2, <2>3 DEF StartupInv
  <1>8. ASSUME NEW n \in Node, Restart(n) PROVE StartupInv'
    <2>1. /\ pc' = [pc EXCEPT ![n] = "down"] /\ at' = [at EXCEPT ![n] = 1]
          /\ seen' = [seen EXCEPT ![n] = {}] /\ active' = [active EXCEPT ![n] = {}]
          /\ crons' = [crons EXCEPT ![n] = FALSE]
          /\ UNCHANGED <<streams, consumers>>
      BY <1>8 DEF Restart
    <2>2. Listed({})
      BY FS_EmptySet DEF Listed
    <2>3. StartupTypes'
      BY <1>0, <2>1, <2>2 DEF StartupTypes, Places
    <2>4. ASSUME NEW m \in Node PROVE NodePlace(m)'
      BY <1>0, <2>1 DEF StartupTypes, NodePlace, Providing
    <2> QED BY <2>3, <2>4 DEF StartupInv
  <1>9. CASE UNCHANGED startupVars
    BY <1>9 DEF startupVars, StartupInv, StartupTypes, NodePlace
  <1> QED BY <1>1, <1>2, <1>3, <1>4, <1>5, <1>6, <1>7, <1>8, <1>9 DEF StartupNext, Sends
-----------------------------------------------------------------------------
(* A stream loses no subject, unless an update undid another.               *)
LEMMA StreamsGrow ==
    ASSUME StartupInv, [StartupNext]_startupVars
    PROVE  /\ overrun \subseteq overrun'
           /\ \A s \in Stream : \A x : Good(x) /\ Has(streams[s], x)
                                         => Has(streams'[s], x) \/ s \in overrun'
  <1> DEFINE Grow == /\ overrun \subseteq overrun'
                     /\ \A s \in Stream : \A x : Good(x) /\ Has(streams[s], x)
                                                   => Has(streams'[s], x) \/ s \in overrun'
  <1> SUFFICES Grow
    OBVIOUS
  <1>0. streams \in [Stream -> SUBSET Subjects] /\ \A n \in Node : seen[n] \in SUBSET Subjects /\ Listed(seen[n])
    BY DEF StartupInv, StartupTypes
  <1>1. CASE UNCHANGED <<streams, overrun>>
    BY <1>1
  <1>2. ASSUME NEW n \in Node, streamsUpdate(n) PROVE Grow
    <2>1. PICK s : s = Current(n)
      OBVIOUS
    <2>2. /\ s \in Stream /\ streams' = [streams EXCEPT ![s] = Merged(seen[n], n, s)]
          /\ overrun \subseteq overrun' /\ (streams[s] # seen[n] => s \in overrun')
      BY <1>2, <2>1, UpdateStreams
    <2>3. \A x : Good(x) /\ Has(seen[n], x) => Has(Merged(seen[n], n, s), x)
      BY <1>0, MergeAll
    <2>4. streams'[s] = Merged(seen[n], n, s) /\ \A r \in Stream \ {s} : streams'[r] = streams[r]
      BY <1>0, <2>2
    <2> QED BY <2>2, <2>3, <2>4
  <1>3. ASSUME NEW n \in Node, streamsAdd(n) PROVE Grow
    <2>1. PICK s \in Stream : s = Current(n)
      BY <1>3, CurrentIs DEF streamsAdd, Providing
    <2>2. /\ UNCHANGED overrun
          /\ \/ UNCHANGED streams
             \/ /\ streams[s] \in {{}, SubjectsOf(n, s)}
                /\ streams' = [streams EXCEPT ![s] = SubjectsOf(n, s)]
      BY <1>3, <2>1 DEF streamsAdd
    <2>3. \A x : ~Has({}, x)
      BY DEF Has
    <2>4. CASE UNCHANGED streams
      BY <2>2, <2>4
    <2>5. CASE /\ streams[s] \in {{}, SubjectsOf(n, s)}
               /\ streams' = [streams EXCEPT ![s] = SubjectsOf(n, s)]
      <3>1. streams'[s] = SubjectsOf(n, s) /\ \A r \in Stream \ {s} : streams'[r] = streams[r]
        BY <1>0, <2>5
      <3> QED BY <2>2, <2>3, <2>5, <3>1
    <2> QED BY <2>2, <2>4, <2>5
  <1>4. ASSUME NEW n \in Node,
               \/ Start(n) \/ streamsInfo(n) \/ provisionConsumer(n) \/ createPullConsumer(n)
               \/ Unhandled(n) \/ StreamRequired(n) \/ Fails(n) \/ Restart(n)
        PROVE  Grow
    BY <1>1, <1>4 DEF Start, streamsInfo, provisionConsumer, createPullConsumer, Unhandled,
                      StreamRequired, Fails, Restart
  <1>5. CASE UNCHANGED startupVars
    BY <1>1, <1>5 DEF startupVars
  <1> HIDE DEF Grow
  <1> QED BY <1>2, <1>3, <1>4, <1>5 DEF StartupNext, Sends

(* A node is done with a stream.                                            *)
Done(n, s) ==
    \/ pc[n] \in Providing /\ \E j \in 1..(at[n] - 1) : StreamsOf[n][j] = s
    \/ pc[n] \in {"consumer", "activate", "up"}

(* What a node becomes done with has its subjects.                          *)
Gained(n) ==
    \A t \in Range(Tasks[n]) :
      Done(n, StreamOf(t))' \/ t \in active'[n]
        => Done(n, StreamOf(t)) \/ t \in active[n] \/ Has(streams'[StreamOf(t)], t.subject)

LEMMA AdvanceDone ==
    ASSUME StartupInv, NEW n \in Node, pc[n] \in Providing, Advance(n, "stream"),
           UNCHANGED active,
           \A t \in Range(Tasks[n]) :
             StreamOf(t) = Current(n) => Has(streams'[StreamOf(t)], t.subject)
    PROVE  \A m \in Node : Gained(m)
  <1>1. /\ \A m \in Node \ {n} : pc'[m] = pc[m] /\ at'[m] = at[m]
        /\ at[n] \in 1..Stage(n)
        /\ \/ at[n] < Stage(n) /\ pc'[n] = "stream" /\ at'[n] = at[n] + 1
           \/ at[n] = Stage(n) /\ at'[n] = 1 /\ NextPlace(n, "stream", pc'[n])
    BY AdvanceMoves DEF StagePlaces
  <1>2. ASSUME NEW m \in Node, m # n PROVE Gained(m)
    BY <1>1, <1>2 DEF Gained, Done
  <1>3. Stage(n) = Len(StreamsOf[n]) /\ Stage(n) \in Nat \ {0} /\ Current(n) = StreamsOf[n][at[n]]
    BY StageLength, CurrentIs
  <1>4. ASSUME NEW t \in Range(Tasks[n]), Done(n, StreamOf(t))', ~Done(n, StreamOf(t))
        PROVE  StreamOf(t) = Current(n)
    <2>1. CASE pc'[n] = "stream" /\ at'[n] = at[n] + 1
      <3>1. PICK j \in 1..(at'[n] - 1) : StreamsOf[n][j] = StreamOf(t)
        BY <1>4, <2>1 DEF Done
      <3>2. j \in 1..(at[n] - 1) \/ j = at[n]
        BY <1>1, <1>3, <2>1, <3>1
      <3> QED BY <1>3, <1>4, <3>1, <3>2 DEF Done
    <2>2. CASE at[n] = Stage(n)
      <3>1. PICK j \in 1..Len(StreamsOf[n]) : StreamsOf[n][j] = StreamOf(t)
        BY StreamsOfNode
      <3>2. j \in 1..(at[n] - 1) \/ j = at[n]
        BY <1>3, <2>2, <3>1
      <3> QED BY <1>3, <1>4, <3>1, <3>2 DEF Done
    <2> QED BY <1>1, <2>1, <2>2
  <1>5. Gained(n)
    BY <1>4 DEF Gained
  <1> QED BY <1>2, <1>5

LEMMA EachGains ==
    ASSUME StartupInv, [StartupNext]_startupVars PROVE \A n \in Node : Gained(n)
  <1> DEFINE All == \A n \in Node : Gained(n)
  <1> SUFFICES All
    OBVIOUS
  <1>0. StartupTypes /\ \A n \in Node : NodePlace(n)
    BY DEF StartupInv
  <1>1. ASSUME NEW n \in Node, streamsInfo(n) PROVE All
    <2>1. pc[n] = "stream" /\ UNCHANGED <<streams, active>>
      BY <1>1 DEF streamsInfo
    <2>2. CASE Advance(n, "stream") /\ Merged(streams[Current(n)], n, Current(n)) = streams[Current(n)]
      <3>1. PICK s \in Stream : s = Current(n)
        BY <2>1, CurrentIs DEF Providing
      <3>2. streams[s] \in SUBSET Subjects /\ Listed(streams[s])
        BY <1>0 DEF StartupTypes
      <3>3. \A t \in Range(Tasks[n]) : StreamOf(t) = s => Has(streams[s], t.subject)
        BY <2>2, <3>1, <3>2, MergeAll
      <3> QED BY <2>1, <2>2, <3>1, <3>3, AdvanceDone DEF Providing
    <2>3. CASE (\E p \in {"add", "merge"} : pc' = [pc EXCEPT ![n] = p]) /\ UNCHANGED at
      <3>1. pc'[n] \in Providing /\ \A m \in Node \ {n} : pc'[m] = pc[m]
        BY <1>0, <2>3 DEF StartupTypes, Providing
      <3> QED BY <2>1, <2>3, <3>1 DEF Gained, Done, Providing
    <2> QED BY <1>1, <2>2, <2>3 DEF streamsInfo
  <1>2. ASSUME NEW n \in Node, streamsUpdate(n) PROVE All
    <2>1. PICK s : s = Current(n)
      OBVIOUS
    <2>2. s \in Stream /\ streams' = [streams EXCEPT ![s] = Merged(seen[n], n, s)]
      BY <1>2, <2>1, UpdateStreams
    <2>3. streams'[s] = Merged(seen[n], n, s) /\ seen[n] \in SUBSET Subjects /\ Listed(seen[n])
      BY <1>0, <2>2 DEF StartupTypes
    <2>4. \A t \in Range(Tasks[n]) : StreamOf(t) = s => Has(streams'[s], t.subject)
      BY <2>3, MergeAll
    <2>5. pc[n] \in Providing /\ Advance(n, "stream") /\ UNCHANGED active
      BY <1>2 DEF streamsUpdate, Providing
    <2> QED BY <2>1, <2>4, <2>5, AdvanceDone
  <1>3. ASSUME NEW n \in Node, streamsAdd(n) PROVE All
    <2>1. pc[n] \in Providing /\ UNCHANGED active
      BY <1>3 DEF streamsAdd, Providing
    <2>2. CASE pc' = [pc EXCEPT ![n] = "failed"] /\ UNCHANGED at
      <3>1. pc'[n] = "failed" /\ \A m \in Node \ {n} : pc'[m] = pc[m]
        BY <1>0, <2>2 DEF StartupTypes
      <3> QED BY <2>1, <2>2, <3>1 DEF Gained, Done, Providing
    <2>3. CASE /\ streams' = [streams EXCEPT ![Current(n)] = SubjectsOf(n, Current(n))]
               /\ Advance(n, "stream")
      <3>1. PICK s \in Stream : s = Current(n)
        BY <2>1, CurrentIs
      <3>2. streams'[s] = SubjectsOf(n, s)
        BY <1>0, <2>3, <3>1 DEF StartupTypes
      <3>3. \A t \in Range(Tasks[n]) : StreamOf(t) = s => Has(streams'[s], t.subject)
        BY <3>2 DEF Has, SubjectsOf
      <3> QED BY <2>1, <2>3, <3>1, <3>3, AdvanceDone
    <2> QED BY <1>3, <2>2, <2>3 DEF streamsAdd
  <1>4. ASSUME NEW n \in Node,
               provisionConsumer(n) \/ createPullConsumer(n) \/ Unhandled(n)
        PROVE  All
    <2>1. PICK stage \in {"consumer", "activate"} : pc[n] = stage /\ Advance(n, stage)
      BY <1>4 DEF provisionConsumer, createPullConsumer, Unhandled
    <2>2. \A m \in Node \ {n} : pc'[m] = pc[m] /\ at'[m] = at[m]
      BY <2>1, AdvanceMoves DEF StagePlaces
    <2>3. UNCHANGED active \/ active' = [active EXCEPT ![n] = @ \cup {Task(n)}]
      BY <1>4 DEF provisionConsumer, createPullConsumer, Unhandled
    <2>4. \A m \in Node \ {n} : active'[m] = active[m]
      BY <1>0, <2>3 DEF StartupTypes
    <2>5. \A s : Done(n, s)
      BY <2>1 DEF Done
    <2> QED BY <2>2, <2>4, <2>5 DEF Gained, Done
  <1>5. ASSUME NEW n \in Node, Start(n) \/ StreamRequired(n) \/ Fails(n) \/ Restart(n) PROVE All
    <2>1. PICK p \in {"stream", "failed", "down"} :
            pc' = [pc EXCEPT ![n] = p] /\ (p = "stream" => pc[n] = "down" /\ UNCHANGED at)
      BY <1>5 DEF Start, StreamRequired, Fails, Restart
    <2>2. /\ UNCHANGED active \/ active' = [active EXCEPT ![n] = {}]
          /\ UNCHANGED at \/ at' = [at EXCEPT ![n] = 1]
      BY <1>5 DEF Start, StreamRequired, Fails, Restart
    <2>3. /\ pc'[n] = p /\ active'[n] \subseteq active[n] /\ (p = "stream" => at'[n] = 1)
          /\ \A m \in Node \ {n} : pc'[m] = pc[m] /\ at'[m] = at[m] /\ active'[m] = active[m]
      BY <1>0, <2>1, <2>2 DEF StartupTypes, NodePlace
    <2>4. \A s : ~Done(n, s)'
      BY <2>3 DEF Done, Providing
    <2> QED BY <2>3, <2>4 DEF Gained, Done
  <1>6. CASE UNCHANGED startupVars
    BY <1>6 DEF startupVars, Gained, Done
  <1> HIDE DEF All
  <1> QED BY <1>1, <1>2, <1>3, <1>4, <1>5, <1>6 DEF StartupNext, Sends

SubjectsInv ==
    \A n \in Node : \A t \in Range(Tasks[n]) :
      Done(n, StreamOf(t)) \/ t \in active[n]
        => Has(streams[StreamOf(t)], t.subject) \/ StreamOf(t) \in overrun

LEMMA SubjectsStep ==
    StartupInv /\ SubjectsInv /\ [StartupNext]_startupVars => SubjectsInv'
  <1> SUFFICES ASSUME StartupInv, SubjectsInv, [StartupNext]_startupVars,
                      NEW n \in Node, NEW t \in Range(Tasks[n]),
                      Done(n, StreamOf(t))' \/ t \in active'[n]
               PROVE  Has(streams'[StreamOf(t)], t.subject) \/ StreamOf(t) \in overrun'
    BY DEF SubjectsInv
  <1>1. Good(t.subject) /\ StreamOf(t) \in Stream
    BY TasksOf
  <1>2. Done(n, StreamOf(t)) \/ t \in active[n] \/ Has(streams'[StreamOf(t)], t.subject)
    BY EachGains DEF Gained
  <1>3. CASE Done(n, StreamOf(t)) \/ t \in active[n]
    <2>1. Has(streams[StreamOf(t)], t.subject) \/ StreamOf(t) \in overrun
      BY <1>3 DEF SubjectsInv
    <2> QED BY <1>1, <2>1, StreamsGrow
  <1> QED BY <1>2, <1>3

LEMMA HasDelivers ==
    ASSUME NEW K, Listed(K), NEW x, Good(x), Has(K, x)
    PROVE  (\E k \in K : Matches(k, x)) \/ Swallowed(x, K)
  <1>1. CASE x \in K
    <2>1. DOMAIN x = 1..Len(x)
      BY LenProperties DEF Good
    <2>2. Matches(x, x)
      BY <2>1 DEF Matches
    <2> QED BY <1>1, <2>2
  <1>2. CASE \E k \in K : Below(x, k)
    BY <1>2 DEF Below, Swallowed
  <1> QED BY <1>1, <1>2 DEF Has

(* The subjects a node pulls messages for stay among the subjects of its    *)
(* stream, through the merging of every node that shares it, the failures   *)
(* and the restarts; the exceptions are another node's update in between    *)
(* and the prefixes mergeSubjects compares without their dots.              *)
THEOREM StartupKeepsSubjects == StartupSpec => []SubjectsKept
  <1>1. StartupInit => StartupInv /\ SubjectsInv
    <2>1. StartupInit => SubjectsInv
      BY DEF StartupInit, SubjectsInv, Done, Providing
    <2> QED BY <2>1, StartupBegins
  <1>2. StartupInv /\ SubjectsInv /\ [StartupNext]_startupVars => (StartupInv /\ SubjectsInv)'
    BY StartupStep, SubjectsStep
  <1>3. StartupInv /\ SubjectsInv => SubjectsKept
    <2> SUFFICES ASSUME StartupInv, SubjectsInv, NEW n \in Node, NEW t \in active[n]
                 PROVE  LET kept == streams[t.options.stream] IN
                          \/ \E k \in kept : Matches(k, t.subject)
                          \/ Swallowed(t.subject, kept) \/ t.options.stream \in overrun
      BY DEF SubjectsKept
    <2>1. t \in Range(Tasks[n]) /\ t.options.stream = StreamOf(t)
      BY DEF StartupInv, NodePlace, StreamOf
    <2>2. Good(t.subject) /\ StreamOf(t) \in Stream
      BY <2>1, TasksOf
    <2>3. Listed(streams[StreamOf(t)])
      BY <2>2 DEF StartupInv, StartupTypes
    <2>4. Has(streams[StreamOf(t)], t.subject) \/ StreamOf(t) \in overrun
      BY <2>1 DEF SubjectsInv
    <2> QED BY <2>1, <2>2, <2>3, <2>4, HasDelivers
  <1> QED BY <1>1, <1>2, <1>3, PTL DEF StartupSpec
-----------------------------------------------------------------------------
(* The tasks that share a durable consumer ask for one subject, and the     *)
(* server is told it.                                                       *)
Alone(t) ==
    \A m \in Node : \A u \in Range(Tasks[m]) :
      ConsumerOf(u) = ConsumerOf(t)
        => u.subject = t.subject /\ (u.options.durable # <<>> \/ u.options.filter = u.subject)

Durable(t) == t.options.durable # <<>> /\ t.options.stream # "-"

(* A node that provisions its consumers is past the task.                   *)
Provisioned(n, i) ==
    /\ Entry[n] # "subscribe"
    /\ pc[n] = "activate" \/ (pc[n] = "consumer" /\ i < at[n])

ConsumersInv ==
    /\ \A t \in AllTasks : Alone(t) => consumers[ConsumerOf(t)] \in {{}, {t.subject}}
    /\ \A n \in Node : \A i \in 1..Len(Tasks[n]) :
         Durable(Tasks[n][i]) /\ Provisioned(n, i) => consumers[ConsumerOf(Tasks[n][i])] # {}
    /\ \A n \in Node : \A t \in active[n] : consumers[ConsumerOf(t)] # {}

(* A consumer that is there stays as it is.                                 *)
Stays == \A c \in Consumers : consumers[c] # {} => consumers'[c] = consumers[c]

(* The consumers are there that the places of the nodes tell of.            *)
Provides ==
    /\ \A n \in Node : \A i \in 1..Len(Tasks[n]) :
         Durable(Tasks[n][i]) /\ Provisioned(n, i)'
           => Provisioned(n, i) \/ consumers'[ConsumerOf(Tasks[n][i])] # {}
    /\ \A n \in Node : \A t \in active'[n] :
         t \in active[n] \/ consumers'[ConsumerOf(t)] # {}

LEMMA ConsumersKept ==
    ASSUME StartupInv, ConsumersInv, Stays, Provides,
           \A n \in Node : active'[n] \subseteq Range(Tasks[n]),
           \A t \in AllTasks : Alone(t) => consumers'[ConsumerOf(t)] \in {{}, {t.subject}}
    PROVE  ConsumersInv'
  <1>1. \A n \in Node : \A t \in Range(Tasks[n]) : ConsumerOf(t) \in Consumers
    BY DEF Consumers, AllTasks
  <1>2. ASSUME NEW n \in Node, NEW i \in 1..Len(Tasks[n]),
               Durable(Tasks[n][i]), Provisioned(n, i)'
        PROVE  consumers'[ConsumerOf(Tasks[n][i])] # {}
    <2>1. ConsumerOf(Tasks[n][i]) \in Consumers
      BY <1>1, TasksOf
    <2>2. Provisioned(n, i) => consumers[ConsumerOf(Tasks[n][i])] # {}
      BY <1>2 DEF ConsumersInv
    <2> QED BY <1>2, <2>1, <2>2 DEF Provides, Stays
  <1>3. ASSUME NEW n \in Node, NEW t \in active'[n] PROVE consumers'[ConsumerOf(t)] # {}
    <2>1. ConsumerOf(t) \in Consumers
      BY <1>1
    <2>2. t \in active[n] => consumers[ConsumerOf(t)] # {}
      BY DEF ConsumersInv
    <2> QED BY <2>1, <2>2 DEF Provides, Stays
  <1>4. /\ \A n \in Node : \A i \in 1..Len(Tasks[n]) :
             Durable(Tasks[n][i]) /\ Provisioned(n, i)'
               => consumers'[ConsumerOf(Tasks[n][i])] # {}
        /\ \A n \in Node : \A t \in active'[n] : consumers'[ConsumerOf(t)] # {}
    BY <1>2, <1>3
  <1> QED BY <1>4 DEF ConsumersInv

(* What a request may write into the consumer of a task.                    *)
LEMMA EnsuredKeeps ==
    ASSUME StartupInv, ConsumersInv, NEW n \in Node, NEW t \in Range(Tasks[n]),
           NEW f \in Filters, Ensured(t, f),
           Alone(t) /\ consumers[ConsumerOf(t)] = {} => f = t.subject
    PROVE  /\ Stays /\ consumers'[ConsumerOf(t)] # {}
           /\ \A u \in AllTasks : Alone(u) => consumers'[ConsumerOf(u)] \in {{}, {u.subject}}
  <1>1. /\ consumers'[ConsumerOf(t)] # {}
        /\ \A c \in Consumers : consumers'[c] = consumers[c]
                                \/ (c = ConsumerOf(t) /\ consumers[c] = {} /\ consumers'[c] = {f})
    BY EnsuredType
  <1>2. ASSUME NEW u \in AllTasks, Alone(u)
        PROVE  consumers'[ConsumerOf(u)] \in {{}, {u.subject}}
    <2>1. ConsumerOf(u) \in Consumers /\ consumers[ConsumerOf(u)] \in {{}, {u.subject}}
      BY <1>2 DEF ConsumersInv, Consumers
    <2>2. CASE ConsumerOf(u) = ConsumerOf(t) /\ consumers[ConsumerOf(t)] = {}
      <3>1. Alone(t) /\ t.subject = u.subject
        BY <1>2, <2>2 DEF Alone
      <3> QED BY <1>1, <2>1, <2>2, <3>1
    <2> QED BY <1>1, <2>1, <2>2
  <1> QED BY <1>1, <1>2 DEF Stays

LEMMA ConsumersStep ==
    StartupInv /\ ConsumersInv /\ [StartupNext]_startupVars => ConsumersInv'
  <1> SUFFICES ASSUME StartupInv, ConsumersInv, [StartupNext]_startupVars
               PROVE  ConsumersInv'
    OBVIOUS
  <1>0. StartupTypes /\ (\A n \in Node : NodePlace(n)) /\ StartupInv'
    BY StartupStep DEF StartupInv
  <1>1. \A n \in Node : active'[n] \subseteq Range(Tasks[n])
    BY <1>0 DEF StartupInv, NodePlace
  <1>2. ASSUME UNCHANGED consumers, Provides PROVE ConsumersInv'
    <2>1. Stays /\ \A t \in AllTasks : Alone(t) => consumers'[ConsumerOf(t)] \in {{}, {t.subject}}
      BY <1>2 DEF Stays, ConsumersInv
    <2> QED BY <1>1, <1>2, <2>1, ConsumersKept
  <1>3. ASSUME NEW n \in Node, streamsInfo(n) \/ streamsUpdate(n) \/ streamsAdd(n)
        PROVE  ConsumersInv'
    <2>1. pc[n] \in Providing /\ UNCHANGED <<consumers, active>>
      BY <1>3 DEF streamsInfo, streamsUpdate, streamsAdd, Providing
    <2>2. /\ \A m \in Node \ {n} : pc'[m] = pc[m] /\ at'[m] = at[m]
          /\ \/ pc'[n] \in Providing \cup {"failed"}
             \/ pc'[n] = "consumer" /\ at'[n] = 1
             \/ pc'[n] = "activate" /\ Entry[n] = "subscribe"
      <3>1. CASE Advance(n, "stream")
        BY <2>1, <3>1, AdvanceMoves DEF StagePlaces, NextPlace, Providing
      <3>2. CASE (\E p \in {"add", "merge", "failed"} : pc' = [pc EXCEPT ![n] = p]) /\ UNCHANGED at
        BY <1>0, <3>2 DEF StartupTypes, Providing
      <3> QED BY <1>3, <3>1, <3>2 DEF streamsInfo, streamsUpdate, streamsAdd
    <2>3. Provides
      BY <2>1, <2>2 DEF Provides, Provisioned, Providing
    <2> QED BY <1>2, <2>1, <2>3
  <1>4. ASSUME NEW n \in Node, provisionConsumer(n) PROVE ConsumersInv'
    <2>1. /\ pc[n] = "consumer" /\ Advance(n, "consumer") /\ UNCHANGED active
          /\ IF ~Durable(Task(n)) THEN UNCHANGED consumers ELSE Ensured(Task(n), Task(n).subject)
      BY <1>4 DEF provisionConsumer, Durable
    <2>2. /\ \A m \in Node \ {n} : pc'[m] = pc[m] /\ at'[m] = at[m]
          /\ at[n] \in 1..Stage(n) /\ Stage(n) = Len(Tasks[n])
          /\ \/ at[n] < Stage(n) /\ pc'[n] = "consumer" /\ at'[n] = at[n] + 1
             \/ at[n] = Stage(n) /\ at'[n] = 1 /\ pc'[n] = "activate"
      BY <2>1, AdvanceMoves, StageLength DEF StagePlaces, NextPlace, Providing
    <2>3. PICK t \in Range(Tasks[n]) : t = Task(n) /\ t = Tasks[n][at[n]] /\ t.subject \in Filters
      BY <2>1, TaskIs
    <2>4. ASSUME Durable(t) => consumers'[ConsumerOf(t)] # {} PROVE Provides
      <3>1. ASSUME NEW m \in Node, NEW i \in 1..Len(Tasks[m]),
                   Durable(Tasks[m][i]), Provisioned(m, i)', ~Provisioned(m, i)
            PROVE  m = n /\ i = at[n]
        <4>1. m = n
          BY <2>2, <3>1 DEF Provisioned
        <4>2. ~(i < at[n])
          BY <2>1, <3>1, <4>1 DEF Provisioned
        <4>3. i \in 1..Stage(n) /\ (pc'[n] = "consumer" => i < at'[n])
          BY <2>2, <3>1, <4>1 DEF Provisioned
        <4>4. Stage(n) \in Nat
          BY <2>2, TasksOf
        <4>5. i = at[n]
          BY <2>2, <4>2, <4>3, <4>4
        <4> QED BY <4>1, <4>5
      <3>2. ASSUME NEW m \in Node, NEW i \in 1..Len(Tasks[m]),
                   Durable(Tasks[m][i]), Provisioned(m, i)'
            PROVE  Provisioned(m, i) \/ consumers'[ConsumerOf(Tasks[m][i])] # {}
        BY <2>3, <2>4, <3>1, <3>2
      <3> QED BY <2>1, <3>2 DEF Provides
    <2>5. CASE ~Durable(t)
      BY <1>2, <2>1, <2>3, <2>4, <2>5
    <2>6. CASE Durable(t)
      <3>1. Ensured(t, t.subject)
        BY <2>1, <2>3, <2>6
      <3>2. /\ Stays /\ consumers'[ConsumerOf(t)] # {}
            /\ \A u \in AllTasks : Alone(u) => consumers'[ConsumerOf(u)] \in {{}, {u.subject}}
        BY <2>3, <3>1, EnsuredKeeps
      <3> QED BY <1>1, <2>4, <3>2, ConsumersKept
    <2> QED BY <2>5, <2>6
  <1>5. ASSUME NEW n \in Node, createPullConsumer(n) PROVE ConsumersInv'
    <2>1. /\ pc[n] = "activate" /\ Advance(n, "activate") /\ Task(n).options.stream # "-"
          /\ Ensured(Task(n), Task(n).options.filter)
          /\ active' = [active EXCEPT ![n] = @ \cup {Task(n)}]
      BY <1>5 DEF createPullConsumer, sanitizeConsumerConfig
    <2>2. /\ \A m \in Node \ {n} : pc'[m] = pc[m] /\ at'[m] = at[m]
      BY <2>1, AdvanceMoves DEF StagePlaces
    <2>3. PICK t \in Range(Tasks[n]) : t = Task(n) /\ at[n] \in 1..Len(Tasks[n])
                                       /\ t = Tasks[n][at[n]] /\ t.options.filter \in Filters
      BY <2>1, TaskIs DEF sanitizeConsumerConfig
    <2>4. Ensured(t, t.options.filter)
      BY <2>1, <2>3
    <2>5. Entry[n] # "subscribe" /\ Durable(t) => consumers[ConsumerOf(t)] # {}
      BY <2>1, <2>3 DEF ConsumersInv, Provisioned
    <2>6. Alone(t) /\ consumers[ConsumerOf(t)] = {} => t.options.filter = t.subject
      <3>1. Alone(t) => t.options.durable # <<>> \/ t.options.filter = t.subject
        BY DEF Alone
      <3>2. Entry[n] = "subscribe" => t.options.filter = t.subject
        BY TasksAssumption
      <3> QED BY <2>1, <2>3, <2>5, <3>1, <3>2 DEF Durable
    <2>7. /\ Stays /\ consumers'[ConsumerOf(t)] # {}
          /\ \A u \in AllTasks : Alone(u) => consumers'[ConsumerOf(u)] \in {{}, {u.subject}}
      BY <2>3, <2>4, <2>6, EnsuredKeeps
    <2>8. \A m \in Node : active'[m] \subseteq active[m] \cup {t}
      BY <1>0, <2>1, <2>3 DEF StartupTypes
    <2>9. Provides
      BY <2>1, <2>2, <2>7, <2>8 DEF Provides, Provisioned
    <2> QED BY <1>1, <2>7, <2>9, ConsumersKept
  <1>6. ASSUME NEW n \in Node, Unhandled(n) PROVE ConsumersInv'
    <2>1. pc[n] = "activate" /\ Advance(n, "activate") /\ UNCHANGED <<consumers, active>>
      BY <1>6 DEF Unhandled
    <2>2. /\ \A m \in Node \ {n} : pc'[m] = pc[m] /\ at'[m] = at[m]
      BY <2>1, AdvanceMoves DEF StagePlaces
    <2>3. Provides
      BY <2>1, <2>2 DEF Provides, Provisioned
    <2> QED BY <1>2, <2>1, <2>3
  <1>7. ASSUME NEW n \in Node, Start(n) \/ StreamRequired(n) \/ Fails(n) \/ Restart(n)
        PROVE  ConsumersInv'
    <2>1. PICK p \in {"stream", "failed", "down"} : pc' = [pc EXCEPT ![n] = p]
      BY <1>7 DEF Start, StreamRequired, Fails, Restart
    <2>2. /\ UNCHANGED active \/ active' = [active EXCEPT ![n] = {}]
          /\ UNCHANGED at \/ at' = [at EXCEPT ![n] = 1]
          /\ UNCHANGED consumers
      BY <1>7 DEF Start, StreamRequired, Fails, Restart
    <2>3. /\ pc'[n] = p /\ \A m \in Node : active'[m] \subseteq active[m]
          /\ \A m \in Node \ {n} : pc'[m] = pc[m] /\ at'[m] = at[m]
      BY <1>0, <2>1, <2>2 DEF StartupTypes
    <2>4. Provides
      BY <2>3 DEF Provides, Provisioned
    <2> QED BY <1>2, <2>2, <2>4
  <1>8. CASE UNCHANGED startupVars
    <2>1. Provides
      BY <1>8 DEF Provides, Provisioned, startupVars
    <2> QED BY <1>2, <1>8, <2>1 DEF startupVars
  <1> QED BY <1>3, <1>4, <1>5, <1>6, <1>7, <1>8 DEF StartupNext, Sends

(* A durable consumer delivers to a node just the subject of the node's     *)
(* task, unless tasks that share its name differ in their subjects, or a    *)
(* task whose name was made up does not filter by its own: a task that does *)
(* name its consumer is provisioned, with its subject, before it is pulled. *)
THEOREM StartupDeliversOwn == StartupSpec => []OwnSubjectsOnly
  <1>1. StartupInit => StartupInv /\ ConsumersInv
    <2>1. StartupInit => ConsumersInv
      BY DEF StartupInit, ConsumersInv, Provisioned, AllTasks
    <2> QED BY <2>1, StartupBegins
  <1>2. StartupInv /\ ConsumersInv /\ [StartupNext]_startupVars => (StartupInv /\ ConsumersInv)'
    BY StartupStep, ConsumersStep
  <1>3. StartupInv /\ ConsumersInv => OwnSubjectsOnly
    <2> SUFFICES ASSUME StartupInv, ConsumersInv, NEW n \in Node, NEW t \in active[n],
                        consumers[ConsumerOf(t)] # {t.subject}
                 PROVE  \E m \in Node : \E u \in Range(Tasks[m]) :
                          /\ ConsumerOf(u) = ConsumerOf(t)
                          /\ \/ u.subject # t.subject
                             \/ u.options.durable = <<>> /\ u.options.filter # u.subject
      BY DEF OwnSubjectsOnly
    <2>1. t \in AllTasks /\ consumers[ConsumerOf(t)] # {}
      BY DEF StartupInv, NodePlace, AllTasks, ConsumersInv
    <2>2. ~Alone(t)
      BY <2>1 DEF ConsumersInv
    <2> QED BY <2>2 DEF Alone
  <1> QED BY <1>1, <1>2, <1>3, PTL DEF StartupSpec
-----------------------------------------------------------------------------
(* The first tasks of a node.                                               *)
Upto(n, k) == {Tasks[n][i] : i \in 1..k}

LEMMA UptoNext ==
    ASSUME NEW n \in Node, NEW k \in 1..Len(Tasks[n])
    PROVE  /\ Upto(n, k - 1) \cup {Tasks[n][k]} = Upto(n, k)
           /\ Upto(n, Len(Tasks[n])) = Range(Tasks[n]) /\ Upto(n, 0) = {}
  <1>1. Len(Tasks[n]) \in Nat /\ DOMAIN Tasks[n] = 1..Len(Tasks[n])
    BY TasksOf
  <1>2. \A i \in 1..k : i \in 1..(k - 1) \/ i = k
    BY <1>1
  <1>3. \A i \in 1..(k - 1) : i \in 1..k
    BY <1>1
  <1>4. k \in 1..k /\ 1..0 = {}
    BY <1>1
  <1> QED BY <1>1, <1>2, <1>3, <1>4 DEF Upto, Range

(* register: the crons come up with the node, which has activated all tasks.*)
Registers(n) ==
    /\ crons[n] => pc[n] = "up"
    /\ pc[n] = "up" => active[n] = Range(Tasks[n])
    /\ pc[n] = "activate" => active[n] = Upto(n, at[n] - 1)

CronsInv == \A n \in Node : Entry[n] = "register" => Registers(n)

LEMMA CronsStep == StartupInv /\ CronsInv /\ [StartupNext]_startupVars => CronsInv'
  <1> SUFFICES ASSUME StartupInv, CronsInv, [StartupNext]_startupVars,
                      NEW n \in Node, Entry[n] = "register"
               PROVE  Registers(n)'
    BY DEF CronsInv
  <1>0. StartupTypes /\ NodePlace(n) /\ Registers(n)
    BY DEF StartupInv, CronsInv
  <1>i. ASSUME pc'[n] = pc[n], at'[n] = at[n], active'[n] = active[n], crons'[n] = crons[n]
        PROVE  Registers(n)'
    BY <1>0, <1>i DEF Registers
  <1>q. \A i : i \in 1..Len(Tasks[n]) => HasHandler(n, i)
    <2>1. Queues[n] = << >>
      BY StartupAssumption
    <2>2. Len(Queues[n]) = 0
      BY <2>1
    <2> QED BY <2>2, TasksOf DEF HasHandler
  <1>1. ASSUME NEW m \in Node, m # n,
               Start(m) \/ Sends(m) \/ Fails(m) \/ Restart(m)
        PROVE  Registers(n)'
    <2>1. ASSUME NEW stage \in {"stream", "consumer", "activate"},
                 pc[m] \in StagePlaces(stage), Advance(m, stage)
          PROVE  pc'[n] = pc[n] /\ at'[n] = at[n]
      BY <1>1, <2>1, AdvanceMoves
    <2>2. /\ pc'[n] = pc[n] /\ at'[n] = at[n]
      <3>1. CASE streamsInfo(m) \/ streamsUpdate(m) \/ streamsAdd(m)
        <4>1. pc[m] \in StagePlaces("stream")
          BY <3>1 DEF streamsInfo, streamsUpdate, streamsAdd, StagePlaces, Providing
        <4>2. CASE Advance(m, "stream")
          BY <2>1, <4>1, <4>2
        <4>3. CASE (\E p \in {"add", "merge", "failed"} : pc' = [pc EXCEPT ![m] = p]) /\ UNCHANGED at
          BY <1>0, <1>1, <4>3 DEF StartupTypes
        <4> QED BY <3>1, <4>2, <4>3 DEF streamsInfo, streamsUpdate, streamsAdd
      <3>2. CASE provisionConsumer(m)
        BY <2>1, <3>2 DEF provisionConsumer, StagePlaces
      <3>3. CASE createPullConsumer(m) \/ Unhandled(m)
        BY <2>1, <3>3 DEF createPullConsumer, Unhandled, StagePlaces
      <3>4. CASE Start(m) \/ StreamRequired(m) \/ Fails(m) \/ Restart(m)
        <4>1. (\E p \in {"stream", "failed", "down"} : pc' = [pc EXCEPT ![m] = p])
              /\ (UNCHANGED at \/ at' = [at EXCEPT ![m] = 1])
          BY <3>4 DEF Start, StreamRequired, Fails, Restart
        <4> QED BY <1>0, <1>1, <4>1 DEF StartupTypes
      <3> QED BY <1>1, <3>1, <3>2, <3>3, <3>4 DEF Sends
    <2>3. active'[n] = active[n]
      <3>1. \/ UNCHANGED active
            \/ \E S : active' = [active EXCEPT ![m] = S]
        BY <1>1 DEF Start, Sends, Fails, Restart, streamsInfo, streamsUpdate, streamsAdd,
                    provisionConsumer, createPullConsumer, Unhandled, StreamRequired
      <3> QED BY <1>0, <1>1, <3>1 DEF StartupTypes
    <2>4. crons'[n] = crons[n]
      <3>1. UNCHANGED crons \/ \E b : crons' = [crons EXCEPT ![m] = b]
        BY <1>1, Zenon DEF Start, Sends, Fails, Restart, streamsInfo, streamsUpdate, streamsAdd,
                    provisionConsumer, createPullConsumer, Unhandled, StreamRequired, Scheduled
      <3> QED BY <1>0, <1>1, <3>1 DEF StartupTypes
    <2> QED BY <1>i, <2>2, <2>3, <2>4
  <1>2. ASSUME Start(n) \/ StreamRequired(n) \/ Fails(n) \/ Restart(n) PROVE Registers(n)'
    <2>1. PICK p \in {"stream", "failed", "down"} : pc' = [pc EXCEPT ![n] = p]
      BY <1>2 DEF Start, StreamRequired, Fails, Restart
    <2>2. \/ UNCHANGED crons /\ pc[n] # "up"
          \/ \E b : crons' = [crons EXCEPT ![n] = b] /\ ~b
      <3>1. CASE Start(n)
        <4>1. crons' = [crons EXCEPT ![n] = Entry[n] = "bootstrap" /\ n \in HasCron]
          BY <3>1 DEF Start
        <4>2. Entry[n] # "bootstrap"
          OBVIOUS
        <4> QED BY <4>1, <4>2, Zenon
      <3>2. CASE StreamRequired(n) \/ Fails(n)
        BY <3>2 DEF StreamRequired, Fails
      <3>3. CASE Restart(n)
        BY <3>3, Zenon DEF Restart
      <3> QED BY <1>2, <3>1, <3>2, <3>3
    <2>3. ~crons'[n]
      <3>1. CASE UNCHANGED crons /\ pc[n] # "up"
        BY <1>0, <3>1 DEF Registers
      <3>2. CASE \E b : crons' = [crons EXCEPT ![n] = b] /\ ~b
        BY <1>0, <3>2, Zenon DEF StartupTypes
      <3> QED BY <2>2, <3>1, <3>2
    <2>4. pc'[n] = p
      BY <1>0, <2>1 DEF StartupTypes
    <2> QED BY <2>3, <2>4 DEF Registers
  <1>3. ASSUME streamsInfo(n) \/ streamsUpdate(n) \/ streamsAdd(n) PROVE Registers(n)'
    <2>1. pc[n] \in StagePlaces("stream") /\ pc[n] \in Providing /\ UNCHANGED crons
      BY <1>3 DEF streamsInfo, streamsUpdate, streamsAdd, StagePlaces, Providing
    <2>2. pc'[n] \in Providing \cup {"failed", "consumer"}
      <3>1. CASE Advance(n, "stream")
        BY <2>1, <3>1, AdvanceMoves DEF NextPlace, Providing
      <3>2. CASE \E p \in {"add", "merge", "failed"} : pc' = [pc EXCEPT ![n] = p]
        BY <1>0, <3>2 DEF StartupTypes, Providing
      <3> QED BY <1>3, <3>1, <3>2 DEF streamsInfo, streamsUpdate, streamsAdd
    <2>3. ~crons'[n]
      BY <1>0, <2>1 DEF Registers, Providing
    <2> QED BY <2>2, <2>3 DEF Registers, Providing
  <1>4. ASSUME provisionConsumer(n) PROVE Registers(n)'
    <2>1. pc[n] = "consumer" /\ Advance(n, "consumer") /\ UNCHANGED <<active, crons>>
      BY <1>4 DEF provisionConsumer
    <2>2. pc'[n] = "consumer" \/ (pc'[n] = "activate" /\ at'[n] = 1)
      BY <2>1, AdvanceMoves DEF StagePlaces, NextPlace
    <2>3. active[n] = {} /\ ~crons[n]
      BY <1>0, <2>1 DEF Registers, NodePlace
    <2>4. Upto(n, 1 - 1) = {}
      BY DEF Upto
    <2> QED BY <2>1, <2>2, <2>3, <2>4 DEF Registers
  <1>5. ASSUME createPullConsumer(n) PROVE Registers(n)'
    <2>1. pc[n] = "activate" /\ Advance(n, "activate") /\ Scheduled(n)
          /\ active' = [active EXCEPT ![n] = @ \cup {Task(n)}]
      BY <1>5 DEF createPullConsumer
    <2>2. /\ at[n] \in 1..Len(Tasks[n]) /\ Stage(n) = Len(Tasks[n]) /\ Len(Tasks[n]) \in Nat
          /\ \/ at[n] < Stage(n) /\ pc'[n] = "activate" /\ at'[n] = at[n] + 1
             \/ at[n] = Stage(n) /\ pc'[n] = "up"
      BY <2>1, AdvanceMoves, StageLength, TasksOf DEF StagePlaces, NextPlace, Providing
    <2>3. active'[n] = Upto(n, at[n])
      <3>1. active'[n] = active[n] \cup {Tasks[n][at[n]]}
        BY <1>0, <2>1 DEF StartupTypes, Task
      <3>2. active[n] = Upto(n, at[n] - 1)
        BY <1>0, <2>1 DEF Registers
      <3> QED BY <2>2, <3>1, <3>2, UptoNext
    <2>4. crons'[n] => pc'[n] = "up"
      <3>1. crons' = [crons EXCEPT ![n] = @ \/ (pc'[n] = "up" /\ n \in HasCron)]
        BY <2>1 DEF Scheduled
      <3>2. ~crons[n] /\ n \in DOMAIN crons
        BY <1>0, <2>1 DEF Registers, StartupTypes
      <3>3. crons'[n] = (crons[n] \/ (pc'[n] = "up" /\ n \in HasCron))
        BY <3>1, <3>2, Zenon
      <3> QED BY <3>2, <3>3, Zenon
    <2>5. CASE at[n] = Stage(n) /\ pc'[n] = "up"
      <3>1. active'[n] = Range(Tasks[n])
        BY <2>2, <2>3, <2>5, UptoNext
      <3> QED BY <2>4, <2>5, <3>1 DEF Registers
    <2>6. CASE pc'[n] = "activate" /\ at'[n] = at[n] + 1
      <3>1. at'[n] - 1 = at[n]
        BY <2>2, <2>6
      <3> QED BY <2>3, <2>4, <2>6, <3>1 DEF Registers
    <2> QED BY <2>2, <2>5, <2>6
  <1>6. ~Unhandled(n)
    <2>1. pc[n] = "activate" => at[n] \in 1..Len(Tasks[n])
      BY <1>0 DEF NodePlace
    <2> QED BY <1>q, <2>1 DEF Unhandled
  <1>7. CASE UNCHANGED startupVars
    BY <1>i, <1>7 DEF startupVars
  <1> QED BY <1>1, <1>2, <1>3, <1>4, <1>5, <1>6, <1>7 DEF StartupNext, Sends

(* NatsMQService.register lets no cron run on a node before every consumer  *)
(* of that node pulls messages, through failures and restarts.              *)
THEOREM StartupCronsLast == StartupSpec => []CronsLast
  <1>1. StartupInit => StartupInv /\ CronsInv
    <2>1. StartupInit => CronsInv
      BY DEF StartupInit, CronsInv, Registers
    <2> QED BY <2>1, StartupBegins
  <1>2. StartupInv /\ CronsInv /\ [StartupNext]_startupVars => (StartupInv /\ CronsInv)'
    BY StartupStep, CronsStep
  <1>3. CronsInv => CronsLast
    BY DEF CronsInv, Registers, CronsLast
  <1> QED BY <1>1, <1>2, <1>3, PTL DEF StartupSpec
=============================================================================
