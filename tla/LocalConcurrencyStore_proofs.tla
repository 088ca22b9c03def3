------------------- MODULE LocalConcurrencyStore_proofs --------------------
(***************************************************************************)
(* For every set of lock values, resources, limits and durations: the      *)
(* counter of the in-process store is the number of its entries, and an    *)
(* unexpired lock ends only through its owner, its ttl or close; as long   *)
(* as no extend arrives after the expiry, the store implements the         *)
(* semaphore of leases and so never exceeds a limit.                       *)
(***************************************************************************)
EXTENDS LocalConcurrencyStore, FiniteSetTheorems, TLAPS

SemaphoreFacts == INSTANCE LeaseSemaphore_proofs
                  WITH leases <- [v \in Lock |-> LeaseOf(v)]

(* Every operation keeps the types of the map, the counter and the flags.  *)
LEMMA LocalTyping == Spec => []TypeOK
<1>1. Init => TypeOK
  <2>1. Init => activeLocks \in [Lock -> Entry \cup {Absent}]
    BY Zenon DEF Init
  <2>2. Init => cleaning \in BOOLEAN
    BY Zenon DEF Init
  <2>3. Init => globalActiveCount \in Nat /\ held \in SUBSET Lock
    BY DEF Init
  <2>4. QED
    BY <2>1, <2>2, <2>3 DEF TypeOK
<1>2. TypeOK /\ [Next]_vars => TypeOK'
  <2> SUFFICES ASSUME TypeOK, [Next]_vars
               PROVE  TypeOK'
    OBVIOUS
  <2> USE LocalStoreAssumption DEF TypeOK
  <2>1. CASE onInit
    BY <2>1 DEF onInit
  <2>2. CASE close
    BY <2>2 DEF close, Delete
  <2>3. ASSUME NEW v \in Lock, NEW R \in Requests, NEW ttl \in 1..MaxTtl,
               acquire(v, R, ttl)
        PROVE  TypeOK'
    <3>1. [resources |-> R, left |-> ttl] \in Entry
      BY DEF Entry, Requests
    <3>2. QED
      BY <2>3, <3>1 DEF acquire
  <2>4. ASSUME NEW v \in Lock, release(v)
        PROVE  TypeOK'
    BY <2>4 DEF release, Delete, Max0
  <2>5. ASSUME NEW v \in Lock, NEW ttl \in 1..MaxTtl, extend(v, ttl)
        PROVE  TypeOK'
    <3>1. activeLocks[v] \in Entry
      BY <2>5 DEF extend, Present
    <3>2. [activeLocks[v] EXCEPT !.left = ttl] \in Entry
      BY <3>1 DEF Entry
    <3>3. QED
      BY <2>5, <3>2 DEF extend
  <2>6. CASE cleanup
    <3>1. IsFiniteSet(Expired)
      BY FS_Subset DEF Expired, Present
    <3>2. Cardinality(Expired) \in Nat
      BY <3>1, FS_CardinalityType
    <3>3. QED
      BY <2>6, <3>2 DEF cleanup, Delete, Max0
  <2>7. CASE Tick
    <3>1. ASSUME NEW v \in Lock, Live(v)
          PROVE  [activeLocks[v] EXCEPT !.left = @ - 1] \in Entry
      BY <3>1 DEF Live, Entry
    <3>2. QED
      BY <2>7, <3>1 DEF Tick
  <2>8. CASE UNCHANGED vars
    BY <2>8 DEF vars
  <2>9. QED
    BY <2>1, <2>2, <2>3, <2>4, <2>5, <2>6, <2>7, <2>8 DEF Next
<1>3. QED
  BY <1>1, <1>2, PTL DEF Spec
-----------------------------------------------------------------------------
(* Present and its subsets are finite.                                     *)
LEMMA PresentFinite ==
  ASSUME NEW S, S \subseteq Present
  PROVE  IsFiniteSet(S) /\ Cardinality(S) \in Nat
<1>1. S \subseteq Lock
  BY DEF Present
<1>2. QED
  BY <1>1, LocalStoreAssumption, FS_Subset, FS_CardinalityType

(* Deleting entries takes as many off the number of entries.               *)
LEMMA CardinalityDelete ==
  ASSUME NEW S, IsFiniteSet(S), NEW T, T \subseteq S
  PROVE  /\ Cardinality(S) \in Nat
         /\ Cardinality(T) \in Nat
         /\ Cardinality(S \ T) = Cardinality(S) - Cardinality(T)
         /\ Cardinality(T) <= Cardinality(S)
<1>1. Cardinality(S \ T) = Cardinality(S) - Cardinality(S \cap T)
  BY FS_Difference
<1>2. S \cap T = T
  OBVIOUS
<1>3. QED
  BY <1>1, <1>2, FS_Subset, FS_CardinalityType

(* The counter is the number of entries of the map.                        *)
THEOREM LocalCount == Spec => []CountMatches
<1>1. Init => CountMatches
  <2> SUFFICES ASSUME Init PROVE CountMatches
    OBVIOUS
  <2>1. Present = {}
    BY DEF Init, Present
  <2>2. QED
    BY <2>1, FS_EmptySet DEF Init, CountMatches
<1>2. TypeOK /\ CountMatches /\ [Next]_vars => CountMatches'
  <2> SUFFICES ASSUME TypeOK, CountMatches, [Next]_vars
               PROVE  CountMatches'
    OBVIOUS
  <2>fin. IsFiniteSet(Present) /\ Cardinality(Present) \in Nat
    BY PresentFinite
  <2>1. CASE onInit
    BY <2>1 DEF onInit, CountMatches, Present
  <2>2. CASE close
    <3>1. Present' = {}
      BY <2>2 DEF close, Delete, Present
    <3>2. QED
      BY <2>2, <3>1, FS_EmptySet DEF close, CountMatches
  <2>3. ASSUME NEW v \in Lock, NEW R \in Requests, NEW ttl \in 1..MaxTtl,
               acquire(v, R, ttl)
        PROVE  CountMatches'
    <3>1. [resources |-> R, left |-> ttl] # Absent
      BY LocalStoreAssumption DEF Entry, Requests
    <3>2. Present' = Present \cup {v}
      BY <2>3, <3>1 DEF acquire, Present, TypeOK
    <3>3. v \notin Present
      BY <2>3 DEF acquire
    <3>4. Cardinality(Present \cup {v}) = Cardinality(Present) + 1
      BY <2>fin, <3>3, FS_AddElement
    <3>5. QED
      BY <2>3, <3>2, <3>4 DEF acquire, CountMatches
  <2>4. ASSUME NEW v \in Lock, release(v)
        PROVE  CountMatches'
    <3>1. Present' = Present \ {v}
      BY <2>4 DEF release, Delete, Present
    <3>2. CASE v \in Present
      <4>1. Cardinality(Present \ {v}) = Cardinality(Present) - 1
        BY <2>fin, <3>2, FS_RemoveElement
      <4>2. Cardinality(Present \ {v}) \in Nat
        BY PresentFinite
      <4>3. QED
        BY <2>4, <2>fin, <3>1, <3>2, <4>1, <4>2 DEF release, CountMatches, Max0
    <3>3. CASE v \notin Present
      <4>1. Present' = Present
        BY <3>1, <3>3
      <4>2. QED
        BY <2>4, <3>3, <4>1 DEF release, CountMatches
    <3>4. QED
      BY <3>2, <3>3
  <2>5. ASSUME NEW v \in Lock, NEW ttl \in 1..MaxTtl, extend(v, ttl)
        PROVE  CountMatches'
    <3>1. activeLocks[v] \in Entry
      BY <2>5 DEF extend, Present, TypeOK
    <3>2. [activeLocks[v] EXCEPT !.left = ttl] # Absent
      BY <3>1, LocalStoreAssumption DEF Entry
    <3>3. Present' = Present
      BY <2>5, <3>2 DEF extend, Present, TypeOK
    <3>4. QED
      BY <2>5, <3>3 DEF extend, CountMatches
  <2>6. CASE cleanup
    <3>1. Expired \subseteq Present
      BY DEF Expired
    <3>2. Present' = Present \ Expired
      BY <2>6 DEF cleanup, Delete, Present
    <3>3. /\ Cardinality(Expired) \in Nat
          /\ Cardinality(Present \ Expired) = Cardinality(Present) - Cardinality(Expired)
          /\ Cardinality(Expired) <= Cardinality(Present)
      BY <2>fin, <3>1, CardinalityDelete
    <3>4. QED
      BY <2>6, <2>fin, <3>2, <3>3 DEF cleanup, CountMatches, Max0
  <2>7. CASE Tick
    <3>1. ASSUME NEW v \in Lock, Live(v)
          PROVE  [activeLocks[v] EXCEPT !.left = @ - 1] # Absent
      <4>1. activeLocks[v] \in Entry /\ activeLocks[v].left > 0
        BY <3>1 DEF Live, TypeOK
      <4>2. [activeLocks[v] EXCEPT !.left = @ - 1] \in Entry
        BY <4>1, LocalStoreAssumption DEF Entry
      <4>3. QED
        BY <4>2, LocalStoreAssumption
    <3>2. Present' = Present
      BY <2>7, <3>1 DEF Tick, Present, Live
    <3>3. QED
      BY <2>7, <3>2 DEF Tick, CountMatches
  <2>8. CASE UNCHANGED vars
    BY <2>8 DEF vars, CountMatches, Present
  <2>9. QED
    BY <2>1, <2>2, <2>3, <2>4, <2>5, <2>6, <2>7, <2>8 DEF Next
<1>3. QED
  BY <1>1, <1>2, LocalTyping, PTL DEF Spec
-----------------------------------------------------------------------------
(* The semaphore's Cardinality is the one used here.                       *)
LEMMA SameCardinality == \A S : Semaphore!Cardinality(S) = Cardinality(S)
BY DEF Semaphore!Cardinality, Cardinality

(* No lock with time left is on more resources than it was granted, and an *)
(* entry that is not live is no lease: the steps of the store are steps of *)
(* the semaphore.                                                          *)
LEMMA LocalStep ==
  ASSUME ~LateExtend, TypeOK, [Next]_vars
  PROVE  [Semaphore!Next]_[v \in Lock |-> LeaseOf(v)]
<1> DEFINE lease == [v \in Lock |-> LeaseOf(v)]
<1> SUFFICES Semaphore!Next \/ lease' = lease
  OBVIOUS
<1>holders. ASSUME NEW r \in Resource
            PROVE  Semaphore!Holders(r) = LiveOn(r)
  BY DEF Semaphore!Holders, LiveOn, LeaseOf
<1>end. ASSUME NEW S \in SUBSET Lock,
               \A v \in Lock : LeaseOf(v)' = IF v \in S THEN {} ELSE LeaseOf(v)
        PROVE  Semaphore!Next
  <2>1. Semaphore!End(S)
    BY <1>end DEF Semaphore!End
  <2>2. QED
    BY <2>1 DEF Semaphore!Next
<1>1. CASE onInit
  BY <1>1 DEF onInit, LeaseOf, Live
<1>2. CASE close
  <2>1. \A v \in Lock : LeaseOf(v)' = {}
    BY <1>2 DEF close, Delete, LeaseOf, Live, Present
  <2>2. QED
    BY <2>1, <1>end
<1>3. ASSUME NEW v \in Lock, NEW R \in Requests, NEW ttl \in 1..MaxTtl,
             acquire(v, R, ttl)
      PROVE  Semaphore!Next
  <2>1. R \in SUBSET Resource
    BY DEF Requests
  <2>2. lease[v] = {}
    BY <1>3 DEF acquire, Present, LeaseOf, Live
  <2>3. \A r \in R : Semaphore!Cardinality(Semaphore!Holders(r)) < Limit[r]
    BY <1>3, <1>holders, <2>1, SameCardinality DEF acquire, HasRoom
  <2>4. LeaseOf(v)' = R
    <3>1. activeLocks'[v] = [resources |-> R, left |-> ttl]
      BY <1>3 DEF acquire, TypeOK
    <3>2. [resources |-> R, left |-> ttl] \in Entry
      BY DEF Entry, Requests
    <3>3. QED
      BY <3>1, <3>2, LocalStoreAssumption DEF LeaseOf, Live
  <2>5. ASSUME NEW w \in Lock, w # v
        PROVE  LeaseOf(w)' = LeaseOf(w)
    BY <1>3, <2>5 DEF acquire, LeaseOf, Live, TypeOK
  <2>6. lease' = [lease EXCEPT ![v] = R]
    BY <2>4, <2>5
  <2>7. Semaphore!Grant(v, R)
    BY <2>2, <2>3, <2>6 DEF Semaphore!Grant
  <2>8. QED
    BY <2>1, <2>7 DEF Semaphore!Next
<1>4. ASSUME NEW v \in Lock, release(v)
      PROVE  Semaphore!Next
  <2>1. \A w \in Lock : LeaseOf(w)' = IF w \in {v} THEN {} ELSE LeaseOf(w)
    BY <1>4 DEF release, Delete, LeaseOf, Live
  <2>2. QED
    BY <2>1, <1>end
<1>5. ASSUME NEW v \in Lock, NEW ttl \in 1..MaxTtl, extend(v, ttl)
      PROVE  lease' = lease
  <2>1. Live(v) /\ activeLocks[v] \in Entry
    BY <1>5 DEF extend, Live, TypeOK
  <2>2. activeLocks'[v] = [activeLocks[v] EXCEPT !.left = ttl]
    BY <1>5 DEF extend, TypeOK
  <2>3. /\ activeLocks'[v] \in Entry
        /\ activeLocks'[v].left > 0
        /\ activeLocks'[v].resources = activeLocks[v].resources
    BY <2>1, <2>2 DEF Entry
  <2>4. LeaseOf(v)' = LeaseOf(v)
    BY <2>1, <2>3, LocalStoreAssumption DEF LeaseOf, Live
  <2>5. ASSUME NEW w \in Lock, w # v
        PROVE  LeaseOf(w)' = LeaseOf(w)
    BY <1>5, <2>5 DEF extend, LeaseOf, Live, TypeOK
  <2>6. QED
    BY <2>4, <2>5
<1>6. CASE cleanup
  <2>1. \A v \in Lock : LeaseOf(v)' = LeaseOf(v)
    <3> SUFFICES ASSUME NEW v \in Lock
                 PROVE  LeaseOf(v)' = LeaseOf(v)
      OBVIOUS
    <3>1. CASE v \in Expired
      BY <1>6, <3>1 DEF cleanup, Delete, Expired, LeaseOf, Live
    <3>2. CASE v \notin Expired
      BY <1>6, <3>2 DEF cleanup, Delete, LeaseOf, Live
    <3>3. QED
      BY <3>1, <3>2
  <2>2. QED
    BY <2>1
<1>7. CASE Tick
  <2> DEFINE S == {v \in Lock : Live(v) /\ activeLocks[v].left = 1}
  <2>1. ASSUME NEW v \in Lock
        PROVE  LeaseOf(v)' = IF v \in S THEN {} ELSE LeaseOf(v)
    <3>1. CASE ~Live(v)
      BY <1>7, <3>1 DEF Tick, LeaseOf, Live
    <3>2. CASE Live(v)
      <4>1. activeLocks[v] \in Entry /\ activeLocks[v].left > 0
        BY <3>2 DEF Live, TypeOK
      <4>2. activeLocks'[v] = [activeLocks[v] EXCEPT !.left = @ - 1]
        BY <1>7, <3>2 DEF Tick
      <4>3. /\ activeLocks'[v] \in Entry
            /\ activeLocks'[v].left = activeLocks[v].left - 1
            /\ activeLocks'[v].resources = activeLocks[v].resources
            /\ activeLocks[v].left \in Nat
        BY <4>1, <4>2, LocalStoreAssumption DEF Entry
      <4>4. activeLocks'[v] # Absent
        BY <4>3, LocalStoreAssumption
      <4>5. QED
        BY <3>2, <4>1, <4>3, <4>4 DEF LeaseOf, Live
    <3>3. QED
      BY <3>1, <3>2
  <2>2. S \in SUBSET Lock
    OBVIOUS
  <2>3. QED
    BY <2>1, <2>2, <1>end
<1>8. CASE UNCHANGED vars
  BY <1>8 DEF vars, LeaseOf, Live
<1>9. QED
  BY <1>1, <1>2, <1>3, <1>4, <1>5, <1>6, <1>7, <1>8 DEF Next

(* If no extend arrives after the expiry, the store implements the         *)
(* semaphore of leases.                                                    *)
THEOREM LocalImplementsSemaphore ==
  ASSUME ~LateExtend
  PROVE  Spec => ImplementsSemaphore
<1>1. Init => Semaphore!Init
  BY DEF Init, Semaphore!Init, LeaseOf, Live
<1>2. TypeOK /\ [Next]_vars => [Semaphore!Next]_[v \in Lock |-> LeaseOf(v)]
  BY LocalStep
<1>3. QED
  BY <1>1, <1>2, LocalTyping, PTL DEF Spec, ImplementsSemaphore, Semaphore!Spec

(* ... and therefore never has more unexpired locks on a resource than its *)
(* limit.                                                                  *)
THEOREM LocalLimit ==
  ASSUME ~LateExtend
  PROVE  Spec => []LimitRespected
<1>1. Semaphore!Spec => SemaphoreFacts!Spec
  <2>1. Semaphore!Init => SemaphoreFacts!Init
    BY DEF Semaphore!Init, SemaphoreFacts!Init
  <2>2. [Semaphore!Next]_[v \in Lock |-> LeaseOf(v)]
          => [SemaphoreFacts!Next]_[v \in Lock |-> LeaseOf(v)]
    BY DEF Semaphore!Next, Semaphore!Grant, Semaphore!End, Semaphore!Holders,
           SemaphoreFacts!Next, SemaphoreFacts!Grant, SemaphoreFacts!End,
           SemaphoreFacts!Holders, Semaphore!Cardinality, SemaphoreFacts!Cardinality
  <2>3. QED
    BY <2>1, <2>2, PTL DEF Semaphore!Spec, SemaphoreFacts!Spec
<1>2. SemaphoreFacts!SemaphoreConstants
  BY LocalStoreAssumption
     DEF SemaphoreFacts!SemaphoreConstants, SemaphoreFacts!IsFiniteSet, IsFiniteSet
<1>3. SemaphoreFacts!LimitRespected => LimitRespected
  <2>1. \A r \in Resource : SemaphoreFacts!Holders(r) = LiveOn(r)
    BY DEF SemaphoreFacts!Holders, LiveOn, LeaseOf
  <2>2. \A S : SemaphoreFacts!Cardinality(S) = Cardinality(S)
    BY DEF SemaphoreFacts!Cardinality, Cardinality
  <2>3. QED
    BY <2>1, <2>2 DEF SemaphoreFacts!LimitRespected, LimitRespected
<1>4. QED
  BY <1>1, <1>2, <1>3, LocalImplementsSemaphore, SemaphoreFacts!SemaphoreLimit, PTL
     DEF ImplementsSemaphore

(* Whatever the callers do, late extends included: an unexpired lock ends   *)
(* through its owner's release, its own ttl or close, and never through the *)
(* cleaner or another caller's call.                                        *)
THEOREM LocalOwnerEnds == Spec => OnlyOwnerEnds
<1>1. ASSUME TypeOK, [Next]_vars, NEW v \in Lock, Live(v), ~Live(v)'
      PROVE  \/ v \in held /\ release(v)
             \/ activeLocks[v].left = 1 /\ Tick
             \/ close
  <2> SUFFICES ASSUME ~(v \in held /\ release(v)), ~(activeLocks[v].left = 1 /\ Tick), ~close
               PROVE  FALSE
    OBVIOUS
  <2>0. /\ activeLocks[v] \in Entry /\ activeLocks[v].left > 0 /\ Absent \notin Entry
    BY <1>1, LocalStoreAssumption DEF TypeOK, Live
  <2>set. ASSUME NEW e \in Entry, e.left > 0, activeLocks'[v] = e
          PROVE  FALSE
    BY <1>1, <2>0, <2>set DEF Live
  <2>1. ASSUME NEW k \in Lock, NEW R \in Requests, NEW ttl \in 1..MaxTtl, acquire(k, R, ttl)
        PROVE  FALSE
    <3>1. activeLocks' = [activeLocks EXCEPT ![k] = [resources |-> R, left |-> ttl]] /\ k # v
      BY <2>0, <2>1, LocalStoreAssumption DEF acquire, Present
    <3>2. activeLocks'[v] = activeLocks[v]
      BY <1>1, <3>1 DEF TypeOK
    <3>3. QED
      BY <1>1, <3>2 DEF Live
  <2>2. ASSUME NEW k \in Lock, release(k)
        PROVE  FALSE
    <3>1. k \in held /\ k = v
      BY <1>1, <2>2 DEF release, Delete, Live
    <3>2. QED
      BY <2>2, <3>1
  <2>3. ASSUME NEW k \in Lock, NEW ttl \in 1..MaxTtl, extend(k, ttl)
        PROVE  FALSE
    <3>1. activeLocks' = [activeLocks EXCEPT ![k] = [@ EXCEPT !.left = ttl]]
      BY <2>3 DEF extend
    <3>2. CASE k = v
      <4>1. activeLocks'[v] = [activeLocks[v] EXCEPT !.left = ttl]
        BY <1>1, <3>1, <3>2 DEF TypeOK
      <4>2. /\ [activeLocks[v] EXCEPT !.left = ttl] \in Entry
            /\ [activeLocks[v] EXCEPT !.left = ttl].left = ttl
        BY <2>0, LocalStoreAssumption DEF Entry
      <4>3. ttl > 0
        OBVIOUS
      <4>4. QED
        BY <2>set, <4>1, <4>2, <4>3
    <3>3. CASE k # v
      BY <1>1, <3>1, <3>3 DEF TypeOK, Live
    <3>4. QED
      BY <3>2, <3>3
  <2>4. CASE onInit
    BY <1>1, <2>4 DEF onInit, Live
  <2>5. CASE cleanup
    <3>1. v \notin Expired
      BY <2>0 DEF Expired
    <3>2. QED
      BY <1>1, <2>5, <3>1 DEF cleanup, Delete, Live
  <2>6. CASE Tick
    <3>1. activeLocks'[v] = [activeLocks[v] EXCEPT !.left = @ - 1]
      BY <1>1, <2>6 DEF Tick
    <3>2. /\ activeLocks[v].left \in Nat
          /\ [activeLocks[v] EXCEPT !.left = @ - 1].left = activeLocks[v].left - 1
          /\ [activeLocks[v] EXCEPT !.left = @ - 1] \in Entry
      BY <2>0, LocalStoreAssumption DEF Entry
    <3>3. ~(activeLocks'[v].left > 0)
      BY <2>set, <3>1, <3>2
    <3>4. QED
      BY <2>0, <2>6, <3>1, <3>2, <3>3
  <2>7. CASE UNCHANGED vars
    BY <1>1, <2>7 DEF vars, Live
  <2>8. QED
    BY <1>1, <2>1, <2>2, <2>3, <2>4, <2>5, <2>6, <2>7 DEF Next
<1>2. TypeOK /\ [Next]_vars =>
        [\A v \in Lock :
           Live(v) /\ ~Live(v)' => \/ v \in held /\ release(v)
                                   \/ activeLocks[v].left = 1 /\ Tick
                                   \/ close]_vars
  BY <1>1
<1>3. QED
  BY <1>2, LocalTyping, PTL DEF Spec, OnlyOwnerEnds
=============================================================================
