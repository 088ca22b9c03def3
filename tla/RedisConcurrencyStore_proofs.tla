------------------- MODULE RedisConcurrencyStore_proofs --------------------
(***************************************************************************)
(* For every set of lock ids, subjects, limits and durations, with         *)
(* replies and callers lost at any point: as long as no extend arrives     *)
(* after the expiry, the Redis store implements the semaphore of leases    *)
(* and so never exceeds a limit.  Late extends or not, an unexpired lock   *)
(* ends only through its owner or its ttl.                                 *)
(***************************************************************************)
EXTENDS RedisConcurrencyStore, FiniteSetTheorems, TLAPS

SemaphoreFacts == INSTANCE LeaseSemaphore_proofs
                  WITH leases <- [l \in Lock |-> LeaseOf(l)]

(* A member's record is no Absent, and has the fields it was given.         *)
LEMMA MemberFacts ==
  ASSUME NEW r \in Resource, NEW ttl \in 1..MaxTtl
  PROVE  [key |-> r, left |-> ttl] \in Member
BY DEF Member

(* Counting down keeps a live member a member of the same subject.          *)
LEMMA CountDown ==
  ASSUME NEW l \in Lock, TypeOK, Live(l)
  PROVE  /\ [zset[l] EXCEPT !.left = @ - 1] \in Member
         /\ [zset[l] EXCEPT !.left = @ - 1].key = zset[l].key
         /\ [zset[l] EXCEPT !.left = @ - 1].left = zset[l].left - 1
         /\ zset[l].left \in Nat \ {0}
<1>1. zset[l] \in Member /\ zset[l].left > 0
  BY DEF TypeOK, Live
<1>2. QED
  BY <1>1, RedisStoreAssumption DEF Member

(* What the purge of a set leaves: the other members, and none expired in it. *)
LEMMA PurgeFacts ==
  ASSUME TypeOK, NEW r \in Resource
  PROVE  /\ Purged(r) \in [Lock -> Member \cup {Absent}]
         /\ \A l \in Lock : Live(l) => Purged(r)[l] = zset[l]
         /\ \A l \in Lock : Purged(r)[l] \in {Absent, zset[l]}
<1>1. Purged(r) \in [Lock -> Member \cup {Absent}]
  BY DEF Purged, TypeOK
<1>2. \A l \in Lock : Live(l) => Purged(r)[l] = zset[l]
  BY DEF Purged, LiveOn, InSet
<1>3. \A l \in Lock : Purged(r)[l] \in {Absent, zset[l]}
  BY DEF Purged
<1>4. QED
  BY <1>1, <1>2, <1>3

(* The scripts and the passing of time keep the types of members and handles. *)
LEMMA RedisTyping == Spec => []TypeOK
<1>1. Init => TypeOK
  BY DEF Init, TypeOK
<1>2. TypeOK /\ [Next]_vars => TypeOK'
  <2> SUFFICES ASSUME TypeOK, [Next]_vars
               PROVE  TypeOK'
    OBVIOUS
  <2>add. ASSUME NEW l \in Lock, NEW r \in Resource, NEW ttl \in 1..MaxTtl,
                 NEW limit, ScriptAdds(l, r, ttl, limit)
          PROVE  zset' \in [Lock -> Member \cup {Absent}]
    BY <2>add, MemberFacts, PurgeFacts DEF ScriptAdds
  <2>1. ASSUME NEW l \in Lock, NEW r \in Resource, NEW ttl \in 1..MaxTtl,
               acquire(l, r, ttl)
        PROVE  TypeOK'
    BY <2>1, <2>add DEF acquire, TypeOK
  <2>2. ASSUME NEW l \in Lock, NEW r \in Resource, NEW ttl \in 1..MaxTtl,
               acquireReplyLost(l, r, ttl)
        PROVE  TypeOK'
    BY <2>2, <2>add DEF acquireReplyLost, TypeOK
  <2>3. ASSUME NEW r \in Resource, acquireRefused(r)
        PROVE  TypeOK'
    BY <2>3, PurgeFacts DEF acquireRefused, ScriptRefuses, TypeOK
  <2>4. ASSUME NEW l \in Lock, release(l)
        PROVE  TypeOK'
    BY <2>4 DEF release, TypeOK
  <2>5. ASSUME NEW l \in Lock, abandon(l)
        PROVE  TypeOK'
    BY <2>5 DEF abandon, TypeOK
  <2>6. ASSUME NEW l \in Lock, NEW ttl \in 1..MaxTtl, extend(l, ttl)
        PROVE  TypeOK'
    <3>1. handle[l] \in Resource
      BY <2>6 DEF extend, TypeOK
    <3>2. QED
      BY <2>6, <2>add, <3>1 DEF extend, TypeOK
  <2>7. CASE Tick
    <3>1. ASSUME NEW l \in Lock
          PROVE  (IF Live(l) THEN [zset[l] EXCEPT !.left = @ - 1] ELSE zset[l])
                   \in Member \cup {Absent}
      <4>1. CASE Live(l)
        BY <4>1, CountDown
      <4>2. CASE ~Live(l)
        BY <4>2 DEF TypeOK
      <4>3. QED
        BY <4>1, <4>2
    <3>2. QED
      BY <2>7, <3>1 DEF Tick, TypeOK
  <2>8. CASE UNCHANGED vars
    BY <2>8 DEF vars, TypeOK
  <2>9. QED
    BY <2>1, <2>2, <2>3, <2>4, <2>5, <2>6, <2>7, <2>8 DEF Next
<1>3. QED
  BY <1>1, <1>2, PTL DEF Spec

(* A lock object and its member name the same subject: what makes extend   *)
(* and release reach the member that acquire added.                        *)
LEMMA RedisHandles == Spec => []HandleMatches
<1>1. Init => HandleMatches
  BY DEF Init, HandleMatches
<1>2. TypeOK /\ HandleMatches /\ [Next]_vars => HandleMatches'
  <2> SUFFICES ASSUME TypeOK, HandleMatches, [Next]_vars, NEW l \in Lock,
                      handle'[l] # Absent, zset'[l] # Absent
               PROVE  zset'[l].key = handle'[l]
    BY DEF HandleMatches
  <2>add. ASSUME NEW k \in Lock, NEW r \in Resource, NEW ttl \in 1..MaxTtl,
                 NEW limit, ScriptAdds(k, r, ttl, limit)
          PROVE  IF l = k THEN zset'[l].key = r ELSE zset'[l] \in {Absent, zset[l]}
    <3>1. zset' = [Purged(r) EXCEPT ![k] = [key |-> r, left |-> ttl]]
      BY <2>add DEF ScriptAdds
    <3>2. QED
      BY <3>1, PurgeFacts
  <2>1. ASSUME NEW k \in Lock, NEW r \in Resource, NEW ttl \in 1..MaxTtl,
               acquire(k, r, ttl)
        PROVE  zset'[l].key = handle'[l]
    BY <2>1, <2>add DEF acquire, HandleMatches, TypeOK
  <2>2. ASSUME NEW k \in Lock, NEW r \in Resource, NEW ttl \in 1..MaxTtl,
               acquireReplyLost(k, r, ttl)
        PROVE  zset'[l].key = handle'[l]
    BY <2>2, <2>add DEF acquireReplyLost, Fresh, HandleMatches, TypeOK
  <2>3. ASSUME NEW r \in Resource, acquireRefused(r)
        PROVE  zset'[l].key = handle'[l]
    BY <2>3, PurgeFacts DEF acquireRefused, ScriptRefuses, HandleMatches
  <2>4. ASSUME NEW k \in Lock, release(k)
        PROVE  zset'[l].key = handle'[l]
    BY <2>4 DEF release, HandleMatches, TypeOK
  <2>5. ASSUME NEW k \in Lock, abandon(k)
        PROVE  zset'[l].key = handle'[l]
    BY <2>5 DEF abandon, HandleMatches, TypeOK
  <2>6. ASSUME NEW k \in Lock, NEW ttl \in 1..MaxTtl, extend(k, ttl)
        PROVE  zset'[l].key = handle'[l]
    <3>1. handle[k] \in Resource
      BY <2>6 DEF extend, TypeOK
    <3>2. QED
      BY <2>6, <2>add, <3>1 DEF extend, HandleMatches
  <2>7. CASE Tick
    <3>1. CASE Live(l)
      BY <2>7, <3>1, CountDown DEF Tick, HandleMatches, Live
    <3>2. CASE ~Live(l)
      BY <2>7, <3>2 DEF Tick, HandleMatches
    <3>3. QED
      BY <3>1, <3>2
  <2>8. CASE UNCHANGED vars
    BY <2>8 DEF vars, HandleMatches
  <2>9. QED
    BY <2>1, <2>2, <2>3, <2>4, <2>5, <2>6, <2>7, <2>8 DEF Next
<1>3. QED
  BY <1>1, <1>2, RedisTyping, PTL DEF Spec
-----------------------------------------------------------------------------
(* The semaphore's Cardinality is the one used here.                       *)
LEMMA SameCardinality == \A S : Semaphore!Cardinality(S) = Cardinality(S)
BY DEF Semaphore!Cardinality, Cardinality

(* The steps of the store are steps of the semaphore: a purge takes no     *)
(* lease away, and the extension of a live lock leaves it on its subject.  *)
LEMMA RedisStep ==
  ASSUME ~LateExtend, TypeOK, HandleMatches, [Next]_vars
  PROVE  [Semaphore!Next]_[l \in Lock |-> LeaseOf(l)]
<1> DEFINE lease == [l \in Lock |-> LeaseOf(l)]
<1> SUFFICES Semaphore!Next \/ lease' = lease
  OBVIOUS
<1>end. ASSUME NEW S \in SUBSET Lock,
               \A l \in Lock : LeaseOf(l)' = IF l \in S THEN {} ELSE LeaseOf(l)
        PROVE  Semaphore!Next
  <2>1. Semaphore!End(S)
    BY <1>end DEF Semaphore!End
  <2>2. QED
    BY <2>1 DEF Semaphore!Next
<1>add. ASSUME NEW k \in Lock, NEW r \in Resource, NEW ttl \in 1..MaxTtl,
               NEW limit, ScriptAdds(k, r, ttl, limit)
        PROVE  /\ LeaseOf(k)' = {r}
               /\ \A l \in Lock : l # k => LeaseOf(l)' = LeaseOf(l)
  <2>1. zset' = [Purged(r) EXCEPT ![k] = [key |-> r, left |-> ttl]]
    BY <1>add DEF ScriptAdds
  <2>2. zset'[k] = [key |-> r, left |-> ttl] /\ zset'[k] # Absent
    BY <2>1, PurgeFacts, MemberFacts, RedisStoreAssumption
  <2>3. LeaseOf(k)' = {r}
    BY <2>2 DEF LeaseOf, Live
  <2>4. ASSUME NEW l \in Lock, l # k
        PROVE  LeaseOf(l)' = LeaseOf(l)
    <3>1. zset'[l] = Purged(r)[l]
      BY <2>1, <2>4, PurgeFacts
    <3>2. QED
      BY <3>1, PurgeFacts DEF LeaseOf, Live
  <2>5. QED
    BY <2>3, <2>4
<1>grant. ASSUME NEW k \in Lock, NEW r \in Resource, NEW ttl \in 1..MaxTtl,
                 Fresh(k), ScriptAdds(k, r, ttl, Limit[r])
          PROVE  Semaphore!Next
  <2>1. lease[k] = {}
    BY <1>grant DEF Fresh, LeaseOf, Live
  <2>2. Semaphore!Holders(r) = LiveOn(r)
    BY DEF Semaphore!Holders, LiveOn, LeaseOf
  <2>3. \A q \in {r} : Semaphore!Cardinality(Semaphore!Holders(q)) < Limit[q]
    BY <1>grant, <2>2, SameCardinality DEF ScriptAdds, HasRoom
  <2>4. lease' = [lease EXCEPT ![k] = {r}]
    BY <1>grant, <1>add
  <2>5. Semaphore!Grant(k, {r})
    BY <2>1, <2>3, <2>4 DEF Semaphore!Grant
  <2>6. QED
    BY <2>5 DEF Semaphore!Next
<1>1. ASSUME NEW k \in Lock, NEW r \in Resource, NEW ttl \in 1..MaxTtl,
             acquire(k, r, ttl) \/ acquireReplyLost(k, r, ttl)
      PROVE  Semaphore!Next
  BY <1>1, <1>grant DEF acquire, acquireReplyLost
<1>2. ASSUME NEW r \in Resource, acquireRefused(r)
      PROVE  lease' = lease
  <2>1. ASSUME NEW l \in Lock
        PROVE  LeaseOf(l)' = LeaseOf(l)
    BY <1>2, PurgeFacts DEF acquireRefused, ScriptRefuses, LeaseOf, Live
  <2>2. QED
    BY <2>1
<1>3. ASSUME NEW k \in Lock, release(k)
      PROVE  Semaphore!Next
  <2>1. \A l \in Lock : LeaseOf(l)' = IF l \in {k} THEN {} ELSE LeaseOf(l)
    BY <1>3 DEF release, LeaseOf, Live, TypeOK
  <2>2. QED
    BY <2>1, <1>end
<1>4. ASSUME NEW k \in Lock, abandon(k)
      PROVE  lease' = lease
  BY <1>4 DEF abandon, LeaseOf, Live
<1>5. ASSUME NEW k \in Lock, NEW ttl \in 1..MaxTtl, extend(k, ttl)
      PROVE  lease' = lease
  <2>1. Live(k) /\ handle[k] \in Resource /\ handle[k] # Absent
    BY <1>5 DEF extend, TypeOK
  <2>2. zset[k].key = handle[k]
    BY <2>1 DEF HandleMatches, Live
  <2>3. LeaseOf(k) = {handle[k]}
    BY <2>1, <2>2 DEF LeaseOf
  <2>4. ScriptAdds(k, handle[k], ttl, ExtendLimit)
    BY <1>5 DEF extend
  <2>5. \A l \in Lock : LeaseOf(l)' = LeaseOf(l)
    BY <1>add, <2>1, <2>3, <2>4
  <2>6. QED
    BY <2>5
<1>6. CASE Tick
  <2> DEFINE S == {l \in Lock : Live(l) /\ zset[l].left = 1}
  <2>1. ASSUME NEW l \in Lock
        PROVE  LeaseOf(l)' = IF l \in S THEN {} ELSE LeaseOf(l)
    <3>1. CASE ~Live(l)
      BY <1>6, <3>1 DEF Tick, LeaseOf, Live
    <3>2. CASE Live(l)
      <4>1. zset'[l] = [zset[l] EXCEPT !.left = @ - 1]
        BY <1>6, <3>2 DEF Tick
      <4>2. /\ zset'[l] # Absent
            /\ zset'[l].key = zset[l].key
            /\ zset'[l].left = zset[l].left - 1
            /\ zset[l].left \in Nat \ {0}
        BY <3>2, <4>1, CountDown, RedisStoreAssumption
      <4>3. QED
        BY <3>2, <4>2 DEF LeaseOf, Live
    <3>3. QED
      BY <3>1, <3>2
  <2>2. S \in SUBSET Lock
    OBVIOUS
  <2>3. QED
    BY <2>1, <2>2, <1>end
<1>7. CASE UNCHANGED vars
  BY <1>7 DEF vars, LeaseOf, Live
<1>8. QED
  BY <1>1, <1>2, <1>3, <1>4, <1>5, <1>6, <1>7 DEF Next

(* If no extend arrives after the expiry, the store implements the         *)
(* semaphore of leases.                                                    *)
THEOREM RedisImplementsSemaphore ==
  ASSUME ~LateExtend
  PROVE  Spec => ImplementsSemaphore
<1>1. Init => Semaphore!Init
  BY DEF Init, Semaphore!Init, LeaseOf, Live
<1>2. TypeOK /\ HandleMatches /\ [Next]_vars
        => [Semaphore!Next]_[l \in Lock |-> LeaseOf(l)]
  BY RedisStep
<1>3. QED
  BY <1>1, <1>2, RedisTyping, RedisHandles, PTL
     DEF Spec, ImplementsSemaphore, Semaphore!Spec

(* ... and therefore never has more unexpired locks on a subject than its  *)
(* limit, whatever replies and callers were lost.                          *)
THEOREM RedisLimit ==
  ASSUME ~LateExtend
  PROVE  Spec => []LimitRespected
<1>1. Semaphore!Spec => SemaphoreFacts!Spec
  <2>1. Semaphore!Init => SemaphoreFacts!Init
    BY DEF Semaphore!Init, SemaphoreFacts!Init
  <2>2. [Semaphore!Next]_[l \in Lock |-> LeaseOf(l)]
          => [SemaphoreFacts!Next]_[l \in Lock |-> LeaseOf(l)]
    BY DEF Semaphore!Next, Semaphore!Grant, Semaphore!End, Semaphore!Holders,
           SemaphoreFacts!Next, SemaphoreFacts!Grant, SemaphoreFacts!End,
           SemaphoreFacts!Holders, Semaphore!Cardinality, SemaphoreFacts!Cardinality
  <2>3. QED
    BY <2>1, <2>2, PTL DEF Semaphore!Spec, SemaphoreFacts!Spec
<1>2. SemaphoreFacts!SemaphoreConstants
  BY RedisStoreAssumption
     DEF SemaphoreFacts!SemaphoreConstants, SemaphoreFacts!IsFiniteSet, IsFiniteSet
<1>3. SemaphoreFacts!LimitRespected => LimitRespected
  <2>1. \A r \in Resource : SemaphoreFacts!Holders(r) = LiveOn(r)
    BY DEF SemaphoreFacts!Holders, LiveOn, LeaseOf
  <2>2. \A S : SemaphoreFacts!Cardinality(S) = Cardinality(S)
    BY DEF SemaphoreFacts!Cardinality, Cardinality
  <2>3. QED
    BY <2>1, <2>2 DEF SemaphoreFacts!LimitRespected, LimitRespected
<1>4. QED
  BY <1>1, <1>2, <1>3, RedisImplementsSemaphore, SemaphoreFacts!SemaphoreLimit, PTL
     DEF ImplementsSemaphore

(* Whatever the callers do, late extends included: an unexpired lock ends   *)
(* through its owner's release or its own ttl, and never through a purge,   *)
(* a refusal or another caller's call.                                      *)
THEOREM RedisOwnerEnds == Spec => OnlyOwnerEnds
<1>1. ASSUME TypeOK, [Next]_vars, NEW l \in Lock, Live(l), ~Live(l)'
      PROVE  \/ handle[l] # Absent /\ release(l)
             \/ zset[l].left = 1 /\ Tick
  <2> SUFFICES ASSUME ~(handle[l] # Absent /\ release(l)), ~(zset[l].left = 1 /\ Tick)
               PROVE  FALSE
    OBVIOUS
  <2>add. ASSUME NEW k \in Lock, NEW r \in Resource, NEW ttl \in 1..MaxTtl,
                 NEW limit, ScriptAdds(k, r, ttl, limit)
          PROVE  FALSE
    <3>1. zset' = [Purged(r) EXCEPT ![k] = [key |-> r, left |-> ttl]]
      BY <2>add DEF ScriptAdds
    <3>2. Purged(r) \in [Lock -> Member \cup {Absent}] /\ Purged(r)[l] = zset[l]
      BY <1>1, PurgeFacts
    <3>3. [key |-> r, left |-> ttl] \in Member /\ [key |-> r, left |-> ttl].left = ttl
      BY MemberFacts
    <3>4. CASE l = k
      <4>1. zset'[l] = [key |-> r, left |-> ttl]
        BY <3>1, <3>2, <3>4
      <4>2. zset'[l] # Absent /\ zset'[l].left > 0
        BY <3>3, <4>1, RedisStoreAssumption
      <4>3. QED
        BY <1>1, <4>2 DEF Live
    <3>5. CASE l # k
      BY <1>1, <3>1, <3>2, <3>5 DEF Live
    <3>6. QED
      BY <3>4, <3>5
  <2>1. ASSUME NEW k \in Lock, NEW r \in Resource, NEW ttl \in 1..MaxTtl,
               acquire(k, r, ttl) \/ acquireReplyLost(k, r, ttl)
        PROVE  FALSE
    BY <2>1, <2>add DEF acquire, acquireReplyLost
  <2>2. ASSUME NEW r \in Resource, acquireRefused(r)
        PROVE  FALSE
    BY <1>1, <2>2, PurgeFacts DEF acquireRefused, ScriptRefuses, Live
  <2>3. ASSUME NEW k \in Lock, release(k)
        PROVE  FALSE
    <3>1. zset' = [zset EXCEPT ![k] = Absent] /\ handle[k] # Absent
      BY <2>3 DEF release
    <3>2. k = l
      BY <1>1, <3>1 DEF Live, TypeOK
    <3>3. QED
      BY <2>3, <3>1, <3>2
  <2>4. ASSUME NEW k \in Lock, abandon(k)
        PROVE  FALSE
    BY <1>1, <2>4 DEF abandon, Live
  <2>5. ASSUME NEW k \in Lock, NEW ttl \in 1..MaxTtl, extend(k, ttl)
        PROVE  FALSE
    BY <1>1, <2>5, <2>add DEF extend, TypeOK
  <2>6. CASE Tick
    <3>1. zset'[l] = [zset[l] EXCEPT !.left = @ - 1]
      BY <1>1, <2>6 DEF Tick
    <3>2. /\ zset'[l] \in Member /\ zset'[l].left = zset[l].left - 1
          /\ zset[l].left \in Nat \ {0}
      BY <1>1, <3>1, CountDown
    <3>3. ~(zset'[l].left > 0)
      BY <1>1, <3>2, RedisStoreAssumption DEF Live
    <3>4. QED
      BY <2>6, <3>2, <3>3
  <2>7. CASE UNCHANGED vars
    BY <1>1, <2>7 DEF vars, Live
  <2>8. QED
    BY <1>1, <2>1, <2>2, <2>3, <2>4, <2>5, <2>6, <2>7 DEF Next
<1>2. TypeOK /\ [Next]_vars =>
        [\A l \in Lock :
           Live(l) /\ ~Live(l)' => \/ handle[l] # Absent /\ release(l)
                                   \/ zset[l].left = 1 /\ Tick]_vars
  BY <1>1
<1>3. QED
  BY <1>2, RedisTyping, PTL DEF Spec, OnlyOwnerEnds
=============================================================================
