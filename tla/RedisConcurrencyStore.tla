---------------------- MODULE RedisConcurrencyStore -----------------------
(***************************************************************************)
(* The Redis concurrency store (natsmq/store/redis-store.ts), shared by    *)
(* every node of the cluster.  Each Lua script is one atomic step of the   *)
(* Redis server; between a script and its caller the reply, the command or *)
(* the caller itself can be lost.                                          *)
(*                                                                         *)
(* A sorted set per resource maps a lock id to the instant it expires.  As *)
(* in LocalConcurrencyStore the model keeps the time that is left: the     *)
(* members ZREMRANGEBYSCORE -inf now removes have none.  Only resources[0] *)
(* of a request reaches Redis, so a request here is one resource.          *)
(***************************************************************************)
EXTENDS Integers, FiniteSets

CONSTANTS Lock,        (* lock ids (randomUUID)                              *)
          Resource,    (* the subjects locks are taken on                    *)
          Limit,       (* the limit the callers of each subject pass         *)
          MaxTtl,      (* the longest duration a caller asks for             *)
          LateExtend,  (* may a call of extend arrive after the expiry?      *)
          Absent       (* no member, no lock object                          *)

Member == [key : Resource, left : 0..MaxTtl]

ASSUME RedisStoreAssumption ==
       /\ IsFiniteSet(Lock)
       /\ Limit \in [Resource -> Nat \ {0}]
       /\ MaxTtl \in Nat \ {0}
       /\ LateExtend \in BOOLEAN
       /\ Absent \notin Member
       /\ Absent \notin Resource

VARIABLES zset,    (* the member each lock id is, in the set of its subject   *)
          handle   (* the subject of the RedisLock a caller holds, or Absent  *)

vars == <<zset, handle>>

Live(l) == zset[l] # Absent /\ zset[l].left > 0
LiveOn(r) == {l \in Lock : Live(l) /\ zset[l].key = r}

(* ZRANGE of the subject's set: its members, expired or not.                *)
InSet(r) == {l \in Lock : zset[l] # Absent /\ zset[l].key = r}

(* getActiveCount and getGlobalActiveCount: ZCARD purges nothing.           *)
getActiveCount(r) == Cardinality(InSet(r))
getGlobalActiveCount == Cardinality({l \in Lock : zset[l] # Absent})

(* Faulty: removes members that have a unit of time left.                   *)
PurgedEarly(r) ==
    [l \in Lock |-> IF l \in InSet(r) /\ zset[l].left <= 1 THEN Absent ELSE zset[l]]

(* ZREMRANGEBYSCORE key -inf now.                                           *)
Purged(r) == [l \in Lock |-> IF l \in InSet(r) \ LiveOn(r) THEN Absent ELSE zset[l]]
-----------------------------------------------------------------------------
Init == /\ zset = [l \in Lock |-> Absent]
        /\ handle = [l \in Lock |-> Absent]

Fresh(l) == zset[l] = Absent /\ handle[l] = Absent

(* Faulty: the limit itself is still let in.                                *)
HasRoomOffByOne(r, limit) == Cardinality(LiveOn(r)) <= limit

(* ZCARD < limit, read after the purge.                                     *)
HasRoom(r, limit) == Cardinality(LiveOn(r)) < limit

(* The natsmq_acquire script for lock l: purge, compare, ZADD.              *)
ScriptAdds(l, r, ttl, limit) ==
    /\ HasRoom(r, limit)
    /\ zset' = [Purged(r) EXCEPT ![l] = [key |-> r, left |-> ttl]]

(* Faulty: a refused caller renews the members it found.                    *)
ScriptRefusesAndRenews(r, limit) ==
    /\ ~HasRoom(r, limit)
    /\ zset' = [l \in Lock |-> IF l \in LiveOn(r) THEN [zset[l] EXCEPT !.left = MaxTtl]
                                                  ELSE zset[l]]

ScriptRefuses(r, limit) ==
    /\ ~HasRoom(r, limit)
    /\ zset' = Purged(r)

acquire(l, r, ttl) ==
    /\ Fresh(l)
    /\ ScriptAdds(l, r, ttl, Limit[r])
    /\ handle' = [handle EXCEPT ![l] = r]

acquireRefused(r) == ScriptRefuses(r, Limit[r]) /\ UNCHANGED handle

(* The script ran, its reply was lost: acquire throws, and nobody has the   *)
(* lock object with which to release the member.                            *)
acquireReplyLost(l, r, ttl) ==
    /\ Fresh(l)
    /\ ScriptAdds(l, r, ttl, Limit[r])
    /\ UNCHANGED handle

(* ZREM; a caller may release again.                                        *)
release(l) ==
    /\ handle[l] # Absent
    /\ zset' = [zset EXCEPT ![l] = Absent]
    /\ handle' \in {handle, [handle EXCEPT ![l] = Absent]}

(* The command never reached Redis, or the caller died: the member stays.   *)
abandon(l) ==
    /\ handle[l] # Absent
    /\ handle' = [handle EXCEPT ![l] = Absent]
    /\ UNCHANGED zset

(* The limit extend passes to the acquire script; sets that large, where    *)
(* extend would throw, are left out.                                        *)
ExtendLimit == 999999

(* extend runs the acquire script with a limit nothing reaches: a member    *)
(* that expired, or was purged, is added again.                             *)
extend(l, ttl) ==
    /\ handle[l] # Absent
    /\ LateExtend \/ Live(l)
    /\ ScriptAdds(l, handle[l], ttl, ExtendLimit)
    /\ UNCHANGED handle

Tick == /\ zset' = [l \in Lock |->
               IF Live(l) THEN [zset[l] EXCEPT !.left = @ - 1] ELSE zset[l]]
        /\ UNCHANGED handle

Next == \/ \E l \in Lock, r \in Resource, ttl \in 1..MaxTtl :
              acquire(l, r, ttl) \/ acquireReplyLost(l, r, ttl)
        \/ \E r \in Resource : acquireRefused(r)
        \/ \E l \in Lock : release(l) \/ abandon(l)
        \/ \E l \in Lock, ttl \in 1..MaxTtl : extend(l, ttl)
        \/ Tick

(* Time passes; nothing else is certain to happen.                          *)
Spec == Init /\ [][Next]_vars /\ WF_vars(Tick)
-----------------------------------------------------------------------------
TypeOK == /\ zset \in [Lock -> Member \cup {Absent}]
          /\ handle \in [Lock -> Resource \cup {Absent}]

(* No subject is under more unexpired locks than its limit, replies and     *)
(* callers lost at any point included.                                      *)
LimitRespected == \A r \in Resource : Cardinality(LiveOn(r)) <= Limit[r]

(* A lock object whose member was not released or extended elsewhere is for *)
(* the same subject as the member: extend and release address one set.      *)
HandleMatches == \A l \in Lock :
    handle[l] # Absent /\ zset[l] # Absent => zset[l].key = handle[l]

(* An unexpired lock ends only through its owner's release or its own ttl:  *)
(* a purge made for another caller, or a refused acquire, never removes it. *)
OnlyOwnerEnds ==
    [][\A l \in Lock :
          Live(l) /\ ~Live(l)' => \/ handle[l] # Absent /\ release(l)
                                  \/ zset[l].left = 1 /\ Tick]_vars

(* A lock nobody can release any more (a lost reply, a dead owner) does not *)
(* hold its slot for ever.                                                  *)
OrphanExpires ==
    \A l \in Lock : (Live(l) /\ handle[l] = Absent) ~> ~Live(l)

(* The store implements the semaphore of leases.                            *)
LeaseOf(l) == IF Live(l) THEN {zset[l].key} ELSE {}

Semaphore == INSTANCE LeaseSemaphore WITH leases <- [l \in Lock |-> LeaseOf(l)]

ImplementsSemaphore == Semaphore!Spec
=============================================================================
