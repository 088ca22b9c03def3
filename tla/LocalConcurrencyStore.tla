---------------------- MODULE LocalConcurrencyStore -----------------------
(***************************************************************************)
(* The in-process concurrency store (natsmq/store/local-store.ts).  Every  *)
(* method body runs without yielding, so each call is one step.            *)
(*                                                                         *)
(* Instants are kept relative to the present: the model stores how many    *)
(* units of time an entry has left, max(0, expiresAt - Date.now()), so the *)
(* code's "expiresAt > now" is "left > 0" and Tick is the passing of time. *)
(***************************************************************************)
EXTENDS Integers, FiniteSets

CONSTANTS Lock,        (* lock values; Math.random() is taken to be collision-free *)
          Resource,    (* the resources callers lock                         *)
          Limit,       (* the limit the callers of each resource pass        *)
          MaxTtl,      (* the longest duration a caller asks for             *)
          LateExtend,  (* may a call of extend arrive after the expiry?      *)
          Absent       (* not a key of the map                               *)

Entry == [resources : SUBSET Resource, left : 0..MaxTtl]

ASSUME LocalStoreAssumption ==
       /\ IsFiniteSet(Lock)
       /\ Limit \in [Resource -> Nat \ {0}]
       /\ MaxTtl \in Nat \ {0}
       /\ LateExtend \in BOOLEAN
       /\ Absent \notin Entry

VARIABLES activeLocks,        (* the Map: an entry or Absent for each lock value *)
          globalActiveCount,  (* the counter getGlobalActiveCount() returns      *)
          cleaning,           (* cleanupInterval # null                          *)
          held                (* the ILocks that callers still hold              *)

vars == <<activeLocks, globalActiveCount, cleaning, held>>

Present == {v \in Lock : activeLocks[v] # Absent}
Live(v) == activeLocks[v] # Absent /\ activeLocks[v].left > 0
(* Faulty: the cleaner takes entries with one unit left.                    *)
ExpiredEarly == {v \in Present : activeLocks[v].left <= 1}

(* What cleanup() deletes: expiresAt <= now.                                *)
Expired == {v \in Present : activeLocks[v].left = 0}

(* getActiveCountSync counts these entries.                                 *)
LiveOn(r) == {v \in Lock : Live(v) /\ r \in activeLocks[v].resources}

(* One call passes one limit for all the resources it names.                *)
Requests == {R \in SUBSET Resource :
                R # {} /\ \A r, s \in R : Limit[r] = Limit[s]}

Max0(n) == IF n < 0 THEN 0 ELSE n

Delete(S) == activeLocks' = [v \in Lock |-> IF v \in S THEN Absent ELSE activeLocks[v]]
-----------------------------------------------------------------------------
Init == /\ activeLocks = [v \in Lock |-> Absent]
        /\ globalActiveCount = 0
        /\ cleaning = FALSE
        /\ held = {}

onInit == /\ cleaning' = TRUE
          /\ UNCHANGED <<activeLocks, globalActiveCount, held>>

(* close() empties the map under whoever still holds a lock.                *)
close == /\ cleaning' = FALSE
         /\ Delete(Present)
         /\ globalActiveCount' = 0
         /\ UNCHANGED held

(* Faulty: > instead of >=.                                                 *)
HasRoomOffByOne(R) == \A r \in R : Cardinality(LiveOn(r)) <= Limit[r]

(* Faulty: one resource with room is enough.                                *)
HasRoomSomewhere(R) == \E r \in R : Cardinality(LiveOn(r)) < Limit[r]

HasRoom(R) == \A r \in R : Cardinality(LiveOn(r)) < Limit[r]

acquire(v, R, ttl) ==
    /\ v \notin Present /\ v \notin held
    /\ HasRoom(R)
    /\ activeLocks' = [activeLocks EXCEPT ![v] = [resources |-> R, left |-> ttl]]
    /\ globalActiveCount' = globalActiveCount + 1
    /\ held' = held \cup {v}
    /\ UNCHANGED cleaning

(* Faulty: the counter goes down whether or not the entry is there.         *)
releaseUnchecked(v) ==
    /\ v \in held
    /\ Delete({v})
    /\ globalActiveCount' = Max0(globalActiveCount - 1)
    /\ held' \in {held, held \ {v}}
    /\ UNCHANGED cleaning

(* The owner may call release again: only the call that finds the entry     *)
(* counts.                                                                  *)
release(v) ==
    /\ v \in held
    /\ Delete({v})
    /\ globalActiveCount' = IF v \in Present THEN Max0(globalActiveCount - 1)
                                              ELSE globalActiveCount
    /\ held' \in {held, held \ {v}}
    /\ UNCHANGED cleaning

(* extend throws when the entry is gone; it does not look at expiresAt.     *)
extend(v, ttl) ==
    /\ v \in held /\ v \in Present
    /\ LateExtend \/ Live(v)
    /\ activeLocks' = [activeLocks EXCEPT ![v].left = ttl]
    /\ UNCHANGED <<globalActiveCount, cleaning, held>>

(* Faulty: counts the expired entries off without deleting them.            *)
cleanupCountOnly ==
    /\ cleaning
    /\ Expired # {}
    /\ globalActiveCount' = Max0(globalActiveCount - Cardinality(Expired))
    /\ UNCHANGED <<activeLocks, cleaning, held>>

cleanup == /\ cleaning
           /\ Expired # {}
           /\ Delete(Expired)
           /\ globalActiveCount' = Max0(globalActiveCount - Cardinality(Expired))
           /\ UNCHANGED <<cleaning, held>>

Tick == /\ activeLocks' = [v \in Lock |->
               IF Live(v) THEN [activeLocks[v] EXCEPT !.left = @ - 1]
                          ELSE activeLocks[v]]
        /\ UNCHANGED <<globalActiveCount, cleaning, held>>

Next == \/ onInit
        \/ close
        \/ \E v \in Lock, R \in Requests, ttl \in 1..MaxTtl : acquire(v, R, ttl)
        \/ \E v \in Lock : release(v)
        \/ \E v \in Lock, ttl \in 1..MaxTtl : extend(v, ttl)
        \/ cleanup
        \/ Tick

(* Time passes, and the interval timer fires while it is set.               *)
Spec == Init /\ [][Next]_vars /\ WF_vars(Tick) /\ WF_vars(cleanup)
-----------------------------------------------------------------------------
TypeOK == /\ activeLocks \in [Lock -> Entry \cup {Absent}]
          /\ globalActiveCount \in Nat
          /\ cleaning \in BOOLEAN
          /\ held \in SUBSET Lock

(* No resource is under more unexpired locks than its limit (acquire's      *)
(* check): what every caller of acquire relies on.                          *)
LimitRespected == \A r \in Resource : Cardinality(LiveOn(r)) <= Limit[r]

(* The counter engine.close() polls is the number of entries in the map,    *)
(* whatever mix of releases, repeated releases, clean-ups and closes came   *)
(* before: if it stayed too high every shutdown would wait its full five    *)
(* seconds, too low and it would cut off running handlers.                  *)
CountMatches == globalActiveCount = Cardinality(Present)

(* An unexpired lock ends only through its owner's release, its own ttl     *)
(* running out, or close(): never through another caller or the cleaner.    *)
OnlyOwnerEnds ==
    [][\A v \in Lock :
          Live(v) /\ ~Live(v)' => \/ v \in held /\ release(v)
                                  \/ activeLocks[v].left = 1 /\ Tick
                                  \/ close]_vars

(* While the cleanup interval is set, an expired entry does not stay in the *)
(* map (and in the counter) for ever.                                       *)
ExpiredReclaimed ==
    \A v \in Lock : (v \in Expired /\ cleaning) ~> (v \notin Expired \/ ~cleaning)

(* The store implements the semaphore of leases: an entry is a lease while  *)
(* it has time left.                                                        *)
LeaseOf(v) == IF Live(v) THEN activeLocks[v].resources ELSE {}

Semaphore == INSTANCE LeaseSemaphore WITH leases <- [v \in Lock |-> LeaseOf(v)]

ImplementsSemaphore == Semaphore!Spec
=============================================================================
