-------------------------- MODULE LockedWork_proofs -------------------------
(***************************************************************************)
(* What is done under a lock: a routine of runUsing, which extends its     *)
(* lock for as long as it runs, and the tick of a cron, which keeps it.    *)
(*                                                                         *)
(* For any callers, resources, limits, durations and thresholds, with      *)
(* calls that fail and extensions that arrive after their release: where   *)
(* calls and timers are late by less than the threshold, a routine's lock  *)
(* does not expire under it, and no resource has more routines than its    *)
(* limit.  However late they are, a using that ends with no extension in   *)
(* flight leaves neither a member nor a timer.                             *)
(*                                                                         *)
(* The lock that is never released keeps a tick from being handled twice,  *)
(* for any number of nodes, crons, timers and ticks.  The invariant says   *)
(* that the store still has, for every run, a lock of its name and bucket  *)
(* that lasts lockTtl from the run's start at least.  And a node that is   *)
(* refused gives nothing up: for this the invariant says what locks, runs  *)
(* and refusals remember of the timers they come from.                     *)
(***************************************************************************)
EXTENDS LeaseExtension, CronScheduler, FiniteSetTheorems, WellFoundedInduction, TLAPS

(* The store's cardinality is the usual one.                                *)
LEMMA StoreCount == \A S : Store!Cardinality(S) = Cardinality(S)
BY DEF Store!Cardinality, Cardinality

LEMMA QueueFacts ==
  /\ Duration \in Nat /\ Threshold \in Nat /\ QueueIn \in 1..Duration
  /\ QueueIn + Threshold = Duration /\ 0 < Threshold
  /\ \A n \in Int : n # Absent \/ n < 0
BY ExtensionAssumption DEF QueueIn

(* What the acquire script does to the members when it adds one.            *)
LEMMA ScriptFacts ==
  ASSUME Store!TypeOK, NEW u \in Caller, NEW r \in Resource, NEW limit,
         Store!ScriptAdds(u, r, Duration, limit)
  PROVE  /\ zset' \in [Caller -> Store!Member \cup {Absent}]
         /\ zset'[u] # Absent /\ zset'[u].key = r /\ zset'[u].left = Duration
         /\ \A v \in Caller : v # u /\ Store!Live(v) => zset'[v] = zset[v]
<1>1. [key |-> r, left |-> Duration] \in Store!Member
  BY ExtensionAssumption DEF Store!Member
<1>2. [key |-> r, left |-> Duration] # Absent
  BY <1>1, ExtensionAssumption DEF Store!Member
<1>3. Store!Purged(r) \in [Caller -> Store!Member \cup {Absent}]
  BY DEF Store!Purged, Store!TypeOK
<1>4. \A v \in Caller : Store!Live(v) => Store!Purged(r)[v] = zset[v]
  BY DEF Store!Purged, Store!LiveOn, Store!InSet
<1>5. zset' = [Store!Purged(r) EXCEPT ![u] = [key |-> r, left |-> Duration]]
  BY DEF Store!ScriptAdds
<1>6. zset'[u] = [key |-> r, left |-> Duration]
  BY <1>3, <1>5
<1>7. QED
  BY <1>1, <1>2, <1>3, <1>4, <1>5, <1>6

LEMMA PurgeFacts ==
  ASSUME Store!TypeOK, NEW r \in Resource, NEW limit, Store!ScriptRefuses(r, limit)
  PROVE  /\ zset' \in [Caller -> Store!Member \cup {Absent}]
         /\ \A v \in Caller : Store!Live(v) => zset'[v] = zset[v]
BY DEF Store!ScriptRefuses, Store!Purged, Store!LiveOn, Store!InSet, Store!TypeOK

(* What the passing of time does to the members.                            *)
LEMMA TimeFacts ==
  ASSUME Store!TypeOK, Store!Tick
  PROVE  /\ zset' \in [Caller -> Store!Member \cup {Absent}]
         /\ \A u \in Caller : zset[u] # Absent /\ zset[u].left > 0 =>
              /\ zset'[u] # Absent /\ zset'[u].key = zset[u].key
              /\ zset'[u].left = zset[u].left - 1
<1>0. zset' = [u \in Caller |-> IF Store!Live(u) THEN [zset[u] EXCEPT !.left = @ - 1]
                                                ELSE zset[u]]
  BY DEF Store!Tick
<1>1. ASSUME NEW u \in Caller, Store!Live(u)
      PROVE  /\ zset'[u] \in Store!Member /\ zset'[u].key = zset[u].key
             /\ zset'[u].left = zset[u].left - 1
  <2>1. zset[u] \in Store!Member /\ zset[u].left > 0
    BY <1>1 DEF Store!TypeOK, Store!Live
  <2>2. /\ zset[u].key \in Resource /\ zset[u].left \in 0..Duration
        /\ zset[u] = [key |-> zset[u].key, left |-> zset[u].left]
    BY <2>1 DEF Store!Member
  <2>3. zset'[u] = [key |-> zset[u].key, left |-> zset[u].left - 1]
    BY <1>0, <1>1, <2>2
  <2>4. zset[u].left - 1 \in 0..Duration
    BY <2>1, <2>2, ExtensionAssumption
  <2>5. QED
    BY <2>2, <2>3, <2>4 DEF Store!Member
<1>2. \A u \in Caller : ~Store!Live(u) => zset'[u] = zset[u]
  BY <1>0
<1>3. Absent \notin Store!Member
  BY ExtensionAssumption DEF Store!Member
<1>4. \A u \in Caller : zset'[u] \in Store!Member \cup {Absent}
  BY <1>1, <1>2 DEF Store!TypeOK
<1>5. QED
  BY <1>0, <1>1, <1>3, <1>4 DEF Store!Live
-----------------------------------------------------------------------------
(***************************************************************************)
(* The inductive invariant.                                                *)
(***************************************************************************)
(* Nothing is under way for a caller that has not begun.                    *)
IdleFresh == \A u \in Caller :
    /\ pc[u] \in {"idle", "acquiring"} =>
         call[u] = "none" /\ timer[u] = Absent /\ ~failed[u]
    /\ pc[u] = "idle" => late[u] = 0

(* A caller extends the lock it asked for.                                  *)
OwnResource == \A u \in Caller : handle[u] \in {ResourceOf[u], Absent}

(* Where calls are late by less than the threshold: the callers that have a *)
(* lock, or are about to hear of it, and of whose extensions none failed.   *)
Secure(u) == Slack < Threshold /\ pc[u] \in {"acquiring", "routine"} /\ ~failed[u]

(* How long the lock of a secure caller lives on: what the timer has left   *)
(* and the threshold, less what the caller was late.                        *)
LeftFor(u) == IF pc[u] = "acquiring" \/ call[u] = "run" THEN Duration
              ELSE IF call[u] = "sent" THEN Threshold
              ELSE timer[u] + Threshold

InTime(u) == Secure(u) =>
    /\ zset[u] # Absent /\ zset[u].key = ResourceOf[u]
    /\ zset[u].left = LeftFor(u) - late[u]
    /\ pc[u] = "routine" => call[u] # "none" \/ timer[u] \in 0..Duration

Timing == \A u \in Caller : InTime(u)

SecureOn(r) == {u \in Caller : Secure(u) /\ ResourceOf[u] = r}

SecureLimit == \A r \in Resource : Cardinality(SecureOn(r)) <= Limit[r]

ExtInv == TypeOK /\ IdleFresh /\ OwnResource /\ Timing /\ SecureLimit
-----------------------------------------------------------------------------
(* Late by less than the threshold, a secure caller has a live lock.        *)
LEMMA SecureLive ==
  ASSUME ExtInv, NEW u \in Caller, Secure(u)
  PROVE  Store!Live(u) /\ zset[u].left > 0 /\ zset[u].key = ResourceOf[u]
<1>1. late[u] \in 0..Slack /\ Slack \in Nat
  BY ExtensionAssumption DEF ExtInv, TypeOK
<1>2. /\ zset[u] # Absent /\ zset[u].key = ResourceOf[u]
      /\ zset[u].left = LeftFor(u) - late[u]
      /\ pc[u] = "routine" => call[u] # "none" \/ timer[u] \in 0..Duration
  BY DEF ExtInv, Timing, InTime
<1>3. LeftFor(u) \in Nat /\ LeftFor(u) >= Threshold
  BY <1>2, QueueFacts DEF LeftFor, Secure, ExtInv, TypeOK
<1>4. QED
  BY <1>1, <1>2, <1>3, QueueFacts DEF Store!Live, Secure

(* Whoever is left alone, its lock included, stays in time.                 *)
LEMMA Undisturbed ==
  ASSUME NEW u \in Caller, InTime(u),
         pc'[u] = pc[u], call'[u] = call[u], timer'[u] = timer[u],
         late'[u] = late[u], failed'[u] = failed[u],
         Secure(u) => zset'[u] = zset[u]
  PROVE  InTime(u)'
BY DEF InTime, Secure, LeftFor

LEMMA SecureKept ==
  ASSUME SecureLimit, \A u \in Caller : Secure(u)' => Secure(u)
  PROVE  SecureLimit'
<1> SUFFICES ASSUME NEW r \in Resource
             PROVE  Cardinality(SecureOn(r)') <= Limit[r]
  BY DEF SecureLimit
<1>1. SecureOn(r)' \subseteq SecureOn(r)
  BY DEF SecureOn
<1>2. IsFiniteSet(SecureOn(r))
  BY ExtensionAssumption, FS_Subset DEF SecureOn
<1>3. /\ Cardinality(SecureOn(r)') <= Cardinality(SecureOn(r))
      /\ Cardinality(SecureOn(r)') \in Nat /\ Cardinality(SecureOn(r)) \in Nat
  BY <1>1, <1>2, FS_Subset, FS_CardinalityType
<1>4. Cardinality(SecureOn(r)) <= Limit[r] /\ Limit[r] \in Nat
  BY ExtensionAssumption DEF SecureLimit
<1>5. QED
  BY <1>3, <1>4

(* The acquire script lets a caller in only if the live locks, and so the   *)
(* secure callers, are fewer than the limit.                                *)
LEMMA AcquireStep ==
  ASSUME ExtInv, NEW u \in Caller, Acquire(u)
  PROVE  ExtInv'
<1> DEFINE r == ResourceOf[u]
<1>0. /\ TypeOK /\ Store!TypeOK /\ IdleFresh /\ OwnResource /\ Timing /\ SecureLimit
  BY DEF ExtInv, TypeOK
<1>1. /\ pc[u] = "idle" /\ pc' = [pc EXCEPT ![u] = "acquiring"]
      /\ Store!ScriptAdds(u, r, Duration, Limit[r])
      /\ handle' = [handle EXCEPT ![u] = r]
      /\ UNCHANGED <<expires, timer, call, aborted, waited, late, failed>>
  BY DEF Acquire, Store!acquire
<1>2. r \in Resource
  BY ExtensionAssumption
<1>3. /\ zset' \in [Caller -> Store!Member \cup {Absent}]
      /\ zset'[u] # Absent /\ zset'[u].key = r /\ zset'[u].left = Duration
      /\ \A v \in Caller : v # u /\ Store!Live(v) => zset'[v] = zset[v]
  BY <1>0, <1>1, <1>2, ScriptFacts
<1>4. Store!TypeOK'
  BY <1>0, <1>1, <1>2, <1>3 DEF Store!TypeOK
<1>5. /\ pc'[u] = "acquiring"
      /\ \A v \in Caller \ {u} : pc'[v] = pc[v]
  BY <1>0, <1>1 DEF TypeOK
<1>6. TypeOK'
  BY <1>0, <1>1, <1>4, <1>5 DEF TypeOK
<1>7. IdleFresh'
  BY <1>0, <1>1, <1>5 DEF IdleFresh
<1>8. OwnResource'
  BY <1>0, <1>1 DEF OwnResource, Store!TypeOK
<1>9. /\ call[u] = "none" /\ timer[u] = Absent /\ late[u] = 0 /\ ~failed[u]
  BY <1>0, <1>1 DEF IdleFresh
<1>10. InTime(u)'
  BY <1>1, <1>3, <1>5, <1>9, QueueFacts DEF InTime, LeftFor
<1>11. \A v \in Caller \ {u} : InTime(v)'
  BY <1>0, <1>1, <1>3, <1>5, SecureLive, Undisturbed DEF Timing
<1>12. Timing'
  BY <1>10, <1>11 DEF Timing
<1>13. ASSUME NEW q \in Resource
       PROVE  Cardinality(SecureOn(q)') <= Limit[q]
  <2>1. /\ IsFiniteSet(SecureOn(q)) /\ IsFiniteSet(Store!LiveOn(q))
        /\ Cardinality(SecureOn(q)) \in Nat /\ Cardinality(Store!LiveOn(q)) \in Nat
        /\ Limit[q] \in Nat
    BY ExtensionAssumption, FS_Subset, FS_CardinalityType DEF SecureOn, Store!LiveOn
  <2>2. \A v \in Caller \ {u} : Secure(v)' <=> Secure(v)
    BY <1>1, <1>5 DEF Secure
  <2>3. CASE q = r
    <3>1. SecureOn(q) \subseteq Store!LiveOn(q)
      BY SecureLive DEF SecureOn, Store!LiveOn
    <3>2. Cardinality(SecureOn(q)) <= Cardinality(Store!LiveOn(q))
      BY <2>1, <3>1, FS_Subset
    <3>3. Cardinality(Store!LiveOn(q)) < Limit[q]
      BY <1>1, <2>3, StoreCount DEF Store!ScriptAdds, Store!HasRoom
    <3>4. SecureOn(q)' \subseteq SecureOn(q) \cup {u}
      BY <2>2 DEF SecureOn
    <3>5. /\ IsFiniteSet(SecureOn(q) \cup {u})
          /\ Cardinality(SecureOn(q) \cup {u}) \in
               {Cardinality(SecureOn(q)), Cardinality(SecureOn(q)) + 1}
      BY <2>1, FS_AddElement, Zenon
    <3>6. /\ Cardinality(SecureOn(q)') <= Cardinality(SecureOn(q) \cup {u})
          /\ Cardinality(SecureOn(q)') \in Nat
      BY <3>4, <3>5, FS_Subset, FS_CardinalityType
    <3>7. QED
      BY <2>1, <3>2, <3>3, <3>5, <3>6
  <2>4. CASE q # r
    <3>1. SecureOn(q)' \subseteq SecureOn(q)
      BY <2>2, <2>4 DEF SecureOn
    <3>2. /\ Cardinality(SecureOn(q)') <= Cardinality(SecureOn(q))
          /\ Cardinality(SecureOn(q)') \in Nat
      BY <2>1, <3>1, FS_Subset, FS_CardinalityType
    <3>3. QED
      BY <1>0, <2>1, <3>2 DEF SecureLimit
  <2>5. QED
    BY <2>3, <2>4
<1>14. SecureLimit'
  BY <1>13 DEF SecureLimit
<1>15. QED
  BY <1>6, <1>7, <1>8, <1>12, <1>14 DEF ExtInv
-----------------------------------------------------------------------------
(* A step of one caller that takes no lock object and makes it no more      *)
(* secure than it was.                                                      *)
LEMMA CallerStep ==
  ASSUME ExtInv, NEW u \in Caller, TypeOK', handle' = handle, pc'[u] \notin {"idle", "acquiring"},
         \A v \in Caller \ {u} :
            /\ pc'[v] = pc[v] /\ call'[v] = call[v] /\ timer'[v] = timer[v]
            /\ late'[v] = late[v] /\ failed'[v] = failed[v]
            /\ Secure(v) => zset'[v] = zset[v],
         InTime(u)', Secure(u)' => Secure(u)
  PROVE  ExtInv'
<1>1. IdleFresh'
  BY DEF ExtInv, IdleFresh
<1>2. OwnResource'
  BY DEF ExtInv, OwnResource
<1>3. Timing'
  BY Undisturbed DEF ExtInv, Timing
<1>4. \A v \in Caller : Secure(v)' => Secure(v)
  BY DEF Secure
<1>5. SecureLimit'
  BY <1>4, SecureKept DEF ExtInv
<1>6. QED
  BY <1>1, <1>2, <1>3, <1>5 DEF ExtInv

(* Steps after which the caller is not secure, or has not moved.            *)
LEMMA AcquireFails ==
  ASSUME ExtInv, NEW u \in Caller,
         AcquireRefused(u) \/ AcquireThrows(u)
  PROVE  ExtInv'
<1>0. /\ TypeOK /\ Store!TypeOK
      /\ ResourceOf[u] \in Resource
  BY ExtensionAssumption DEF ExtInv, TypeOK
<1>1. /\ pc' = [pc EXCEPT ![u] = "done"] \/ pc' = [pc EXCEPT ![u] = "rejected"]
      /\ pc[u] = "idle" /\ handle' = handle
      /\ UNCHANGED <<expires, timer, call, aborted, waited, late, failed>>
  BY DEF AcquireRefused, AcquireThrows, Store!acquireRefused, Store!acquireReplyLost, store
<1>2. /\ zset' \in [Caller -> Store!Member \cup {Absent}]
      /\ \A v \in Caller \ {u} : Store!Live(v) => zset'[v] = zset[v]
  <2>1. CASE AcquireRefused(u)
    BY <1>0, <2>1, PurgeFacts DEF AcquireRefused, Store!acquireRefused
  <2>2. CASE AcquireThrows(u) /\ UNCHANGED store
    BY <1>0, <2>2 DEF store, Store!TypeOK
  <2>3. CASE Store!acquireReplyLost(u, ResourceOf[u], Duration)
    BY <1>0, <2>3, ScriptFacts DEF Store!acquireReplyLost
  <2>4. QED
    BY <2>1, <2>2, <2>3 DEF AcquireThrows
<1>3. Store!TypeOK'
  BY <1>0, <1>1, <1>2 DEF Store!TypeOK
<1>4. /\ pc'[u] \in {"done", "rejected"}
      /\ \A v \in Caller \ {u} : pc'[v] = pc[v]
  BY <1>0, <1>1 DEF TypeOK
<1>5. TypeOK'
  BY <1>0, <1>1, <1>3, <1>4 DEF TypeOK
<1>6. InTime(u)' /\ ~Secure(u)'
  BY <1>4 DEF InTime, Secure
<1>7. \A v \in Caller \ {u} : Secure(v) => zset'[v] = zset[v]
  BY <1>2, SecureLive
<1>8. QED
  BY <1>1, <1>4, <1>5, <1>6, <1>7, CallerStep

LEMMA BeginStep ==
  ASSUME ExtInv, NEW u \in Caller, Begin(u)
  PROVE  ExtInv'
<1>0. TypeOK /\ Store!TypeOK /\ InTime(u) /\ IdleFresh
  BY DEF ExtInv, TypeOK, Timing
<1>1. /\ pc[u] = "acquiring" /\ pc' = [pc EXCEPT ![u] = "routine"]
      /\ expires' = [expires EXCEPT ![u] = Duration]
      /\ timer' = [timer EXCEPT ![u] = QueueIn]
      /\ zset' = zset /\ handle' = handle
      /\ UNCHANGED <<call, aborted, waited, late, failed>>
  BY DEF Begin, store
<1>2. Store!TypeOK'
  BY <1>0, <1>1 DEF Store!TypeOK
<1>3. /\ pc'[u] = "routine" /\ timer'[u] = QueueIn
      /\ \A v \in Caller \ {u} : pc'[v] = pc[v] /\ timer'[v] = timer[v]
  BY <1>0, <1>1 DEF TypeOK
<1>4. TypeOK'
  BY <1>0, <1>1, <1>2, <1>3, QueueFacts DEF TypeOK, IdleFresh
<1>5. InTime(u)'
  BY <1>0, <1>1, <1>3, QueueFacts DEF InTime, Secure, LeftFor, IdleFresh
<1>6. Secure(u)' => Secure(u)
  BY <1>1 DEF Secure
<1>7. QED
  BY <1>1, <1>3, <1>4, <1>5, <1>6, CallerStep

LEMMA TimerFiresStep ==
  ASSUME ExtInv, NEW u \in Caller, TimerFires(u)
  PROVE  ExtInv'
<1>0. TypeOK /\ Store!TypeOK /\ InTime(u) /\ IdleFresh
  BY DEF ExtInv, TypeOK, Timing
<1>1. /\ timer[u] = 0 /\ timer' = [timer EXCEPT ![u] = Absent]
      /\ call' = [call EXCEPT ![u] = Sent(u)]
      /\ zset' = zset /\ handle' = handle
      /\ UNCHANGED <<pc, expires, aborted, waited, late, failed>>
  BY DEF TimerFires, store
<1>2. Store!TypeOK'
  BY <1>0, <1>1 DEF Store!TypeOK
<1>3. /\ call'[u] \in {"sent", "behind"} /\ timer'[u] = Absent
      /\ call'[u] = "behind" <=> pc[u] = "releasing"
      /\ \A v \in Caller \ {u} : call'[v] = call[v] /\ timer'[v] = timer[v]
      /\ timer[u] # Absent /\ call[u] = "none"
  BY <1>0, <1>1, QueueFacts DEF TypeOK, Sent
<1>4. TypeOK'
  BY <1>0, <1>1, <1>2, <1>3 DEF TypeOK
<1>5. pc'[u] \notin {"idle", "acquiring"}
  BY <1>0, <1>1, <1>3 DEF IdleFresh
<1>6. InTime(u)'
  BY <1>0, <1>1, <1>3, <1>5, QueueFacts DEF InTime, Secure, LeftFor
<1>7. Secure(u)' => Secure(u)
  BY <1>1 DEF Secure
<1>8. QED
  BY <1>1, <1>3, <1>4, <1>5, <1>6, <1>7, CallerStep

(* An extend renews the caller's own member, and purges only members that   *)
(* no secure caller has.                                                    *)
LEMMA ExtendRunsStep ==
  ASSUME ExtInv, NEW u \in Caller, ExtendRuns(u)
  PROVE  ExtInv'
<1>0. TypeOK /\ Store!TypeOK /\ IdleFresh /\ OwnResource
  BY DEF ExtInv, TypeOK
<1>1. /\ call[u] = "sent" /\ handle[u] # Absent /\ handle' = handle
      /\ Store!ScriptAdds(u, handle[u], Duration, Store!ExtendLimit)
      /\ call' = [call EXCEPT ![u] = "run"] /\ late' = [late EXCEPT ![u] = 0]
      /\ UNCHANGED <<pc, expires, timer, aborted, waited, failed>>
  BY DEF ExtendRuns, Store!extend
<1>2. handle[u] = ResourceOf[u] /\ ResourceOf[u] \in Resource
  BY <1>0, <1>1, ExtensionAssumption DEF OwnResource
<1>3. /\ zset' \in [Caller -> Store!Member \cup {Absent}]
      /\ zset'[u] # Absent /\ zset'[u].key = ResourceOf[u] /\ zset'[u].left = Duration
      /\ \A v \in Caller : v # u /\ Store!Live(v) => zset'[v] = zset[v]
  BY <1>0, <1>1, <1>2, ScriptFacts
<1>4. Store!TypeOK'
  BY <1>0, <1>1, <1>3 DEF Store!TypeOK
<1>5. /\ call'[u] = "run" /\ late'[u] = 0
      /\ \A v \in Caller \ {u} : call'[v] = call[v] /\ late'[v] = late[v]
      /\ 0 \in 0..Slack
  BY <1>0, <1>1, ExtensionAssumption DEF TypeOK
<1>6. TypeOK'
  BY <1>0, <1>1, <1>4, <1>5 DEF TypeOK
<1>7. pc'[u] \notin {"idle", "acquiring"}
  BY <1>0, <1>1 DEF IdleFresh
<1>8. InTime(u)'
  BY <1>1, <1>3, <1>5, <1>7, QueueFacts DEF InTime, LeftFor
<1>9. Secure(u)' => Secure(u)
  BY <1>1 DEF Secure
<1>10. \A v \in Caller \ {u} : Secure(v) => zset'[v] = zset[v]
  BY <1>3, SecureLive
<1>11. QED
  BY <1>1, <1>5, <1>6, <1>7, <1>8, <1>9, <1>10, CallerStep

LEMMA ExtendReturnsStep ==
  ASSUME ExtInv, NEW u \in Caller, ExtendReturns(u)
  PROVE  ExtInv'
<1>0. TypeOK /\ Store!TypeOK /\ InTime(u) /\ IdleFresh
  BY DEF ExtInv, TypeOK, Timing
<1>1. /\ call[u] = "run" /\ call' = [call EXCEPT ![u] = "none"]
      /\ expires' = [expires EXCEPT ![u] = Duration]
      /\ timer' = [timer EXCEPT ![u] = QueueIn]
      /\ pc' = [pc EXCEPT ![u] = IF pc[u] = "draining" THEN "releasing" ELSE pc[u]]
      /\ zset' = zset /\ handle' = handle
      /\ UNCHANGED <<aborted, waited, late, failed>>
  BY DEF ExtendReturns, Resume, store
<1>2. Store!TypeOK'
  BY <1>0, <1>1 DEF Store!TypeOK
<1>3. /\ call'[u] = "none" /\ timer'[u] = QueueIn
      /\ pc'[u] # "draining" /\ pc'[u] \in {pc[u], "releasing"}
      /\ \A v \in Caller \ {u} :
            pc'[v] = pc[v] /\ call'[v] = call[v] /\ timer'[v] = timer[v]
  BY <1>0, <1>1 DEF TypeOK
<1>4. TypeOK'
  BY <1>0, <1>1, <1>2, <1>3, QueueFacts DEF TypeOK
<1>5. pc'[u] \notin {"idle", "acquiring"}
  BY <1>0, <1>1, <1>3 DEF IdleFresh
<1>6. Secure(u)' => Secure(u)
  BY <1>1, <1>3 DEF Secure
<1>7. InTime(u)'
  BY <1>0, <1>1, <1>3, <1>5, <1>6, QueueFacts DEF InTime, Secure, LeftFor
<1>8. QED
  BY <1>1, <1>3, <1>4, <1>5, <1>6, <1>7, CallerStep

LEMMA ExtendThrowsStep ==
  ASSUME ExtInv, NEW u \in Caller, ExtendThrows(u)
  PROVE  ExtInv'
<1>0. TypeOK /\ Store!TypeOK /\ IdleFresh
  BY DEF ExtInv, TypeOK
<1>1. /\ call[u] # "none" /\ failed' = [failed EXCEPT ![u] = TRUE]
      /\ \/ call' = [call EXCEPT ![u] = Sent(u)] /\ aborted' = aborted
         \/ /\ call' = [call EXCEPT ![u] = "none"]
            /\ aborted' = [aborted EXCEPT ![u] = TRUE]
      /\ pc' = [pc EXCEPT ![u] = IF pc[u] = "draining" THEN "releasing" ELSE pc[u]]
      /\ zset' = zset /\ handle' = handle
      /\ UNCHANGED <<expires, timer, waited, late>>
  BY DEF ExtendThrows, Resume, store
<1>2. Store!TypeOK'
  BY <1>0, <1>1 DEF Store!TypeOK
<1>3. /\ failed'[u] /\ pc'[u] # "draining" /\ pc'[u] \in {pc[u], "releasing"}
      /\ call'[u] = "behind" => pc'[u] = "releasing"
      /\ \A v \in Caller \ {u} : pc'[v] = pc[v] /\ call'[v] = call[v]
  BY <1>0, <1>1 DEF TypeOK, Sent
<1>4. \A v \in Caller \ {u} : failed'[v] = failed[v]
  BY <1>0, <1>1, Zenon DEF TypeOK
<1>5. /\ call' \in [Caller -> {"none", "sent", "behind", "run"}]
      /\ pc' \in [Caller -> {"idle", "acquiring", "routine", "draining", "releasing",
                            "done", "rejected"}]
      /\ aborted' \in [Caller -> BOOLEAN] /\ failed' \in [Caller -> BOOLEAN]
  BY <1>0, <1>1 DEF TypeOK, Sent
<1>6. TypeOK'
  BY <1>0, <1>1, <1>2, <1>3, <1>5 DEF TypeOK
<1>7. pc'[u] \notin {"idle", "acquiring"}
  BY <1>0, <1>1, <1>3 DEF IdleFresh
<1>8. ~Secure(u)' /\ InTime(u)'
  BY <1>3 DEF InTime, Secure
<1>9. QED
  BY <1>1, <1>3, <1>4, <1>6, <1>7, <1>8, CallerStep

(* The end of a using: the caller is not secure any more.                   *)
LEMMA EndStep ==
  ASSUME ExtInv, NEW u \in Caller, RoutineEnds(u) \/ Release(u) \/ ReleaseThrows(u)
  PROVE  ExtInv'
<1>0. TypeOK /\ Store!TypeOK
  BY DEF ExtInv, TypeOK
<1>1. /\ \E p \in {"draining", "releasing", "done", "rejected"} : 
            /\ pc' = [pc EXCEPT ![u] = p]
            /\ p = "draining" => call[u] # "none"
            /\ pc[u] = "routine" \/ p \in {"done", "rejected"}
      /\ timer' = timer \/ timer' = [timer EXCEPT ![u] = Absent]
      /\ zset' = zset \/ zset' = [zset EXCEPT ![u] = Absent]
      /\ waited' = waited \/ waited' = [waited EXCEPT ![u] = call[u] # "none"]
      /\ \/ pc[u] = "routine" /\ call' = call
         \/ call' = [call EXCEPT ![u] = IF call[u] = "behind" THEN "sent" ELSE call[u]]
      /\ handle' = handle
      /\ UNCHANGED <<expires, aborted, late, failed>>
  BY DEF RoutineEnds, Release, ReleaseThrows, Store!release, store
<1>2. Store!TypeOK'
  BY <1>0, <1>1 DEF Store!TypeOK
<1>3. /\ pc'[u] \in {"draining", "releasing", "done", "rejected"}
      /\ pc'[u] = "draining" => call[u] # "none"
      /\ call'[u] \in {"none", "sent", "run"}
      /\ call[u] # "none" <=> call'[u] # "none"
      /\ \A v \in Caller \ {u} :
            /\ pc'[v] = pc[v] /\ timer'[v] = timer[v]
            /\ call'[v] = call[v] /\ zset'[v] = zset[v]
  BY <1>0, <1>1 DEF TypeOK, Store!TypeOK
<1>4. waited' \in [Caller -> BOOLEAN]
  BY <1>0, <1>1, Zenon DEF TypeOK
<1>5. /\ pc' \in [Caller -> {"idle", "acquiring", "routine", "draining", "releasing",
                            "done", "rejected"}]
      /\ timer' \in [Caller -> (0..Duration) \cup {Absent}]
      /\ call' \in [Caller -> {"none", "sent", "behind", "run"}]
      /\ \A v \in Caller : call'[v] # "none" => timer'[v] = Absent
      /\ \A v \in Caller : pc'[v] = "draining" => call'[v] # "none"
      /\ \A v \in Caller : call'[v] = "behind" => pc'[v] = "releasing"
  BY <1>0, <1>1, <1>3 DEF TypeOK
<1>6. TypeOK'
  BY <1>0, <1>1, <1>2, <1>4, <1>5 DEF TypeOK
<1>7. ~Secure(u)' /\ InTime(u)'
  BY <1>3 DEF InTime, Secure
<1>8. QED
  BY <1>1, <1>3, <1>6, <1>7, CallerStep

(* Time takes as much from a secure lock as from its timer, or adds as much *)
(* to the caller's lateness.                                                *)
LEMMA TickStep ==
  ASSUME ExtInv, Tick
  PROVE  ExtInv'
<1>0. /\ TypeOK /\ Store!TypeOK /\ IdleFresh /\ OwnResource /\ Timing /\ SecureLimit
      /\ Duration \in Nat /\ Slack \in Nat
  BY ExtensionAssumption DEF ExtInv, TypeOK
<1>1. /\ \A u \in Caller : Pending(u) => failed[u] \/ late[u] < Slack
      /\ Store!Tick /\ handle' = handle
      /\ expires' = [u \in Caller |-> IF expires[u] > 0 THEN expires[u] - 1 ELSE 0]
      /\ timer' = [u \in Caller |-> IF timer[u] \in 1..Duration THEN timer[u] - 1
                                                               ELSE timer[u]]
      /\ late' = [u \in Caller |-> IF Pending(u) /\ ~failed[u] THEN late[u] + 1
                                                              ELSE late[u]]
      /\ UNCHANGED <<pc, call, aborted, waited, failed>>
  BY DEF Tick, Store!Tick
<1>2. /\ zset' \in [Caller -> Store!Member \cup {Absent}]
      /\ \A u \in Caller : zset[u] # Absent /\ zset[u].left > 0 =>
           /\ zset'[u] # Absent /\ zset'[u].key = zset[u].key
           /\ zset'[u].left = zset[u].left - 1
  BY <1>0, <1>1, TimeFacts
<1>3. Store!TypeOK'
  BY <1>0, <1>1, <1>2 DEF Store!TypeOK
<1>4. \A u \in Caller : /\ timer[u] = Absent => timer'[u] = Absent
                        /\ timer[u] \in 1..Duration => timer'[u] = timer[u] - 1
                        /\ timer[u] = 0 => timer'[u] = 0
                        /\ timer'[u] \in (0..Duration) \cup {Absent}
  BY <1>0, <1>1, QueueFacts DEF TypeOK
<1>5. \A u \in Caller : late'[u] \in 0..Slack
  BY <1>0, <1>1 DEF TypeOK
<1>6. expires' \in [Caller -> 0..Duration]
  BY <1>0, <1>1 DEF TypeOK
<1>7. TypeOK'
  <2>1. timer' \in [Caller -> (0..Duration) \cup {Absent}]
    BY <1>1, <1>4
  <2>2. late' \in [Caller -> 0..Slack]
    BY <1>1, <1>5
  <2>3. QED
    BY <1>0, <1>1, <1>3, <1>4, <1>6, <2>1, <2>2 DEF TypeOK
<1>8. IdleFresh'
  <2> SUFFICES ASSUME NEW u \in Caller, pc[u] \in {"idle", "acquiring"}
               PROVE  /\ call[u] = "none" /\ timer'[u] = Absent /\ ~failed[u]
                      /\ pc[u] = "idle" => late'[u] = 0
    BY <1>1 DEF IdleFresh
  <2>1. call[u] = "none" /\ timer[u] = Absent /\ ~failed[u]
        /\ (pc[u] = "idle" => late[u] = 0)
    BY <1>0 DEF IdleFresh
  <2>2. pc[u] = "idle" => ~Pending(u)
    BY <2>1, QueueFacts DEF Pending
  <2>3. QED
    BY <1>1, <1>4, <2>1, <2>2
<1>9. OwnResource'
  BY <1>0, <1>1 DEF OwnResource
<1>10. ASSUME NEW u \in Caller, Secure(u)'
       PROVE  /\ zset'[u] # Absent /\ zset'[u].key = ResourceOf[u]
              /\ zset'[u].left = LeftFor(u)' - late'[u]
              /\ pc'[u] = "routine" => call'[u] # "none" \/ timer'[u] \in 0..Duration
  <2>1. Secure(u) /\ ~failed[u] /\ pc[u] \in {"acquiring", "routine"}
    BY <1>1, <1>10 DEF Secure
  <2>2. /\ zset[u] # Absent /\ zset[u].key = ResourceOf[u]
        /\ zset[u].left = LeftFor(u) - late[u]
        /\ pc[u] = "routine" => call[u] # "none" \/ timer[u] \in 0..Duration
        /\ zset[u].left > 0 /\ late[u] \in 0..Slack
        /\ call[u] \in {"none", "sent", "run"}
    BY <1>0, <2>1, SecureLive DEF Timing, InTime, TypeOK
  <2>3. /\ zset'[u] # Absent /\ zset'[u].key = ResourceOf[u]
        /\ zset'[u].left = LeftFor(u) - late[u] - 1
    BY <1>2, <2>2
  <2>4. CASE Pending(u)
    <3>1. late'[u] = late[u] + 1
      BY <1>1, <2>1, <2>4
    <3>2. LeftFor(u)' = LeftFor(u)
      BY <1>1, <1>4, <2>1, <2>2, <2>4 DEF LeftFor, Pending
    <3>3. LeftFor(u) \in Int
      BY <2>1, <2>2, QueueFacts DEF LeftFor
    <3>4. pc'[u] = "routine" => call'[u] # "none" \/ timer'[u] \in 0..Duration
      BY <1>0, <1>1, <1>4, <2>2
    <3>5. QED
      BY <2>2, <2>3, <3>1, <3>2, <3>3, <3>4
  <2>5. CASE ~Pending(u)
    <3>1. /\ pc[u] = "routine" /\ call[u] = "none"
          /\ timer[u] \in 1..Duration /\ timer'[u] = timer[u] - 1 /\ late'[u] = late[u]
      BY <1>0, <1>1, <1>4, <2>1, <2>2, <2>5 DEF Pending
    <3>2. /\ LeftFor(u) = timer[u] + Threshold
          /\ LeftFor(u)' = timer[u] - 1 + Threshold
      BY <1>1, <3>1 DEF LeftFor
    <3>3. QED
      BY <1>0, <2>2, <2>3, <3>1, <3>2, QueueFacts
  <2>6. QED
    BY <2>4, <2>5
<1>11. Timing'
  BY <1>10 DEF Timing, InTime
<1>12. \A u \in Caller : Secure(u)' => Secure(u)
  BY <1>1 DEF Secure
<1>13. SecureLimit'
  BY <1>0, <1>12, SecureKept
<1>14. QED
  BY <1>7, <1>8, <1>9, <1>11, <1>13 DEF ExtInv

LEMMA ExtStutter ==
  ASSUME ExtInv, UNCHANGED vars
  PROVE  ExtInv'
<1>1. UNCHANGED <<zset, handle, pc, expires, timer, call, aborted, waited, late, failed>>
  BY DEF vars
<1>2. TypeOK'
  BY <1>1 DEF ExtInv, TypeOK, Store!TypeOK
<1>3. IdleFresh' /\ OwnResource'
  BY <1>1 DEF ExtInv, IdleFresh, OwnResource
<1>4. Timing'
  BY <1>1 DEF ExtInv, Timing, InTime, Secure, LeftFor
<1>5. SecureLimit'
  <2>1. \A u \in Caller : Secure(u)' => Secure(u)
    BY <1>1 DEF Secure
  <2>2. QED
    BY <2>1, SecureKept DEF ExtInv
<1>6. QED
  BY <1>2, <1>3, <1>4, <1>5 DEF ExtInv

LEMMA ExtInit == Init => ExtInv
<1> SUFFICES ASSUME Init PROVE ExtInv
  OBVIOUS
<1>1. Store!TypeOK
  BY DEF Init, Store!Init, Store!TypeOK
<1>2. 0 \in 0..Duration /\ 0 \in 0..Slack
  BY ExtensionAssumption
<1>3. TypeOK
  BY <1>1, <1>2 DEF Init, TypeOK
<1>4. IdleFresh /\ OwnResource
  BY DEF Init, IdleFresh, OwnResource, Store!Init
<1>5. Timing
  BY DEF Init, Timing, InTime, Secure
<1>6. SecureLimit
  <2> SUFFICES ASSUME NEW r \in Resource
               PROVE  Cardinality(SecureOn(r)) <= Limit[r]
    BY DEF SecureLimit
  <2>1. SecureOn(r) = {}
    BY DEF SecureOn, Secure, Init
  <2>2. Limit[r] \in Nat
    BY ExtensionAssumption
  <2>3. QED
    BY <2>1, <2>2, FS_EmptySet
<1>7. QED
  BY <1>3, <1>4, <1>5, <1>6 DEF ExtInv

LEMMA ExtStep ==
  ASSUME ExtInv, [Next]_vars
  PROVE  ExtInv'
<1>1. CASE \E u \in Caller : Acquire(u)
  BY <1>1, AcquireStep
<1>2. CASE \E u \in Caller : AcquireRefused(u) \/ AcquireThrows(u)
  BY <1>2, AcquireFails
<1>3. CASE \E u \in Caller : Reply(u)
  BY <1>3, BeginStep, TimerFiresStep, ExtendRunsStep, ExtendReturnsStep, ExtendThrowsStep
     DEF Reply
<1>4. CASE \E u \in Caller : RoutineEnds(u) \/ Release(u) \/ ReleaseThrows(u)
  BY <1>4, EndStep
<1>5. CASE Tick
  BY <1>5, TickStep
<1>6. CASE Rest \/ UNCHANGED vars
  BY <1>6, ExtStutter DEF Rest
<1>7. QED
  BY <1>1, <1>2, <1>3, <1>4, <1>5, <1>6 DEF Next
-----------------------------------------------------------------------------
LEMMA ExtInvHolds == Spec => []ExtInv
<1>1. Init => ExtInv
  BY ExtInit
<1>2. ExtInv /\ [Next]_vars => ExtInv'
  BY ExtStep
<1>3. QED
  BY <1>1, <1>2, PTL DEF Spec

(* Every variable keeps its type, however late calls are: a timer is set    *)
(* only while no extend is in flight, and the end waits only for one.       *)
THEOREM ExtensionTyping == Spec => []TypeOK
<1>1. ExtInv => TypeOK
  BY DEF ExtInv
<1>2. QED
  BY <1>1, ExtInvHolds, PTL

(* runUsing keeps its promise while the routine runs: the timer extends the *)
(* lock before it expires, whatever other callers do with the store.        *)
THEOREM ExtensionProtects == Spec => []Protected
<1>1. CASE Slack < Threshold
  <2>1. ExtInv => Protected
    BY <1>1, SecureLive DEF Protected, Secure
  <2>2. QED
    BY <2>1, ExtInvHolds, PTL
<1>2. CASE ~(Slack < Threshold)
  <2>1. Protected
    BY <1>2 DEF Protected
  <2>2. QED
    BY <2>1, PTL
<1>3. QED
  BY <1>1, <1>2

(* No more routines run on a resource than its limit, although an extend    *)
(* that arrives late adds a released lock again above the limit.            *)
THEOREM ExtensionLimit == Spec => []AtMostLimitRun
<1>1. CASE Slack < Threshold
  <2>1. ExtInv => AtMostLimitRun
    <3> SUFFICES ASSUME ExtInv, NEW r \in Resource, \A u \in Running(r) : ~failed[u]
                 PROVE  Cardinality(Running(r)) <= Limit[r]
      BY DEF AtMostLimitRun
    <3>1. Running(r) \subseteq SecureOn(r)
      BY <1>1 DEF Running, SecureOn, Secure
    <3>2. IsFiniteSet(SecureOn(r))
      BY ExtensionAssumption, FS_Subset DEF SecureOn
    <3>3. /\ Cardinality(Running(r)) <= Cardinality(SecureOn(r))
          /\ Cardinality(Running(r)) \in Nat /\ Cardinality(SecureOn(r)) \in Nat
      BY <3>1, <3>2, FS_Subset, FS_CardinalityType
    <3>4. Cardinality(SecureOn(r)) <= Limit[r] /\ Limit[r] \in Nat
      BY ExtensionAssumption DEF ExtInv, SecureLimit
    <3>5. QED
      BY <3>3, <3>4
  <2>2. QED
    BY <2>1, ExtInvHolds, PTL
<1>2. CASE ~(Slack < Threshold)
  <2>1. AtMostLimitRun
    BY <1>2 DEF AtMostLimitRun
  <2>2. QED
    BY <2>1, PTL
<1>3. QED
  BY <1>1, <1>2
-----------------------------------------------------------------------------
(***************************************************************************)
(* What a using leaves behind.                                             *)
(***************************************************************************)
(* A caller that has not begun has no member; the end that awaits no extend *)
(* finds none in flight, and no timer can send one any more.                *)
QuietFor(u) ==
    /\ pc[u] = "idle" => zset[u] = Absent
    /\ pc[u] \in {"draining", "releasing", "done"} /\ ~waited[u]
         => call[u] = "none" /\ timer[u] = Absent
    /\ pc[u] = "done" /\ ~waited[u] => zset[u] = Absent

Quiet == \A u \in Caller : QuietFor(u)

(* No script makes a member for another caller than its own.                *)
LEMMA AbsentStays ==
  ASSUME Store!TypeOK, NEW v \in Caller, zset[v] = Absent
  PROVE  /\ \A u \in Caller : \A r, limit :
              v # u /\ Store!ScriptAdds(u, r, Duration, limit) => zset'[v] = Absent
         /\ \A r, limit : Store!ScriptRefuses(r, limit) => zset'[v] = Absent
         /\ Store!Tick => zset'[v] = Absent
<1>1. \A r : /\ Store!Purged(r)[v] = Absent
             /\ DOMAIN Store!Purged(r) = Caller
  BY DEF Store!Purged
<1>2. QED
  BY <1>1 DEF Store!ScriptAdds, Store!ScriptRefuses, Store!Tick, Store!Live

(* A step of one caller leaves the others quiet.                            *)
LEMMA OthersQuiet ==
  ASSUME Quiet, NEW u \in Caller, QuietFor(u)',
         \A v \in Caller \ {u} :
            /\ pc'[v] = pc[v] /\ call'[v] = call[v] /\ timer'[v] = timer[v]
            /\ waited'[v] = waited[v]
            /\ zset[v] = Absent => zset'[v] = Absent
  PROVE  Quiet'
BY DEF Quiet, QuietFor

LEMMA QuietStep ==
  ASSUME ExtInv, Quiet, [Next]_vars
  PROVE  Quiet'
<1>0. /\ TypeOK /\ Store!TypeOK /\ IdleFresh
      /\ \A u \in Caller : QuietFor(u)
  BY DEF ExtInv, TypeOK, Quiet
<1>1. ASSUME NEW u \in Caller, Acquire(u)
      PROVE  Quiet'
  <2>1. /\ Store!ScriptAdds(u, ResourceOf[u], Duration, Limit[ResourceOf[u]])
        /\ pc' = [pc EXCEPT ![u] = "acquiring"]
        /\ UNCHANGED <<timer, call, waited>>
    BY <1>1 DEF Acquire, Store!acquire
  <2>2. QuietFor(u)'
    BY <1>0, <2>1 DEF QuietFor, TypeOK
  <2>3. QED
    BY <1>0, <2>1, <2>2, AbsentStays, OthersQuiet DEF TypeOK
<1>2. ASSUME NEW u \in Caller, AcquireRefused(u)
      PROVE  Quiet'
  <2>1. /\ Store!ScriptRefuses(ResourceOf[u], Limit[ResourceOf[u]])
        /\ pc[u] = "idle" /\ pc' = [pc EXCEPT ![u] = "done"]
        /\ UNCHANGED <<timer, call, waited>>
    BY <1>2 DEF AcquireRefused, Store!acquireRefused
  <2>2. zset'[u] = Absent /\ call[u] = "none" /\ timer[u] = Absent
    BY <1>0, <2>1, AbsentStays DEF QuietFor, IdleFresh
  <2>3. QuietFor(u)'
    BY <1>0, <2>1, <2>2 DEF QuietFor, TypeOK
  <2>4. QED
    BY <1>0, <2>1, <2>3, AbsentStays, OthersQuiet DEF TypeOK
<1>3. ASSUME NEW u \in Caller, AcquireThrows(u)
      PROVE  Quiet'
  <2>1. /\ \/ zset' = zset
           \/ Store!ScriptAdds(u, ResourceOf[u], Duration, Limit[ResourceOf[u]])
        /\ pc' = [pc EXCEPT ![u] = "rejected"]
        /\ UNCHANGED <<timer, call, waited>>
    BY <1>3 DEF AcquireThrows, Store!acquireReplyLost, store
  <2>2. QuietFor(u)'
    BY <1>0, <2>1 DEF QuietFor, TypeOK
  <2>3. \A v \in Caller \ {u} : zset[v] = Absent => zset'[v] = Absent
    BY <1>0, <2>1, AbsentStays
  <2>4. QED
    BY <1>0, <2>1, <2>2, <2>3, OthersQuiet DEF TypeOK
<1>4. ASSUME NEW u \in Caller, Begin(u)
      PROVE  Quiet'
  <2>1. /\ pc' = [pc EXCEPT ![u] = "routine"] /\ timer' = [timer EXCEPT ![u] = QueueIn]
        /\ zset' = zset
        /\ UNCHANGED <<call, waited>>
    BY <1>4 DEF Begin, store
  <2>2. QuietFor(u)'
    BY <1>0, <2>1 DEF QuietFor, TypeOK
  <2>3. QED
    BY <1>0, <2>1, <2>2, OthersQuiet DEF TypeOK
<1>5. ASSUME NEW u \in Caller, TimerFires(u)
      PROVE  Quiet'
  <2>1. /\ timer[u] = 0 /\ timer' = [timer EXCEPT ![u] = Absent]
        /\ call' = [call EXCEPT ![u] = Sent(u)]
        /\ zset' = zset
        /\ UNCHANGED <<pc, waited>>
    BY <1>5 DEF TimerFires, store
  <2>2. ~(pc[u] \in {"draining", "releasing", "done"} /\ ~waited[u])
    BY <1>0, <2>1, QueueFacts DEF QuietFor
  <2>3. QuietFor(u)'
    BY <1>0, <2>1, <2>2 DEF QuietFor
  <2>4. QED
    BY <1>0, <2>1, <2>3, OthersQuiet DEF TypeOK
<1>6. ASSUME NEW u \in Caller, ExtendRuns(u)
      PROVE  Quiet'
  <2>1. /\ call[u] = "sent" /\ call' = [call EXCEPT ![u] = "run"]
        /\ Store!ScriptAdds(u, handle[u], Duration, Store!ExtendLimit)
        /\ UNCHANGED <<pc, timer, waited>>
    BY <1>6 DEF ExtendRuns, Store!extend
  <2>2. ~(pc[u] \in {"draining", "releasing", "done"} /\ ~waited[u]) /\ pc[u] # "idle"
    BY <1>0, <2>1 DEF QuietFor, IdleFresh
  <2>3. QuietFor(u)'
    BY <1>0, <2>1, <2>2 DEF QuietFor
  <2>4. QED
    BY <1>0, <2>1, <2>3, AbsentStays, OthersQuiet DEF TypeOK
<1>7. ASSUME NEW u \in Caller, ExtendReturns(u) \/ ExtendThrows(u)
      PROVE  Quiet'
  <2>1. /\ call[u] # "none" /\ zset' = zset /\ waited' = waited
        /\ pc' = [pc EXCEPT ![u] = IF pc[u] = "draining" THEN "releasing" ELSE pc[u]]
        /\ \A v \in Caller \ {u} : call'[v] = call[v] /\ timer'[v] = timer[v]
    BY <1>0, <1>7 DEF ExtendReturns, ExtendThrows, Resume, store, TypeOK
  <2>2. ~(pc[u] \in {"draining", "releasing", "done"} /\ ~waited[u]) /\ pc[u] # "idle"
    BY <1>0, <2>1 DEF QuietFor, IdleFresh
  <2>3. QuietFor(u)'
    BY <1>0, <2>1, <2>2 DEF QuietFor, TypeOK
  <2>4. QED
    BY <1>0, <2>1, <2>3, OthersQuiet DEF TypeOK
<1>8. ASSUME NEW u \in Caller, RoutineEnds(u)
      PROVE  Quiet'
  <2>1. /\ timer' = [timer EXCEPT ![u] = Absent]
        /\ waited' = [waited EXCEPT ![u] = call[u] # "none"]
        /\ pc' = [pc EXCEPT ![u] = IF call[u] # "none" THEN "draining" ELSE "releasing"]
        /\ zset' = zset /\ call' = call
    BY <1>8 DEF RoutineEnds, store
  <2>2. /\ timer'[u] = Absent /\ pc'[u] \in {"draining", "releasing"}
        /\ \A v \in Caller \ {u} : pc'[v] = pc[v] /\ timer'[v] = timer[v]
    BY <1>0, <2>1 DEF TypeOK
  <2>3. /\ waited'[u] <=> call[u] # "none"
        /\ \A v \in Caller \ {u} : waited'[v] = waited[v]
    BY <1>0, <2>1, Zenon DEF TypeOK
  <2>4. QuietFor(u)'
    BY <2>1, <2>2, <2>3 DEF QuietFor
  <2>5. QED
    BY <2>1, <2>2, <2>3, <2>4, OthersQuiet
<1>9. ASSUME NEW u \in Caller, Release(u)
      PROVE  Quiet'
  <2>1. /\ pc[u] = "releasing" /\ pc' = [pc EXCEPT ![u] = "done"]
        /\ call' = [call EXCEPT ![u] = IF call[u] = "behind" THEN "sent" ELSE call[u]]
        /\ zset' = [zset EXCEPT ![u] = Absent]
        /\ UNCHANGED <<timer, waited>>
    BY <1>9 DEF Release, Store!release
  <2>2. QuietFor(u)'
    BY <1>0, <2>1 DEF QuietFor, TypeOK, Store!TypeOK
  <2>3. QED
    BY <1>0, <2>1, <2>2, OthersQuiet DEF TypeOK, Store!TypeOK
<1>10. ASSUME NEW u \in Caller, ReleaseThrows(u)
       PROVE  Quiet'
  <2>1. /\ pc' = [pc EXCEPT ![u] = "rejected"]
        /\ call' = [call EXCEPT ![u] = IF call[u] = "behind" THEN "sent" ELSE call[u]]
        /\ zset' = zset \/ zset' = [zset EXCEPT ![u] = Absent]
        /\ UNCHANGED <<timer, waited>>
    BY <1>10 DEF ReleaseThrows, Store!release, store
  <2>2. QuietFor(u)'
    BY <1>0, <2>1 DEF QuietFor, TypeOK
  <2>3. QED
    BY <1>0, <2>1, <2>2, OthersQuiet DEF TypeOK, Store!TypeOK
<1>11. CASE Tick
  <2>1. /\ \A u \in Caller : timer[u] = Absent => timer'[u] = Absent
        /\ Store!Tick
        /\ UNCHANGED <<pc, call, waited>>
    BY <1>11, QueueFacts DEF Tick
  <2>2. \A u \in Caller : zset[u] = Absent => zset'[u] = Absent
    BY <1>0, <2>1, AbsentStays
  <2>3. QED
    BY <2>1, <2>2 DEF Quiet, QuietFor
<1>12. CASE Rest \/ UNCHANGED vars
  BY <1>12 DEF Rest, vars, Quiet, QuietFor
<1>13. QED
  BY <1>1, <1>2, <1>3, <1>4, <1>5, <1>6, <1>7, <1>8, <1>9, <1>10, <1>11, <1>12 DEF Next, Reply

(* However late calls are and whichever fail: a using whose routine ended   *)
(* with no extension in flight, and whose release went well, or that was    *)
(* refused, leaves neither a member in Redis nor a timer that could extend  *)
(* one.                                                                     *)
THEOREM ExtensionLeavesNothing == Spec => []QuietEndReleases
<1>1. Init => Quiet
  BY DEF Init, Store!Init, Quiet, QuietFor
<1>2. ExtInv /\ Quiet /\ [Next]_vars => Quiet'
  BY QuietStep
<1>3. Quiet => QuietEndReleases
  BY DEF Quiet, QuietFor, QuietEndReleases, Store!Live
<1>4. QED
  BY <1>1, <1>2, <1>3, ExtInvHolds, PTL DEF Spec
-----------------------------------------------------------------------------
(* The ticks of crons.                                                       *)

Slot(x, r) == x.name = NameOf[r.timer.cron] /\ x.bucket = r.bucket

(* Times are integers, and the lock of a run is the lock of its slot.       *)
Times == /\ now \in Int
         /\ \A a \in ran : a.at \in Int /\ a.at <= now
         /\ \A l \in locks : l.until \in Int /\ Slot(l, l.by)

(* The lock under which a run started lasts lockTtl at least.               *)
Guarded == \A a \in ran : \E l \in locks : Slot(l, a.run) /\ l.until >= a.at + lockTtl

IInv == Times /\ Guarded /\ TickRunsOnce

LEMMA InitOnce == CronAssumption /\ CronInit => IInv
  BY DEF CronInit, IInv, Times, Guarded, TickRunsOnce, CronAssumption

(* The entry that acquire and extendLock write.                             *)
LEMMA LockOf ==
    ASSUME CronAssumption, now \in Int, NEW r
    PROVE  /\ Slot(Lock(r), r) /\ Lock(r).by = r
           /\ Lock(r).until \in Int /\ Lock(r).until = now + lockTtl
  BY DEF Lock, Slot, CronAssumption

LEMMA AcquireOnce ==
    ASSUME CronAssumption, IInv, NEW r, Acquires(r) PROVE IInv'
  <1> DEFINE new == [run |-> r, at |-> now]
  <1>1. /\ locks' = locks \cup {Lock(r)} /\ ran' = ran \cup {new}
        /\ now' = now /\ Held(r) = {}
    BY DEF Acquires
  <1>2. lockTtl \in Int /\ lockTtl > 0 /\ now \in Int
    BY DEF CronAssumption, IInv, Times
  <1>3. /\ Slot(Lock(r), r) /\ Lock(r).by = r
        /\ Lock(r).until \in Int /\ Lock(r).until = now + lockTtl
    BY <1>2, LockOf
  <1>4. new.run = r /\ new.at = now
    OBVIOUS
  <1>5. Times'
    BY <1>1, <1>2, <1>3, <1>4 DEF IInv, Times, Slot
  <1>6. Guarded'
    BY <1>1, <1>2, <1>3, <1>4 DEF IInv, Guarded, Slot
  (* Whoever ran in this slot has a lock there that has run out.            *)
  <1>7. ASSUME NEW a \in ran, a.run.timer.cron = r.timer.cron, a.run.bucket = r.bucket
        PROVE  now >= a.at + lockTtl
    <2>1. PICK l \in locks : Slot(l, a.run) /\ l.until >= a.at + lockTtl
      BY DEF IInv, Guarded
    <2>2. l.until <= now
      BY <1>1, <1>2, <1>7, <2>1 DEF Held, Slot, IInv, Times
    <2>3. a.at \in Int /\ l.until \in Int
      BY <2>1 DEF IInv, Times
    <2> QED BY <1>2, <2>1, <2>2, <2>3
  <1>8. TickRunsOnce'
    <2> SUFFICES ASSUME NEW a \in ran', NEW b \in ran', a # b,
                        a.run.timer.cron = b.run.timer.cron, a.run.bucket = b.run.bucket,
                        a.run.tick = b.run.tick
                 PROVE  a.at >= b.at + lockTtl \/ b.at >= a.at + lockTtl
      BY DEF TickRunsOnce
    <2> HIDE DEF new
    <2>1. CASE a \in ran /\ b \in ran
      BY <2>1 DEF IInv, TickRunsOnce
    <2>2. CASE a = new /\ b \in ran
      BY <1>4, <1>7, <2>2
    <2>3. CASE b = new /\ a \in ran
      BY <1>4, <1>7, <2>3
    <2> QED BY <1>1, <2>1, <2>2, <2>3
  <1> QED BY <1>5, <1>6, <1>8 DEF IInv

LEMMA ExtendOnce ==
    ASSUME CronAssumption, IInv, NEW r, extendLock(r) PROVE IInv'
  <1>1. /\ locks' = {l \in locks : l.by # r} \cup {Lock(r)} /\ ran' = ran
        /\ now' = now
    BY DEF extendLock
  <1>2. lockTtl \in Int /\ lockTtl > 0 /\ now \in Int
    BY DEF CronAssumption, IInv, Times
  <1>3. /\ Slot(Lock(r), r) /\ Lock(r).by = r
        /\ Lock(r).until \in Int /\ Lock(r).until = now + lockTtl
    BY <1>2, LockOf
  <1>4. Times'
    BY <1>1, <1>3 DEF IInv, Times, Slot
  <1>5. Guarded'
    <2> SUFFICES ASSUME NEW a \in ran
                 PROVE  \E l \in locks' : Slot(l, a.run) /\ l.until >= a.at + lockTtl
      BY <1>1 DEF Guarded, Slot
    <2>1. PICK l \in locks : Slot(l, a.run) /\ l.until >= a.at + lockTtl
      BY DEF IInv, Guarded
    <2>2. CASE l.by # r
      BY <1>1, <2>1, <2>2
    <2>3. CASE l.by = r
      <3>1. Slot(Lock(r), a.run)
        BY <1>3, <2>1, <2>3 DEF IInv, Times, Slot
      <3>2. a.at \in Int /\ a.at <= now
        BY DEF IInv, Times
      <3> QED BY <1>1, <1>2, <1>3, <3>1, <3>2
    <2> QED BY <2>2, <2>3
  <1>6. TickRunsOnce'
    BY <1>1 DEF IInv, TickRunsOnce
  <1> QED BY <1>4, <1>5, <1>6 DEF IInv

(* A request that fails may add a lock, and adds no run.                    *)
LEMMA FailOnce ==
    ASSUME CronAssumption, IInv, NEW r, StoreThrows(r) PROVE IInv'
  <1>1. ran' = ran /\ now' = now
    BY DEF StoreThrows
  <1>2. locks' = locks \/ locks' = locks \cup {Lock(r)}
    BY DEF StoreThrows
  <1>3. Slot(Lock(r), r) /\ Lock(r).by = r /\ Lock(r).until \in Int
    BY LockOf DEF IInv, Times
  <1>4. Times'
    BY <1>1, <1>2, <1>3 DEF IInv, Times, Slot
  <1>5. Guarded'
    BY <1>1, <1>2 DEF IInv, Guarded, Slot
  <1>6. TickRunsOnce'
    BY <1>1 DEF IInv, TickRunsOnce
  <1> QED BY <1>4, <1>5, <1>6 DEF IInv

LEMMA NextOnce == CronAssumption /\ IInv /\ [CronNext]_cronVars => IInv'
  <1> SUFFICES ASSUME CronAssumption, IInv, [CronNext]_cronVars PROVE IInv'
    OBVIOUS
  (* Steps that leave the runs and the locks alone, and the time or not.    *)
  <1>1. ASSUME ran' = ran, locks' = locks, now' = now \/ now' = now + 1 PROVE IInv'
    BY <1>1 DEF IInv, Times, Guarded, TickRunsOnce, Slot
  <1>2. ASSUME NEW t \in Timer, Fires(t) PROVE IInv'
    BY <1>1, <1>2 DEF Fires
  <1>3. ASSUME NEW r \in asking, Acquires(r) \/ IsRefused(r) \/ StoreThrows(r) PROVE IInv'
    <2>1. CASE IsRefused(r)  BY <1>1, <2>1 DEF IsRefused
    <2> QED BY <1>3, <2>1, AcquireOnce, FailOnce
  <1>4. ASSUME NEW r \in handling, extendLock(r) \/ Ends(r) PROVE IInv'
    <2>1. CASE Ends(r)  BY <1>1, <2>1 DEF Ends
    <2> QED BY <1>4, <2>1, ExtendOnce
  <1>5. ASSUME NEW n \in MayEnd, stopAll(n) \/ Dies(n) PROVE IInv'
    BY <1>1, <1>5 DEF stopAll, Dies
  <1>6. CASE Passes
    BY <1>1, <1>6 DEF Passes
  <1>7. CASE UNCHANGED cronVars
    BY <1>1, <1>7 DEF cronVars
  <1> QED BY <1>2, <1>3, <1>4, <1>5, <1>6, <1>7 DEF CronNext

(* A tick of a cron is handled once in the cluster, but for a timer that     *)
(* fires in another second and a lock that has run out (the callback of     *)
(* CronScheduler.schedule).                                                 *)
THEOREM CronRunsOnce == CronSpec => []TickRunsOnce
  <1>1. CronInit => IInv
    BY CronAssumption, InitOnce
  <1>2. IInv /\ [CronNext]_cronVars => IInv'
    BY CronAssumption, NextOnce
  <1>3. IInv => TickRunsOnce
    BY DEF IInv
  <1> QED BY <1>1, <1>2, <1>3, PTL DEF CronSpec
-----------------------------------------------------------------------------
(* What a run remembers of the timer that fired: which tick, in which       *)
(* second, and that the timer has gone on since then.                       *)
Past(r) == /\ r.timer \in Timer /\ r.tick \in Due(r.timer) /\ r.late \in Nat
           /\ r.bucket = (Ticks[r.timer.cron][r.tick] + r.late) \div Second
           /\ next[r.timer] = 0 \/ r.tick < next[r.timer]

(* Every run is past, and one that has a lock or an answer does not ask.    *)
AllPast == /\ next \in [Timer -> Nat]
           /\ \A r \in asking \cup refused : Past(r)
           /\ \A a \in ran : Past(a.run) /\ a.run \notin asking
           /\ \A l \in locks : Past(l.by) /\ l.by \notin asking
           /\ \A r \in handling : \E a \in ran : a.run = r

RInv == IInv /\ AllPast /\ RefusedTickWasRun

LEMMA TimerOf ==
    ASSUME NEW t \in Timer PROVE t.cron \in Cron /\ t.node \in Node
  <1> DEFINE Of(n, c) == [node : {n}, cron : {c}, copy : 1..Instances[c][n]]
  <1>1. PICK S \in {Of(n, c) : n \in Node, c \in Cron} : t \in S
    BY DEF Timer
  <1> HIDE DEF Of
  <1>2. PICK n \in Node, c \in Cron : S = Of(n, c)
    BY <1>1
  <1> QED BY <1>1, <1>2 DEF Of

LEMMA Multiple ==
    ASSUME NEW s \in Nat \ {0}, NEW t \in Int, t % s = 0
    PROVE  \E q \in Int : t = s * q
  <1>1. t = s * (t \div s) + (t % s) /\ t \div s \in Int
    OBVIOUS
  <1>2. s * (t \div s) \in Int
    BY <1>1
  <1> QED BY <1>1, <1>2

LEMMA TicksOf ==
    ASSUME CronAssumption, TicksAssumption, NEW c \in Cron, NEW i \in DOMAIN Ticks[c]
    PROVE  /\ i \in Nat \ {0} /\ i <= Len(Ticks[c]) /\ Len(Ticks[c]) \in Nat
           /\ Ticks[c][i] \in Int
           /\ \E q \in Int : Ticks[c][i] = Second * q
           /\ \A j \in DOMAIN Ticks[c] : i < j => Ticks[c][i] < Ticks[c][j]
  <1>1. Ticks[c] \in Seq(Int) /\ Second \in Nat \ {0}
    BY DEF CronAssumption
  <1>2. /\ DOMAIN Ticks[c] = 1..Len(Ticks[c]) /\ Len(Ticks[c]) \in Nat
        /\ Ticks[c][i] \in Int
    BY <1>1
  <1>3. Ticks[c][i] % Second = 0
    BY DEF TicksAssumption
  <1>4. \E q \in Int : Ticks[c][i] = Second * q
    BY <1>1, <1>2, <1>3, Multiple
  <1>5. ASSUME NEW j \in DOMAIN Ticks[c], i < j PROVE Ticks[c][i] < Ticks[c][j]
    <2>1. i \in 1..(j - 1)
      BY <1>2, <1>5
    <2> QED BY <2>1 DEF TicksAssumption
  <1>6. i \in Nat \ {0} /\ i <= Len(Ticks[c])
    BY <1>2
  <1> QED BY <1>2, <1>4, <1>5, <1>6

LEMMA DivWhole ==
    ASSUME NEW s \in Nat \ {0}, NEW q \in Int, NEW l \in Nat, l < s
    PROVE  (s * q + l) \div s = q
  <1> DEFINE d == (s * q + l) \div s
  <1>1. d \in Int /\ s * d <= s * q + l /\ s * q + l < s * d + s
    OBVIOUS
  <1> HIDE DEF d
  <1>2. ~(d > q)
    <2>1. d >= q + 1 => s * d >= s * (q + 1)
      BY <1>1
    <2>2. s * (q + 1) = s * q + s
      OBVIOUS
    <2> QED BY <1>1, <2>1, <2>2
  <1>3. ~(d < q)
    <2>1. q >= d + 1 => s * q >= s * (d + 1)
      BY <1>1
    <2>2. s * (d + 1) = s * d + s
      BY <1>1
    <2> QED BY <1>1, <2>1, <2>2
  <1> QED BY <1>1, <1>2, <1>3 DEF d

(* Two ticks of a cron whose timers fired less than a second late and in     *)
(* the same second are one tick.                                            *)
LEMMA SameTick ==
    ASSUME CronAssumption, TicksAssumption, NEW a, NEW b, Past(a), Past(b),
           a.timer.cron = b.timer.cron, a.bucket = b.bucket,
           a.late < Second, b.late < Second
    PROVE  a.tick = b.tick
  <1> DEFINE c == a.timer.cron
             i == a.tick
             j == b.tick
  <1>1. /\ c \in Cron /\ i \in DOMAIN Ticks[c] /\ j \in DOMAIN Ticks[c]
        /\ a.late \in Nat /\ b.late \in Nat
        /\ (Ticks[c][i] + a.late) \div Second = (Ticks[c][j] + b.late) \div Second
    BY TimerOf DEF Past, Due
  <1> HIDE DEF c, i, j
  <1>2. PICK p \in Int : Ticks[c][i] = Second * p
    BY <1>1, TicksOf
  <1>3. PICK q \in Int : Ticks[c][j] = Second * q
    BY <1>1, TicksOf
  <1>4. Second \in Nat \ {0}
    BY DEF CronAssumption
  <1>5. (Second * p + a.late) \div Second = p
    BY <1>1, <1>4, DivWhole
  <1>6. (Second * q + b.late) \div Second = q
    BY <1>1, <1>4, DivWhole
  <1>7. p = q
    BY <1>1, <1>2, <1>3, <1>5, <1>6
  <1>8. /\ i \in Nat /\ j \in Nat /\ Ticks[c][i] \in Int
        /\ i < j => Ticks[c][i] < Ticks[c][j]
        /\ j < i => Ticks[c][j] < Ticks[c][i]
    BY <1>1, TicksOf
  <1>9. i = j
    BY <1>2, <1>3, <1>7, <1>8
  <1> QED BY <1>9 DEF i, j

(* The next tick a timer waits for comes after the one it fired at.          *)
LEMMA NextTick ==
    ASSUME CronAssumption, TicksAssumption, AllPast, now \in Int, NEW t \in Timer, Fires(t)
    PROVE  /\ next' \in [Timer -> Nat]
           /\ next[t] < next'[t]
           /\ \A x \in Timer : x # t => next'[x] = next[x]
  <1> DEFINE T == Ticks[t.cron]
             later == {k \in Due(t) : T[k] > Clock(t.node)}
             to == IF later = {} THEN Len(T) + 1
                   ELSE CHOOSE k \in later : \A j \in later : k <= j
  <1>1. /\ next[t] \in DOMAIN T /\ Clock(t.node) >= T[next[t]]
        /\ next' = [next EXCEPT ![t] = to]
    BY DEF Fires, Due
  <1>2. next \in [Timer -> Nat]
    BY DEF AllPast
  <1>3. t.cron \in Cron /\ t.node \in Node /\ Clock(t.node) \in Int
    BY TimerOf DEF Clock, CronAssumption
  <1>4. CASE later = {}
    <2>1. to = Len(T) + 1
      BY <1>4
    <2>2. next[t] <= Len(T) /\ Len(T) \in Nat /\ next[t] \in Nat
      BY <1>1, <1>3, TicksOf
    <2>3. to \in Nat /\ next[t] < to
      BY <2>1, <2>2
    <2> HIDE DEF to
    <2> QED BY <1>1, <1>2, <2>3
  <1>5. CASE later # {}
    <2>1. later \subseteq Nat
      BY <1>3, TicksOf DEF Due
    <2>2. \E x \in later : \A y \in later : ~ (<<y, x>> \in OpToRel(<, Nat))
      BY <1>5, <2>1, WFMin, NatLessThanWellFounded
    <2>3. \E x \in later : \A y \in later : x <= y
      <3> HIDE DEF later
      <3>1. PICK x \in later : \A y \in later : ~ (<<y, x>> \in OpToRel(<, Nat))
        BY <2>2
      <3>2. ASSUME NEW y \in later PROVE x <= y
        <4>1. x \in Nat /\ y \in Nat /\ ~ (<<y, x>> \in OpToRel(<, Nat))
          BY <2>1, <3>1
        <4>2. y < x => <<y, x>> \in OpToRel(<, Nat)
          BY <4>1 DEF OpToRel
        <4>3. ~ (y < x)
          BY <4>1, <4>2, Zenon
        <4>4. x \in Nat /\ y \in Nat
          BY <4>1
        <4> QED BY <4>3, <4>4
      <3> QED BY <3>2
    <2>4. to \in later
      <3> HIDE DEF later
      <3> QED BY <1>5, <2>3
    <2>5. to \in DOMAIN T /\ T[to] > Clock(t.node)
      BY <2>4 DEF Due
    <2> HIDE DEF to
    <2>6. /\ to \in Nat /\ next[t] \in Nat /\ T[to] \in Int /\ T[next[t]] \in Int
          /\ to < next[t] => T[to] < T[next[t]]
      BY <1>1, <1>3, <2>5, TicksOf
    <2>7. next[t] < to
      BY <1>1, <1>3, <2>5, <2>6
    <2> QED BY <1>1, <1>2, <2>6, <2>7
  <1> QED BY <1>4, <1>5

(* Steps that fire no timer and change no lock or run keep what is past.    *)
LEMMA QuietPast ==
    ASSUME RInv, IInv', next' \in [Timer -> Nat],
           \A t \in Timer : next'[t] \in {0, next[t]},
           asking' \subseteq asking, handling' \subseteq handling,
           UNCHANGED <<locks, ran, refused>>
    PROVE  RInv'
  <1>1. \A r : Past(r) => Past(r)'
    BY DEF Past, Due
  <1>2. AllPast'
    BY <1>1 DEF RInv, AllPast
  <1>3. RefusedTickWasRun'
    BY DEF RInv, RefusedTickWasRun
  <1> QED BY <1>2, <1>3 DEF RInv

LEMMA FiresPast ==
    ASSUME CronAssumption, TicksAssumption, RInv, IInv', NEW t \in Timer, Fires(t)
    PROVE  RInv'
  <1>0. PICK r : r = [timer |-> t, tick |-> next[t], bucket |-> timeBucket(t.node),
                      late |-> Clock(t.node) - Ticks[t.cron][next[t]]]
    OBVIOUS
  <1>1. /\ next[t] \in Due(t) /\ Clock(t.node) >= Ticks[t.cron][next[t]]
        /\ asking' = asking \cup {r}
        /\ UNCHANGED <<locks, ran, refused, handling, now>>
    BY <1>0 DEF Fires
  <1>2. /\ next' \in [Timer -> Nat] /\ next[t] < next'[t]
        /\ \A x \in Timer : x # t => next'[x] = next[x]
    <2>1. now \in Int /\ AllPast
      BY DEF RInv, IInv, Times
    <2> QED BY <2>1, NextTick
  <1>3. /\ next[t] \in Nat \ {0} /\ Ticks[t.cron][next[t]] \in Int
        /\ Clock(t.node) \in Int
    <2>1. t.cron \in Cron /\ t.node \in Node
      BY TimerOf
    <2>2. next[t] \in DOMAIN Ticks[t.cron]
      BY <1>1 DEF Due
    <2>3. Clock(t.node) \in Int
      BY <2>1 DEF Clock, CronAssumption, RInv, IInv, Times
    <2> QED BY <2>1, <2>2, <2>3, TicksOf
  <1>4. /\ r.timer = t /\ r.tick = next[t] /\ r.bucket = Clock(t.node) \div Second
        /\ r.late = Clock(t.node) - Ticks[t.cron][next[t]]
    BY <1>0 DEF timeBucket
  <1>5. Past(r)'
    <2>1. r.late \in Nat /\ Ticks[t.cron][next[t]] + r.late = Clock(t.node)
      BY <1>1, <1>3, <1>4
    <2> QED BY <1>1, <1>2, <1>3, <1>4, <2>1 DEF Past, Due
  <1>6. ASSUME NEW x, Past(x) PROVE Past(x)' /\ x # r
    <2>1. x.timer \in Timer /\ x.tick \in Due(x.timer)
          /\ (next[x.timer] = 0 \/ x.tick < next[x.timer])
      BY <1>6 DEF Past
    <2>2. x.tick \in Nat \ {0}
      BY <2>1, TimerOf, TicksOf DEF Due
    <2>3. /\ next[x.timer] \in Nat /\ next'[x.timer] \in Nat
          /\ x.timer = t => x.tick < next'[t] /\ x.tick # next[t]
      BY <1>2, <1>3, <2>1, <2>2 DEF RInv, AllPast
    <2>4. next'[x.timer] = 0 \/ x.tick < next'[x.timer]
      BY <1>2, <2>1, <2>3
    <2> QED BY <1>4, <1>6, <2>3, <2>4 DEF Past, Due
  <1>7. AllPast'
    BY <1>1, <1>2, <1>5, <1>6 DEF RInv, AllPast
  <1>8. RefusedTickWasRun'
    BY <1>1 DEF RInv, RefusedTickWasRun
  <1> QED BY <1>7, <1>8 DEF RInv

(* Whoever is refused finds the lock of a run, or one without a run.         *)
LEMMA RefusedPast ==
    ASSUME CronAssumption, TicksAssumption, RInv, IInv', NEW r \in asking, IsRefused(r)
    PROVE  RInv'
  <1>1. /\ Held(r) # {} /\ asking' = asking \ {r} /\ refused' = refused \cup {r}
        /\ UNCHANGED <<next, locks, ran, handling>>
    BY DEF IsRefused
  <1>2. \A x : Past(x) => Past(x)'
    BY <1>1 DEF Past, Due
  <1>3. AllPast'
    BY <1>1, <1>2 DEF RInv, AllPast
  <1>4. PICK l \in locks : l.name = NameOf[r.timer.cron] /\ l.bucket = r.bucket
    BY <1>1 DEF Held
  <1>5. ASSUME NEW a \in ran, a.run = l.by
        PROVE  \/ a.run.tick = r.tick /\ a.run.timer.cron = r.timer.cron
               \/ /\ a.run.bucket = r.bucket /\ NameOf[a.run.timer.cron] = NameOf[r.timer.cron]
                  /\ (a.run.timer.cron # r.timer.cron \/ a.run.late >= Second \/ r.late >= Second)
    <2>1. Slot(l, a.run)
      BY <1>5 DEF RInv, IInv, Times
    <2>2. a.run.bucket = r.bucket /\ NameOf[a.run.timer.cron] = NameOf[r.timer.cron]
      BY <1>4, <2>1 DEF Slot
    <2>3. Past(a.run) /\ Past(r)
      BY DEF RInv, AllPast
    <2>4. a.run.late \in Nat /\ r.late \in Nat /\ Second \in Nat
      BY <2>3 DEF Past, CronAssumption
    <2>5. CASE a.run.timer.cron = r.timer.cron /\ a.run.late < Second /\ r.late < Second
      BY <2>2, <2>3, <2>5, SameTick
    <2> QED BY <2>2, <2>4, <2>5
  <1>6. RefusedTickWasRun'
    <2> SUFFICES ASSUME NEW x \in refused'
                 PROVE  \/ \E a \in ran : a.run.tick = x.tick /\ a.run.timer.cron = x.timer.cron
                        \/ \E k \in locks : k.name = NameOf[x.timer.cron] /\ k.bucket = x.bucket
                             /\ \A a \in ran : a.run # k.by
                        \/ \E a \in ran : a.run.bucket = x.bucket
                             /\ NameOf[a.run.timer.cron] = NameOf[x.timer.cron]
                             /\ (a.run.timer.cron # x.timer.cron \/ a.run.late >= Second \/ x.late >= Second)
      BY <1>1 DEF RefusedTickWasRun
    <2>1. CASE x \in refused
      BY <2>1 DEF RInv, RefusedTickWasRun
    <2>2. CASE x = r /\ \E a \in ran : a.run = l.by
      <3>1. PICK a \in ran : a.run = l.by
        BY <2>2
      <3>2. \/ a.run.tick = r.tick /\ a.run.timer.cron = r.timer.cron
            \/ /\ a.run.bucket = r.bucket /\ NameOf[a.run.timer.cron] = NameOf[r.timer.cron]
               /\ (a.run.timer.cron # r.timer.cron \/ a.run.late >= Second \/ r.late >= Second)
        BY <1>5, <3>1
      <3> QED BY <2>2, <3>2
    <2>3. CASE x = r /\ \A a \in ran : a.run # l.by
      BY <1>4, <2>3
    <2> QED BY <1>1, <2>1, <2>2, <2>3
  <1> QED BY <1>3, <1>6 DEF RInv

(* A run that gets its lock had none, so a lock without a run stays one.     *)
LEMMA AcquiresPast ==
    ASSUME RInv, IInv', NEW r \in asking, Acquires(r) PROVE RInv'
  <1> DEFINE new == [run |-> r, at |-> now]
  <1>1. /\ asking' = asking \ {r} /\ locks' = locks \cup {Lock(r)}
        /\ handling' = handling \cup {r} /\ ran' = ran \cup {new}
        /\ UNCHANGED <<next, refused>>
    BY DEF Acquires
  <1>2. new.run = r /\ Lock(r).by = r
    BY DEF Lock
  <1>3. \A x : Past(x) => Past(x)'
    BY <1>1 DEF Past, Due
  <1> HIDE DEF new
  <1>4. AllPast'
    BY <1>1, <1>2, <1>3 DEF RInv, AllPast
  <1>5. \A l \in locks : l.by # r
    BY DEF RInv, AllPast
  <1>6. RefusedTickWasRun'
    BY <1>1, <1>2, <1>5 DEF RInv, RefusedTickWasRun
  <1> QED BY <1>4, <1>6 DEF RInv

LEMMA ThrowsPast ==
    ASSUME RInv, IInv', NEW r \in asking, StoreThrows(r) PROVE RInv'
  <1>1. /\ asking' = asking \ {r} /\ locks \subseteq locks'
        /\ locks' \subseteq locks \cup {Lock(r)}
        /\ UNCHANGED <<next, ran, refused, handling>>
    BY DEF StoreThrows
  <1>2. Lock(r).by = r
    BY DEF Lock
  <1>3. \A x : Past(x) => Past(x)'
    BY <1>1 DEF Past, Due
  <1>4. AllPast'
    BY <1>1, <1>2, <1>3 DEF RInv, AllPast
  <1>5. RefusedTickWasRun'
    BY <1>1 DEF RInv, RefusedTickWasRun
  <1> QED BY <1>4, <1>5 DEF RInv

LEMMA ExtendPast ==
    ASSUME RInv, IInv', NEW r \in handling, extendLock(r) PROVE RInv'
  <1>1. /\ locks' = {l \in locks : l.by # r} \cup {Lock(r)}
        /\ UNCHANGED <<next, ran, refused, handling, asking>>
    BY DEF extendLock
  <1>2. Lock(r).by = r
    BY DEF Lock
  <1>3. PICK a \in ran : a.run = r
    BY DEF RInv, AllPast
  <1>4. Past(r) /\ r \notin asking
    BY <1>3 DEF RInv, AllPast
  <1>5. \A x : Past(x) => Past(x)'
    BY <1>1 DEF Past, Due
  <1>6. AllPast'
    BY <1>1, <1>2, <1>4, <1>5 DEF RInv, AllPast
  (* A lock without a run is not the run's that extends.                    *)
  <1>7. \A l \in locks : (\A b \in ran : b.run # l.by) => l \in locks'
    BY <1>1, <1>3
  <1>8. RefusedTickWasRun'
    BY <1>1, <1>7 DEF RInv, RefusedTickWasRun
  <1> QED BY <1>6, <1>8 DEF RInv

LEMMA InitPast == CronAssumption /\ CronInit => RInv
  <1>1. CronInit => AllPast
    BY DEF CronInit, AllPast
  <1>2. CronInit => RefusedTickWasRun
    BY DEF CronInit, RefusedTickWasRun
  <1> QED BY <1>1, <1>2, InitOnce DEF RInv

LEMMA NextPast == CronAssumption /\ TicksAssumption /\ RInv /\ [CronNext]_cronVars => RInv'
  <1> SUFFICES ASSUME CronAssumption, TicksAssumption, RInv, [CronNext]_cronVars PROVE RInv'
    OBVIOUS
  <1>1. IInv'
    BY NextOnce DEF RInv
  <1>2. next \in [Timer -> Nat] /\ \A t \in Timer : next[t] \in Nat
    BY DEF RInv, AllPast
  <1>3. ASSUME NEW t \in Timer, Fires(t) PROVE RInv'
    BY <1>1, <1>3, FiresPast
  <1>4. ASSUME NEW r \in asking, Acquires(r) \/ IsRefused(r) \/ StoreThrows(r) PROVE RInv'
    BY <1>1, <1>4, AcquiresPast, RefusedPast, ThrowsPast
  <1>5. ASSUME NEW r \in handling, extendLock(r) \/ Ends(r) PROVE RInv'
    <2>1. CASE Ends(r)
      BY <1>1, <1>2, <2>1, QuietPast DEF Ends
    <2> QED BY <1>1, <1>5, <2>1, ExtendPast
  <1>6. ASSUME NEW n \in MayEnd, stopAll(n) \/ Dies(n) PROVE RInv'
    <2>1. /\ next' \in [Timer -> Nat] /\ \A t \in Timer : next'[t] \in {0, next[t]}
      <3>1. CASE stopAll(n)
        <4>1. next' = [t \in Timer |-> IF t \in InJobs(n) THEN 0 ELSE next[t]]
          BY <3>1 DEF stopAll
        <4> QED BY <1>2, <4>1
      <3>2. CASE Dies(n)
        <4>1. next' = [t \in Timer |-> IF t.node = n THEN 0 ELSE next[t]]
          BY <3>2 DEF Dies
        <4> QED BY <1>2, <4>1
      <3> QED BY <1>6, <3>1, <3>2
    <2>2. /\ asking' \subseteq asking /\ handling' \subseteq handling
          /\ UNCHANGED <<locks, ran, refused>>
      BY <1>6 DEF stopAll, Dies
    <2> QED BY <1>1, <2>1, <2>2, QuietPast
  <1>7. CASE Passes
    BY <1>1, <1>2, <1>7, QuietPast DEF Passes
  <1>8. CASE UNCHANGED cronVars
    BY <1>1, <1>2, <1>8, QuietPast DEF cronVars
  <1> QED BY <1>3, <1>4, <1>5, <1>6, <1>7, <1>8 DEF CronNext

(* A node that finds the slot of its tick taken gives nothing up: the tick   *)
(* was handled, or the lock is that of a run whose request failed, of a cron *)
(* with the same name, or of a tick that was a second late.                 *)
THEOREM CronRefusalIsSafe == CronSpec => []RefusedTickWasRun
  <1>1. CronInit => RInv
    BY CronAssumption, InitPast
  <1>2. RInv /\ [CronNext]_cronVars => RInv'
    BY CronAssumption, TicksAssumption, NextPast
  <1>3. RInv => RefusedTickWasRun
    BY DEF RInv
  <1> QED BY <1>1, <1>2, <1>3, PTL DEF CronSpec
=============================================================================
