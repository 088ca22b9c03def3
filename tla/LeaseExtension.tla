-------------------------- MODULE LeaseExtension --------------------------
(***************************************************************************)
(* runUsing (lib/lock/lock.ts) over RedisConcurrencyStore: what "using" of *)
(* that store does for each caller: take a lock, run a routine, extend the *)
(* lock by a timer as long as the routine runs, release it.                *)
(*                                                                         *)
(* A caller is one call of using and also the id of its lock.  An extend   *)
(* is in flight from the moment it is sent; Redis executes the commands of *)
(* a caller in the order they were sent.  expires and timer are the time   *)
(* left until lock.expiration and until the timer goes off.                *)
(***************************************************************************)
EXTENDS Integers, FiniteSets

CONSTANTS Caller, Resource,
          ResourceOf,   (* the resource each caller asks for                *)
          Limit,        (* settings.limit || 1, for each resource           *)
          Duration,     (* the duration of every lock                       *)
          Threshold,    (* automaticExtensionThreshold                      *)
          Slack,        (* how long calls and timers of a caller are late,  *)
                        (* together, from one extension to the next         *)
          MayFail,      (* may calls of the store fail?                     *)
          Absent

ASSUME ExtensionAssumption ==
       /\ IsFiniteSet(Caller)
       /\ ResourceOf \in [Caller -> Resource]
       /\ Limit \in [Resource -> Nat \ {0}]
       /\ Duration \in Nat \ {0}
       /\ Threshold \in 1..(Duration - 1)
       /\ Slack \in Nat
       /\ MayFail \in BOOLEAN
       /\ Absent \notin Resource \cup Nat \cup [key : Resource, left : 0..Duration]

VARIABLES zset, handle,  (* the store                                        *)
          pc,            (* where using is                                   *)
          expires,       (* lock.expiration                                  *)
          timer,         (* the timer of queue, or Absent                    *)
          call,          (* the extend in flight                             *)
          aborted,       (* is the signal aborted?                           *)
          waited,        (* did the end of using wait for an extension?      *)
          late,          (* how much of Slack the caller has used            *)
          failed         (* has an extend of the caller thrown?              *)

store == <<zset, handle>>
vars == <<zset, handle, pc, expires, timer, call, aborted, waited, late, failed>>

Store == INSTANCE RedisConcurrencyStore
           WITH Lock <- Caller, MaxTtl <- Duration, LateExtend <- TRUE

Init == /\ Store!Init
        /\ pc = [u \in Caller |-> "idle"]
        /\ expires = [u \in Caller |-> 0]
        /\ timer = [u \in Caller |-> Absent]
        /\ call = [u \in Caller |-> "none"]
        /\ aborted = [u \in Caller |-> FALSE]
        /\ waited = [u \in Caller |-> FALSE]
        /\ late = [u \in Caller |-> 0]
        /\ failed = [u \in Caller |-> FALSE]

(* Faulty: the timer goes off at the expiration.                            *)
QueueAtExpiration == Duration

(* lock.expiration - Date.now() - automaticExtensionThreshold, right after  *)
(* lock.expiration was set.                                                 *)
QueueIn == Duration - Threshold
-----------------------------------------------------------------------------
(* The acquire script has run; its reply is on the way.                     *)
Acquire(u) ==
    /\ pc[u] = "idle"
    /\ Store!acquire(u, ResourceOf[u], Duration)
    /\ pc' = [pc EXCEPT ![u] = "acquiring"]
    /\ UNCHANGED <<expires, timer, call, aborted, waited, late, failed>>

(* "Lock limit reached".                                                    *)
AcquireRefused(u) ==
    /\ pc[u] = "idle"
    /\ Store!acquireRefused(ResourceOf[u])
    /\ pc' = [pc EXCEPT ![u] = "done"]
    /\ UNCHANGED <<expires, timer, call, aborted, waited, late, failed>>

(* acquire throws, before or after Redis ran the script.                    *)
AcquireThrows(u) ==
    /\ MayFail
    /\ pc[u] = "idle"
    /\ UNCHANGED store \/ Store!acquireReplyLost(u, ResourceOf[u], Duration)
    /\ pc' = [pc EXCEPT ![u] = "rejected"]
    /\ UNCHANGED <<expires, timer, call, aborted, waited, late, failed>>

(* The expiration is counted from the reply, the timer is set, the routine  *)
(* starts.                                                                  *)
Begin(u) ==
    /\ pc[u] = "acquiring"
    /\ pc' = [pc EXCEPT ![u] = "routine"]
    /\ expires' = [expires EXCEPT ![u] = Duration]
    /\ timer' = [timer EXCEPT ![u] = QueueIn]
    /\ UNCHANGED <<store, call, aborted, waited, late, failed>>
-----------------------------------------------------------------------------
(* An extend sent while a release is on its way comes after it.             *)
Sent(u) == IF pc[u] = "releasing" THEN "behind" ELSE "sent"

(* The timer goes off, whatever has become of the routine.                  *)
TimerFires(u) ==
    /\ timer[u] = 0
    /\ timer' = [timer EXCEPT ![u] = Absent]
    /\ call' = [call EXCEPT ![u] = Sent(u)]
    /\ UNCHANGED <<store, pc, expires, aborted, waited, late, failed>>

(* Redis runs the script of the extend.                                     *)
ExtendRuns(u) ==
    /\ call[u] = "sent"
    /\ Store!extend(u, Duration)
    /\ call' = [call EXCEPT ![u] = "run"]
    /\ late' = [late EXCEPT ![u] = 0]
    /\ UNCHANGED <<pc, expires, timer, aborted, waited, failed>>

(* What awaits the extend in flight, if anything does, goes on.             *)
Resume(u) == pc' = [pc EXCEPT ![u] = IF @ = "draining" THEN "releasing" ELSE @]

ExtendReturns(u) ==
    /\ call[u] = "run"
    /\ call' = [call EXCEPT ![u] = "none"]
    /\ expires' = [expires EXCEPT ![u] = Duration]
    /\ timer' = [timer EXCEPT ![u] = QueueIn]
    /\ Resume(u)
    /\ UNCHANGED <<store, aborted, waited, late, failed>>

(* Faulty: tries again whether or not the lock has expired.                 *)
ExtendThrowsRetrying(u) ==
    /\ MayFail
    /\ call[u] # "none"
    /\ failed' = [failed EXCEPT ![u] = TRUE]
    /\ call' = [call EXCEPT ![u] = Sent(u)]
    /\ Resume(u)
    /\ UNCHANGED <<store, expires, timer, aborted, waited, late>>

(* The extend throws, before or after Redis ran it: while the lock has not  *)
(* expired it is sent again at once, by a new promise; then the signal is   *)
(* aborted and no timer is set.                                             *)
ExtendThrows(u) ==
    /\ MayFail
    /\ call[u] # "none"
    /\ failed' = [failed EXCEPT ![u] = TRUE]
    /\ IF expires[u] > 0
         THEN call' = [call EXCEPT ![u] = Sent(u)] /\ UNCHANGED aborted
         ELSE /\ call' = [call EXCEPT ![u] = "none"]
              /\ aborted' = [aborted EXCEPT ![u] = TRUE]
    /\ Resume(u)
    /\ UNCHANGED <<store, expires, timer, waited, late>>
-----------------------------------------------------------------------------
(* Faulty: the timer is not cleared.                                        *)
RoutineEndsUncleared(u) ==
    /\ pc[u] = "routine"
    /\ waited' = [waited EXCEPT ![u] = call[u] # "none"]
    /\ pc' = [pc EXCEPT ![u] = IF call[u] # "none" THEN "draining" ELSE "releasing"]
    /\ UNCHANGED <<store, expires, timer, call, aborted, late, failed>>

(* The routine returns or throws; the finally clears the timer and waits    *)
(* for the extension in flight.                                             *)
RoutineEnds(u) ==
    /\ pc[u] = "routine"
    /\ timer' = [timer EXCEPT ![u] = Absent]
    /\ waited' = [waited EXCEPT ![u] = call[u] # "none"]
    /\ pc' = [pc EXCEPT ![u] = IF call[u] # "none" THEN "draining" ELSE "releasing"]
    /\ UNCHANGED <<store, expires, call, aborted, late, failed>>

(* The release runs after an extend that was sent before it, also after one *)
(* that was sent again when the first was awaited.  The closure of extend   *)
(* keeps the lock.                                                          *)
Release(u) ==
    /\ pc[u] = "releasing"
    /\ call[u] \in {"none", "behind"}
    /\ Store!release(u)
    /\ handle' = handle
    /\ pc' = [pc EXCEPT ![u] = "done"]
    /\ call' = [call EXCEPT ![u] = IF @ = "behind" THEN "sent" ELSE @]
    /\ UNCHANGED <<expires, timer, aborted, waited, late, failed>>

(* The release throws, before or after Redis ran it.                        *)
ReleaseThrows(u) ==
    /\ MayFail
    /\ pc[u] = "releasing"
    /\ UNCHANGED store \/ (call[u] \in {"none", "behind"} /\ Store!release(u) /\ handle' = handle)
    /\ pc' = [pc EXCEPT ![u] = "rejected"]
    /\ call' = [call EXCEPT ![u] = IF @ = "behind" THEN "sent" ELSE @]
    /\ UNCHANGED <<expires, timer, aborted, waited, late, failed>>
-----------------------------------------------------------------------------
(* The caller waits for Redis, or for its event loop to run a due timer.    *)
Pending(u) == pc[u] = "acquiring" \/ call[u] # "none" \/ timer[u] = 0

(* Time passes.  As long as no extend of it has failed, a caller is not     *)
(* late by more than Slack from one extension to the next.                  *)
Tick ==
    /\ \E u \in Caller : Store!Live(u) \/ expires[u] > 0
    /\ \A u \in Caller : Pending(u) => failed[u] \/ late[u] < Slack
    /\ Store!Tick
    /\ expires' = [u \in Caller |-> IF expires[u] > 0 THEN expires[u] - 1 ELSE 0]
    /\ timer' = [u \in Caller |-> IF timer[u] \in 1..Duration THEN timer[u] - 1 ELSE timer[u]]
    /\ late' = [u \in Caller |-> IF Pending(u) /\ ~failed[u] THEN late[u] + 1 ELSE late[u]]
    /\ UNCHANGED <<pc, call, aborted, waited, failed>>

(* Nobody holds a lock, waits or runs: all may stop.                        *)
Rest == /\ \A u \in Caller : pc[u] \in {"idle", "done", "rejected"} /\ ~Pending(u)
        /\ UNCHANGED vars

Reply(u) == Begin(u) \/ TimerFires(u) \/ ExtendRuns(u) \/ ExtendReturns(u) \/ ExtendThrows(u)

Next == \/ \E u \in Caller : \/ Acquire(u) \/ AcquireRefused(u) \/ AcquireThrows(u)
                             \/ Reply(u)
                             \/ RoutineEnds(u) \/ Release(u) \/ ReleaseThrows(u)
        \/ Tick
        \/ Rest

(* Calls end, the event loop runs due timers, time passes; routines need    *)
(* not end.                                                                 *)
Fairness == /\ \A u \in Caller : /\ WF_vars(Begin(u)) /\ WF_vars(TimerFires(u))
                                 /\ WF_vars(ExtendReturns(u) \/ ExtendThrows(u) \/ ExtendRuns(u))
                                 /\ WF_vars(Release(u))
            /\ SF_vars(Tick)

Spec == Init /\ [][Next]_vars /\ Fairness
-----------------------------------------------------------------------------
TypeOK == /\ Store!TypeOK
          /\ pc \in [Caller -> {"idle", "acquiring", "routine", "draining", "releasing", "done",
                            "rejected"}]
          /\ expires \in [Caller -> 0..Duration]
          /\ timer \in [Caller -> (0..Duration) \cup {Absent}]
          /\ call \in [Caller -> {"none", "sent", "behind", "run"}]
          /\ \A u \in Caller : call[u] # "none" => timer[u] = Absent
          /\ \A u \in Caller : pc[u] = "draining" => call[u] # "none"
          /\ \A u \in Caller : call[u] = "behind" => pc[u] = "releasing"
          /\ aborted \in [Caller -> BOOLEAN] /\ waited \in [Caller -> BOOLEAN]
          /\ late \in [Caller -> 0..Slack]
          /\ failed \in [Caller -> BOOLEAN]

(* A routine is protected as long as it runs: if calls and timers are late  *)
(* by less than the threshold, its lock does not expire before the next     *)
(* extension has reached Redis.                                             *)
Protected ==
    Slack < Threshold =>
      \A u \in Caller : pc[u] = "routine" /\ ~failed[u] => Store!Live(u)

(* ... and then no resource has more routines than its limit, even where    *)
(* extensions of earlier callers arrive after their release.                *)
Running(r) == {u \in Caller : pc[u] = "routine" /\ ResourceOf[u] = r}

AtMostLimitRun ==
    Slack < Threshold =>
      \A r \in Resource : (\A u \in Running(r) : ~failed[u])
                            => Cardinality(Running(r)) <= Limit[r]

(* A using that had no extension in flight when its routine ended leaves    *)
(* nothing behind: no member in Redis and no timer.                         *)
QuietEndReleases ==
    \A u \in Caller : pc[u] = "done" /\ ~waited[u] => timer[u] = Absent /\ ~Store!Live(u)

(* A routine whose lock cannot be extended is told so.                      *)
LostIsTold ==
    \A u \in Caller : (pc[u] = "routine" /\ expires[u] = 0)
                        ~> (aborted[u] \/ expires[u] > 0 \/ pc[u] # "routine")

(* A using that has returned holds no lock any more.                        *)
Released == \A u \in Caller : pc[u] = "done" => ~Store!Live(u)
=============================================================================
