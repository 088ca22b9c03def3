--------------------------- MODULE CronScheduler ---------------------------
(***************************************************************************)
(* natsmq/cron: what the nodes of a cluster do with a cron whose times     *)
(* come.  They share a concurrency store, whose lock of a tick is named    *)
(* after the cron and the second the node's timer fired in, and is never   *)
(* released.  The timers (croner) and the store are external.              *)
(***************************************************************************)
EXTENDS Integers, Sequences

CONSTANTS Node,
          Cron,       (* methods with @OnCron, by meta.key                   *)
          NameOf,     (* the first argument of @OnCron                       *)
          Instances,  (* how many of the class a node registers: schedule is *)
                      (* called for each                                    *)
          Ticks,      (* the times of each schedule, in order               *)
          Skew,       (* how much a node's clock is fast                    *)
          Second,     (* units of time in a second                          *)
          lockTtl,
          Extends,    (* crons whose handler extends its lock, once          *)
          MayEnd,     (* nodes that may be stopped or die                   *)
          MaxTime, MaxFaults

ASSUME CronAssumption ==
       /\ Second \in Nat \ {0} /\ lockTtl \in Nat \ {0}
       /\ Skew \in [Node -> Nat] /\ MaxTime \in Nat /\ MaxFaults \in Nat
       /\ Ticks \in [Cron -> Seq(Int)]

(* Schedules are made of whole seconds.                                     *)
ASSUME TicksAssumption ==
       \A c \in Cron : \A i \in DOMAIN Ticks[c] :
         /\ Ticks[c][i] % Second = 0
         /\ \A j \in 1..(i - 1) : Ticks[c][j] < Ticks[c][i]

VARIABLES now,
          next,     (* the next tick of each timer, 0 if it is stopped      *)
          locks,    (* in the store: of whom, and until when                *)
          asking,   (* runs that wait for the store                         *)
          handling, (* runs whose handler is running                        *)
          ran,      (* every run whose handler was called, and when          *)
          refused,  (* every run the store refused                          *)
          extended, (* runs whose handler extended the lock                 *)
          faults

cronVars == <<now, next, locks, asking, handling, ran, refused, extended, faults>>

Timer == UNION {[node : {n}, cron : {c}, copy : 1..Instances[c][n]] : n \in Node, c \in Cron}

CronInit == /\ now = 0
            /\ next = [t \in Timer |-> 1]
            /\ locks = {} /\ asking = {} /\ handling = {} /\ ran = {} /\ refused = {}
            /\ extended = {} /\ faults = 0
-----------------------------------------------------------------------------
Clock(n) == now + Skew[n]

(* Faulty: the tick is rounded to two seconds.                              *)
CoarseBucket(n) == Clock(n) \div (2 * Second)

(* Math.floor(currentRun / 1000): croner's run starts when its timer fires. *)
timeBucket(n) == Clock(n) \div Second

Due(t) == DOMAIN Ticks[t.cron]

(* A timer fires at its tick or later, and then waits for the first tick     *)
(* that is still to come.                                                   *)
Fires(t) ==
    /\ next[t] \in Due(t) /\ Clock(t.node) >= Ticks[t.cron][next[t]]
    /\ LET later == {k \in Due(t) : Ticks[t.cron][k] > Clock(t.node)} IN
         next' = [next EXCEPT ![t] = IF later = {} THEN Len(Ticks[t.cron]) + 1
                                     ELSE CHOOSE k \in later : \A j \in later : k <= j]
    /\ asking' = asking \cup {[timer |-> t, tick |-> next[t], bucket |-> timeBucket(t.node),
                               late |-> Clock(t.node) - Ticks[t.cron][next[t]]]}
    /\ UNCHANGED <<now, locks, handling, ran, refused, extended, faults>>

Held(r) == {l \in locks : l.name = NameOf[r.timer.cron] /\ l.bucket = r.bucket /\ l.until > now}
Lock(r) == [name |-> NameOf[r.timer.cron], bucket |-> r.bucket, by |-> r, until |-> now + lockTtl]

(* store.acquire, and the handler if it has a lock.                         *)
Acquires(r) ==
    /\ r \in asking /\ Held(r) = {}
    /\ asking' = asking \ {r}
    /\ locks' = locks \cup {Lock(r)}
    /\ handling' = handling \cup {r}
    /\ ran' = ran \cup {[run |-> r, at |-> now]}
    /\ UNCHANGED <<now, next, refused, extended, faults>>

IsRefused(r) ==
    /\ r \in asking /\ Held(r) # {}
    /\ asking' = asking \ {r}
    /\ refused' = refused \cup {r}
    /\ UNCHANGED <<now, next, locks, handling, ran, extended, faults>>

(* store.acquire throws, before or after the store has made the lock.       *)
StoreThrows(r) ==
    /\ r \in asking /\ faults < MaxFaults
    /\ asking' = asking \ {r}
    /\ \/ UNCHANGED locks
       \/ Held(r) = {} /\ locks' = locks \cup {Lock(r)}
    /\ faults' = faults + 1
    /\ UNCHANGED <<now, next, handling, ran, refused, extended>>

(* context.extendLock; the Redis store makes an entry that is gone anew.    *)
extendLock(r) ==
    /\ r \in handling \ extended /\ r.timer.cron \in Extends
    /\ locks' = {l \in locks : l.by # r} \cup {Lock(r)}
    /\ extended' = extended \cup {r}
    /\ UNCHANGED <<now, next, asking, handling, ran, refused, faults>>

(* Faulty: the lock is released.                                            *)
EndsReleasing(r) ==
    /\ r \in handling
    /\ handling' = handling \ {r}
    /\ locks' = {l \in locks : l.by # r}
    /\ UNCHANGED <<now, next, asking, ran, refused, extended, faults>>

(* The handler returns or throws.  The lock stays.                          *)
Ends(r) ==
    /\ r \in handling
    /\ handling' = handling \ {r}
    /\ UNCHANGED <<now, next, locks, asking, ran, refused, extended, faults>>

(* stopAll stops the timers in the map of jobs, where a second instance has *)
(* taken the place of the first one; runs go on.                            *)
InJobs(n) == {t \in Timer : t.node = n /\ t.copy = Instances[t.cron][n]}
stopAll(n) ==
    /\ \E t \in InJobs(n) : next[t] # 0
    /\ next' = [t \in Timer |-> IF t \in InJobs(n) THEN 0 ELSE next[t]]
    /\ UNCHANGED <<now, locks, asking, handling, ran, refused, extended, faults>>

(* The process of a node dies; its locks stay.                              *)
Dies(n) ==
    /\ faults < MaxFaults
    /\ next' = [t \in Timer |-> IF t.node = n THEN 0 ELSE next[t]]
    /\ asking' = {r \in asking : r.timer.node # n}
    /\ handling' = {r \in handling : r.timer.node # n}
    /\ faults' = faults + 1
    /\ UNCHANGED <<now, locks, ran, refused, extended>>

Passes == now < MaxTime /\ now' = now + 1
          /\ UNCHANGED <<next, locks, asking, handling, ran, refused, extended, faults>>

CronNext == \/ \E t \in Timer : Fires(t)
            \/ \E r \in asking : Acquires(r) \/ IsRefused(r) \/ StoreThrows(r)
            \/ \E r \in handling : extendLock(r) \/ Ends(r)
            \/ \E n \in MayEnd : stopAll(n) \/ Dies(n)
            \/ Passes

CronSpec == CronInit /\ [][CronNext]_cronVars
-----------------------------------------------------------------------------
(* A tick of a cron is handled once in the cluster, unless a timer fired in *)
(* another second or a node asked when the lock had run out.                *)
TickRunsOnce ==
    \A a, b \in ran :
      /\ a # b /\ a.run.tick = b.run.tick
      /\ a.run.timer.cron = b.run.timer.cron /\ a.run.bucket = b.run.bucket
      => a.at >= b.at + lockTtl \/ b.at >= a.at + lockTtl

(* A node that is refused loses nothing: its tick was handled, or the lock  *)
(* was made by a request that seemed to fail, by a cron with the same name, *)
(* or in the second of a timer that was a second late.                      *)
RefusedTickWasRun ==
    \A r \in refused :
      \/ \E a \in ran : a.run.tick = r.tick /\ a.run.timer.cron = r.timer.cron
      \/ \E l \in locks : l.name = NameOf[r.timer.cron] /\ l.bucket = r.bucket
           /\ \A a \in ran : a.run # l.by
      \/ \E a \in ran : a.run.bucket = r.bucket /\ NameOf[a.run.timer.cron] = NameOf[r.timer.cron]
           /\ (a.run.timer.cron # r.timer.cron \/ a.run.late >= Second \/ r.late >= Second)
=============================================================================
