----------------------------- MODULE Bootstrap -----------------------------
(***************************************************************************)
(* Calls of createApplication in one process, one after the other or       *)
(* interleaved where they await: tests create several applications, and a  *)
(* call that failed is made again.  initOnce and registerInstanceHandlers  *)
(* guard against doing things twice by two caches that outlive a call:     *)
(* promises by token (globalInitPromises) and handlers by instance         *)
(* (globalHandlersCache).  The bus outlives it too.                        *)
(***************************************************************************)
EXTENDS ComponentTree, Integers, FiniteSets

CONSTANTS App,         (* calls of createApplication                        *)
          Class,       (* the class each call creates                       *)
          Singleton,   (* tokens and controllers of which the container     *)
                       (* keeps one instance                                *)
          Value,       (* tokens registered or given as an object           *)
          HasInit,     (* those with an onInit                              *)
          MaxThrows,   (* how often an onInit or a listen may throw         *)
          MaxResets    (* how often container.reset() may be called         *)

ASSUME BootstrapAssumption ==
       /\ Class \in [App -> Component]
       /\ Singleton \cap Value = {}
       /\ MaxThrows \in Nat /\ MaxResets \in Nat

VARIABLES mode,        (* where each call is                                *)
          at,          (* the step of its plan                              *)
          made,        (* the container's generation when it started        *)
          gen,         (* how often the container was reset                 *)
          promise,     (* globalInitPromises                                *)
          initialized, (* instances with the mark of setInitialized         *)
          ran,         (* onInit calls that returned: instance, call, step  *)
          bus,         (* the transports registered on the message bus      *)
          targets,     (* the transports a call is listening on             *)
          registered,  (* globalHandlersCache: instance and handler         *)
          subs,        (* subscriptions of the transports                   *)
          excused,     (* handlers whose listens overlapped or half failed  *)
          throws

control == <<mode, at, made, gen, throws>>
inits == <<promise, initialized, ran>>
messaging == <<bus, targets, registered, subs, excused>>
vars == <<control, inits, messaging>>

PlanOf == [a \in App |-> Plan(Class[a])]
Now(a) == PlanOf[a][at[a]]

(* What container.resolve returns: a singleton of the current container, a  *)
(* given object, or else a new object for each place that asks.             *)
Instance(a, s) == IF s.who \in Singleton THEN <<s.who, made[a]>>
                  ELSE IF s.who \in Value THEN <<s.who>>
                  ELSE <<s.who, a, s.of>>

Init == /\ mode = [a \in App |-> "new"]
        /\ at = [a \in App |-> 1]
        /\ made = [a \in App |-> 0] /\ gen = 0 /\ throws = 0
        /\ promise = [t \in Token \cup Component |-> "none"]
        /\ initialized = {} /\ ran = {}
        /\ bus = {} /\ targets = [a \in App |-> {}]
        /\ registered = {} /\ subs = {} /\ excused = {}

(* The call goes on with the next step, or resolves after the last.         *)
Advance(a) == /\ at' = [at EXCEPT ![a] = @ + 1]
              /\ mode' = [mode EXCEPT ![a] =
                            IF at[a] < Len(PlanOf[a]) THEN "ready" ELSE "up"]

Create(a) ==
    /\ mode[a] = "new"
    /\ mode' = [mode EXCEPT ![a] = "ready"]
    /\ made' = [made EXCEPT ![a] = gen]
    /\ UNCHANGED <<at, gen, throws, inits, messaging>>

(* container.reset(), between preparations.  The MessageBus made anew is    *)
(* the one there was, which the process keeps outside of the container.     *)
Reset ==
    /\ gen < MaxResets
    /\ \A a \in App : mode[a] \in {"new", "up", "failed"}
    /\ gen' = gen + 1
    /\ UNCHANGED <<mode, at, made, throws, inits, messaging>>
-----------------------------------------------------------------------------
AtInit(a) == mode[a] = "ready" /\ Now(a).op \in {"init", "transport"}

(* registerTransport, before the initOnce of the transport.                 *)
Registered(a) == bus' = IF Now(a).op = "transport" THEN bus \cup {Now(a).who} ELSE bus

(* initOnce finds nothing to do: no onInit, a kept promise, or the mark.    *)
InitSkipped(a) ==
    /\ AtInit(a)
    /\ LET t == Now(a).who IN
         /\ \/ t \notin HasInit \/ promise[t] = "kept"
            \/ promise[t] = "none" /\ Instance(a, Now(a)) \in initialized
         /\ promise' = [promise EXCEPT ![t] = IF t \in HasInit THEN "kept" ELSE @]
    /\ Registered(a) /\ Advance(a)
    /\ UNCHANGED <<made, gen, throws, initialized, ran, targets, registered, subs, excused>>

(* ... or a promise another call made, and awaits it ...                    *)
InitJoins(a) ==
    /\ AtInit(a)
    /\ Now(a).who \in HasInit /\ promise[Now(a).who] = "pending"
    /\ mode' = [mode EXCEPT ![a] = "joining"]
    /\ Registered(a)
    /\ UNCHANGED <<at, made, gen, throws, inits, targets, registered, subs, excused>>

(* Faulty: the promise is cached when it is kept.                           *)
InitBeginsUncached(a) ==
    /\ AtInit(a)
    /\ Now(a).who \in HasInit /\ promise[Now(a).who] = "none"
    /\ Instance(a, Now(a)) \notin initialized
    /\ mode' = [mode EXCEPT ![a] = "initing"]
    /\ Registered(a)
    /\ UNCHANGED <<at, made, gen, throws, inits, targets, registered, subs, excused>>

(* ... or calls onInit.                                                     *)
InitBegins(a) ==
    /\ AtInit(a)
    /\ Now(a).who \in HasInit /\ promise[Now(a).who] = "none"
    /\ Instance(a, Now(a)) \notin initialized
    /\ promise' = [promise EXCEPT ![Now(a).who] = "pending"]
    /\ mode' = [mode EXCEPT ![a] = "initing"]
    /\ Registered(a)
    /\ UNCHANGED <<at, made, gen, throws, initialized, ran, targets, registered, subs, excused>>

InitReturns(a) ==
    /\ mode[a] = "initing"
    /\ LET i == Instance(a, Now(a)) IN
         /\ initialized' = initialized \cup {i}
         /\ ran' = ran \cup {<<i, a, at[a]>>}
    /\ promise' = [promise EXCEPT ![Now(a).who] = "kept"]
    /\ Advance(a)
    /\ UNCHANGED <<made, gen, throws, messaging>>

InitJoined(a) ==
    /\ mode[a] = "joining" /\ promise[Now(a).who] = "kept"
    /\ Advance(a)
    /\ UNCHANGED <<made, gen, throws, inits, messaging>>

(* Faulty: the rejected promise stays in the cache, and nobody who joins    *)
(* it later hears of it.                                                    *)
InitThrowsKept(a) ==
    /\ mode[a] = "initing" /\ throws < MaxThrows
    /\ mode' = [mode EXCEPT ![a] = "failed"]
    /\ throws' = throws + 1
    /\ UNCHANGED <<at, made, gen, inits, messaging>>

(* The promise is forgotten, and every call that awaits it rejects.         *)
InitThrows(a) ==
    /\ mode[a] = "initing" /\ throws < MaxThrows
    /\ promise' = [promise EXCEPT ![Now(a).who] = "none"]
    /\ mode' = [b \in App |-> IF b = a \/ (mode[b] = "joining" /\ Now(b).who = Now(a).who)
                                THEN "failed" ELSE mode[b]]
    /\ throws' = throws + 1
    /\ UNCHANGED <<at, made, gen, initialized, ran, messaging>>
-----------------------------------------------------------------------------
(* What a listen step registers.                                            *)
Handler(a) == <<Instance(a, Now(a)), Now(a).on>>

ListenSkipped(a) ==
    /\ mode[a] = "ready" /\ Now(a).op = "listen"
    /\ Handler(a) \in registered
    /\ Advance(a)
    /\ UNCHANGED <<made, gen, throws, inits, messaging>>

(* bus.listen on the transports there are at this moment.                   *)
ListenBegins(a) ==
    /\ mode[a] = "ready" /\ Now(a).op = "listen"
    /\ Handler(a) \notin registered
    /\ targets' = [targets EXCEPT ![a] = bus]
    /\ excused' = IF \E b \in App \ {a} : mode[b] = "listening" /\ Handler(b) = Handler(a)
                    THEN excused \cup {Handler(a)} ELSE excused
    /\ mode' = [mode EXCEPT ![a] = "listening"]
    /\ UNCHANGED <<at, made, gen, throws, inits, bus, registered, subs>>

Subscribed(a, T) == subs' = subs \cup {<<t, Handler(a), a, at[a]>> : t \in T}

(* Faulty: the handler is not remembered.                                   *)
ListenReturnsUnnoted(a) ==
    /\ mode[a] = "listening"
    /\ Subscribed(a, targets[a])
    /\ targets' = [targets EXCEPT ![a] = {}]
    /\ Advance(a)
    /\ UNCHANGED <<made, gen, throws, inits, bus, registered, excused>>

ListenReturns(a) ==
    /\ mode[a] = "listening"
    /\ Subscribed(a, targets[a])
    /\ registered' = registered \cup {Handler(a)}
    /\ targets' = [targets EXCEPT ![a] = {}]
    /\ Advance(a)
    /\ UNCHANGED <<made, gen, throws, inits, bus, excused>>

(* Faulty: the handler is remembered before the transports have answered.   *)
ListenThrowsNoted(a) ==
    /\ mode[a] = "listening" /\ throws < MaxThrows
    /\ \E T \in SUBSET targets[a] : T # targets[a] /\ Subscribed(a, T)
    /\ registered' = registered \cup {Handler(a)}
    /\ targets' = [targets EXCEPT ![a] = {}]
    /\ mode' = [mode EXCEPT ![a] = "failed"]
    /\ throws' = throws + 1
    /\ UNCHANGED <<at, made, gen, inits, bus, excused>>

(* One transport rejects; others may have subscribed.                       *)
ListenThrows(a) ==
    /\ mode[a] = "listening" /\ throws < MaxThrows
    /\ \E T \in SUBSET targets[a] :
         /\ T # targets[a]
         /\ Subscribed(a, T)
         /\ excused' = IF T = {} THEN excused ELSE excused \cup {Handler(a)}
    /\ targets' = [targets EXCEPT ![a] = {}]
    /\ mode' = [mode EXCEPT ![a] = "failed"]
    /\ throws' = throws + 1
    /\ UNCHANGED <<at, made, gen, inits, bus, registered>>
-----------------------------------------------------------------------------
(* The idempotency store's and a bootstrap's onInit are called without      *)
(* initOnce, by every createApplication.                                    *)
DirectBegins(a) ==
    /\ mode[a] = "ready" /\ Now(a).op \in {"store", "boot"}
    /\ mode' = [mode EXCEPT ![a] = "running"]
    /\ UNCHANGED <<at, made, gen, throws, inits, messaging>>

DirectReturns(a) ==
    /\ mode[a] = "running"
    /\ ran' = ran \cup {<<Instance(a, Now(a)), a, at[a]>>}
    /\ Advance(a)
    /\ UNCHANGED <<made, gen, throws, promise, initialized, messaging>>

DirectThrows(a) ==
    /\ mode[a] = "running" /\ throws < MaxThrows
    /\ mode' = [mode EXCEPT ![a] = "failed"]
    /\ throws' = throws + 1
    /\ UNCHANGED <<at, made, gen, inits, messaging>>
-----------------------------------------------------------------------------
Continue(a) == \/ InitSkipped(a) \/ InitJoins(a) \/ InitBegins(a) \/ InitReturns(a)
               \/ InitJoined(a) \/ InitThrows(a)
               \/ ListenSkipped(a) \/ ListenBegins(a) \/ ListenReturns(a) \/ ListenThrows(a)
               \/ DirectBegins(a) \/ DirectReturns(a) \/ DirectThrows(a)

(* The process lives on when its calls have ended, or all wait for another. *)
Rest == (\A a \in App : mode[a] \in {"up", "failed", "joining"}) /\ UNCHANGED vars

Next == \/ \E a \in App : Create(a) \/ Continue(a)
        \/ Reset
        \/ Rest

(* Every onInit and listen returns or throws; nobody need create an app.    *)
Spec == Init /\ [][Next]_vars /\ \A a \in App : WF_vars(Continue(a))
-----------------------------------------------------------------------------
TypeOK ==
    /\ mode \in [App -> {"new", "ready", "initing", "joining", "listening", "running",
                         "up", "failed"}]
    /\ \A a \in App : at[a] \in 1..(Len(PlanOf[a]) + 1)
    /\ \A a \in App : made[a] <= gen
    /\ promise \in [Token \cup Component -> {"none", "pending", "kept"}]
    /\ \A t \in Token \cup Component : promise[t] = "pending" <=>
         \E a \in App : mode[a] = "initing" /\ Now(a).who = t

(* onInit of a service, a transport or an app returns at most once for each *)
(* instance, whatever interleaves, fails and is tried again: all but the    *)
(* stores and bootstraps, which are not initialised by initOnce.            *)
InitAtMostOnce ==
    \A r1, r2 \in ran : r1[1] = r2[1] /\ r1 # r2 =>
        PlanOf[r1[2]][r1[3]].op \in {"store", "boot"} \/ PlanOf[r2[2]][r2[3]].op \in {"store", "boot"}

(* An application that is up has initialised singletons and transports, and *)
(* each of its handlers is subscribed on each of its transports.  The       *)
(* promises are kept by token: after container.reset() the onInit of a      *)
(* singleton that an earlier container initialised does not run again.      *)
IsReady(a, s) ==
    /\ s.op \in {"init", "transport"} /\ s.who \in HasInit \cap (Singleton \cup Value)
         => \/ Instance(a, s) \in initialized
            \/ \E g \in 0..(made[a] - 1) : <<s.who, g>> \in initialized
    /\ s.op = "listen" => \A t \in Range(Transports[Class[a]]) :
         \E x \in subs : x[1] = t /\ x[2] = <<Instance(a, s), s.on>>

UpIsReady == \A a \in App : mode[a] = "up" => \A s \in Range(PlanOf[a]) : IsReady(a, s)

(* A handler is subscribed twice on a transport only if two calls were      *)
(* listening for it at the same time, or if a listen failed on one          *)
(* transport after it had succeeded on another.                             *)
TwiceOnlyIfExcused ==
    \A x, y \in subs : x[1] = y[1] /\ x[2] = y[2] /\ x # y => x[2] \in excused

(* A createApplication that was called resolves or rejects.                 *)
PreparationEnds ==
    \A a \in App : mode[a] # "new" ~> mode[a] \in {"up", "failed"}
=============================================================================
