----------------------------- MODULE MessageBus -----------------------------
(***************************************************************************)
(* common/message-bus.ts with the idempotency interceptor, over the        *)
(* transports of lib/transports: a message is emitted to several of them,  *)
(* and the copies that come in are checked against a store that remembers  *)
(* message ids, call by call.  Transports differ in what becomes of a copy *)
(* that is not handled.                                                    *)
(***************************************************************************)
EXTENDS Integers, FiniteSets

CONSTANTS Process,
          Listener,    (* calls of listen: handlers of a topic               *)
          HomeOf,      (* the processes that make each                      *)
          ListensOn,   (* the transports: options.transport, or all          *)
          Message,     (* calls of emit                                     *)
          IdOf,        (* the id, for several calls if an idempotencyKey     *)
          SenderOf, TargetsOf,
          Mode,        (* of each transport                                 *)
          FixedId,     (* listeners with a subscriptionId of their own      *)
          Unchecked,   (* listeners with idempotency: false                 *)
          SharedStore, (* the store is Redis, not memory                    *)
          MaxFaults    (* handlers, requests and processes that fail         *)

(* InternalTransport calls the handlers of its process.  JetStream delivers  *)
(* to one process of a queue again until there is an ack.  A Redis stream   *)
(* delivers once to a group.  Plain NATS and Redis publish to every process.*)
Modes == {"internal", "jetstream", "stream", "published"}
Transport == DOMAIN Mode

ASSUME BusAssumption ==
       /\ HomeOf \in [Listener -> SUBSET Process]
       /\ ListensOn \in [Listener -> SUBSET Transport] /\ SenderOf \in [Message -> Process]
       /\ TargetsOf \in [Message -> SUBSET Transport] /\ Mode \in [Transport -> Modes]
       /\ FixedId \subseteq Listener /\ Unchecked \subseteq Listener
       /\ SharedStore \in BOOLEAN /\ MaxFaults \in Nat

VARIABLES life,     (* how often each process was started again             *)
          emitted,  (* "no", "sent", "resolved" or "rejected"             *)
          backlog,  (* what the brokers have to deliver                     *)
          copies,   (* what the processes are working on                    *)
          store,    (* the keys the idempotency store has                   *)
          settled,  (* keys of copies that were acked, or whose call returned*)
          once, twice,               (* keys whose handler succeeded         *)
          raced, forgotten, cutOff,  (* keys two copies set, that were lost, *)
                                     (* whose handler failed after the set   *)
          faults

vars == <<life, emitted, backlog, copies, store, settled, once, twice,
          raced, forgotten, cutOff, faults>>

history == <<once, twice, raced, forgotten, cutOff>>

Init == /\ life = [p \in Process |-> 0]
        /\ emitted = [m \in Message |-> "no"]
        /\ backlog = {} /\ copies = {} /\ store = {} /\ settled = {}
        /\ once = {} /\ twice = {} /\ raced = {} /\ forgotten = {} /\ cutOff = {}
        /\ faults = 0
-----------------------------------------------------------------------------
(* listen: without a subscriptionId one is drawn, once for all transports.  *)
subscriptionId(l, p) == IF l \in FixedId THEN <<l>> ELSE <<l, p, life[p]>>

(* `${envelope.i}:${subscriptionId}`, in the store that p uses.             *)
storageKey(m, l, p) == [id |-> IdOf[m], sub |-> subscriptionId(l, p),
                        in |-> IF SharedStore THEN "redis" ELSE p]

Copy(m, l, via, p) == [m |-> m, l |-> l, via |-> via, at |-> p, key |-> storageKey(m, l, p),
                       pc |-> IF l \in Unchecked THEN "handling" ELSE "asking"]
Item(c) == [m |-> c.m, l |-> c.l, via |-> c.via]
Grouped(via) == Mode[via] \in {"jetstream", "stream"}
At(l, p) == p \in HomeOf[l]

(* What the transports with listeners of their own start with at once.      *)
Started(m, sent) ==
    {Copy(m, x.l, x.via, x.p) : x \in
       {y \in [l : Listener, via : sent, p : Process] :
          /\ At(y.l, y.p) /\ y.via \in ListensOn[y.l] /\ ~Grouped(y.via)
          /\ Mode[y.via] = "internal" => y.p = SenderOf[m]}}

(* emit: onEmit puts the idempotency key into the envelope, and Promise.all *)
(* sends it; the internal transport starts the handlers at once, and what   *)
(* another transport refuses does not keep the others from sending.  It     *)
(* resolves when the handlers of its own process have.                      *)
Emit(m, refusing) ==
    /\ emitted[m] = "no"
    /\ faults + Cardinality(refusing) <= MaxFaults
    /\ refusing \subseteq {v \in TargetsOf[m] : Mode[v] # "internal"}
    /\ LET sent == TargetsOf[m] \ refusing IN
         /\ copies' = copies \cup Started(m, sent)
         /\ backlog' = backlog \cup {i \in [m : {m}, l : Listener, via : sent] :
                                       Grouped(i.via) /\ i.via \in ListensOn[i.l]}
    /\ emitted' = [emitted EXCEPT ![m] = IF refusing = {} THEN "sent" ELSE "rejected"]
    /\ faults' = faults + Cardinality(refusing)
    /\ UNCHANGED <<life, store, settled, history>>

(* handleSubscription and startStreamConsumer take one message at a time.   *)
Deliver(i, p) ==
    /\ i \in backlog /\ At(i.l, p)
    /\ ~\E c \in copies : c.l = i.l /\ c.via = i.via /\ c.at = p
    /\ backlog' = backlog \ {i}
    /\ copies' = copies \cup {Copy(i.m, i.l, i.via, p)}
    /\ UNCHANGED <<life, emitted, store, settled, history, faults>>

(* JetStream delivers again what is not acked in time.                      *)
AckWaitPasses(c) ==
    /\ c \in copies /\ Mode[c.via] = "jetstream" /\ faults < MaxFaults
    /\ backlog' = backlog \cup {Item(c)}
    /\ faults' = faults + 1
    /\ UNCHANGED <<life, emitted, copies, store, settled, history>>
-----------------------------------------------------------------------------
Goes(c, pc) == copies' = (copies \ {c}) \cup {[c EXCEPT !.pc = pc]}

(* The wrapped handler returns: the transport acks, or its call is over.    *)
Settle(c) ==
    /\ copies' = copies \ {c}
    /\ settled' = settled \cup {c.key}
    /\ backlog' = IF Mode[c.via] = "jetstream" THEN backlog \ {Item(c)} ELSE backlog

(* Faulty: what throws is acked nevertheless.                               *)
RejectsAcked(c) ==
    /\ copies' = copies \ {c}
    /\ settled' = IF Mode[c.via] = "jetstream" THEN settled \cup {c.key} ELSE settled
    /\ UNCHANGED <<backlog, emitted>>

(* It throws: JetStream delivers again, emit of an internal copy rejects, a *)
(* stream's entry stays pending and is not read again.                      *)
Rejects(c) ==
    /\ copies' = copies \ {c}
    /\ backlog' = IF Mode[c.via] = "jetstream" THEN backlog \cup {Item(c)} ELSE backlog
    /\ emitted' = IF Mode[c.via] = "internal" /\ emitted[c.m] = "sent"
                    THEN [emitted EXCEPT ![c.m] = "rejected"] ELSE emitted
    /\ UNCHANGED settled

(* onReceive: store.has says that the key is there, and the copy is dropped.*)
Discard(c) ==
    /\ c \in copies /\ c.pc = "asking" /\ c.key \in store
    /\ Settle(c)
    /\ UNCHANGED <<life, emitted, store, history, faults>>

HasSaysNo(c) ==
    /\ c \in copies /\ c.pc = "asking" /\ c.key \notin store
    /\ Goes(c, "setting")
    /\ UNCHANGED <<life, emitted, backlog, store, settled, history, faults>>

(* Faulty: the key is not stored, and the handler called.                   *)
SetNothing(c) ==
    /\ c \in copies /\ c.pc = "setting"
    /\ Goes(c, "handling")
    /\ UNCHANGED <<store, raced, life, emitted, backlog, settled, once, twice, forgotten,
                   cutOff, faults>>

(* store.set, which does not look whether another copy has set the key.     *)
Set(c) ==
    /\ c \in copies /\ c.pc = "setting"
    /\ store' = store \cup {c.key}
    /\ raced' = IF c.key \in store THEN raced \cup {c.key} ELSE raced
    /\ Goes(c, "handling")
    /\ UNCHANGED <<life, emitted, backlog, settled, once, twice, forgotten, cutOff, faults>>

Handled(c) ==
    /\ c \in copies /\ c.pc = "handling"
    /\ once' = once \cup {c.key}
    /\ twice' = IF c.key \in once /\ c.l \notin Unchecked THEN twice \cup {c.key} ELSE twice
    /\ Settle(c)
    /\ UNCHANGED <<life, emitted, store, raced, forgotten, cutOff, faults>>

(* The handler throws, or a call of the store does, set after its effect    *)
(* or before.                                                               *)
Throws(c) ==
    /\ c \in copies /\ faults < MaxFaults
    /\ faults' = faults + 1
    /\ Rejects(c)
    /\ store' \in {store} \cup (IF c.pc = "setting" THEN {store \cup {c.key}} ELSE {})
    /\ cutOff' = IF (c.pc = "handling" /\ c.l \notin Unchecked) \/ (c.pc = "setting" /\ c.key \in store')
                   THEN cutOff \cup {c.key} ELSE cutOff
    /\ UNCHANGED <<life, once, twice, raced, forgotten>>

(* The time to live of a key is over.                                       *)
Expire(k) ==
    /\ k \in store /\ faults < MaxFaults
    /\ store' = store \ {k}
    /\ forgotten' = forgotten \cup {k}
    /\ faults' = faults + 1
    /\ UNCHANGED <<life, emitted, backlog, copies, settled, once, twice, raced, cutOff>>

(* A process dies and is started again, with new subscription ids and an    *)
(* empty memory.                                                            *)
Crash(p) ==
    LET mine == {c \in copies : c.at = p} IN
    /\ faults < MaxFaults
    /\ life' = [life EXCEPT ![p] = @ + 1]
    /\ copies' = copies \ mine
    /\ backlog' = backlog \cup {Item(c) : c \in {d \in mine : Mode[d.via] = "jetstream"}}
    /\ emitted' = [m \in Message |-> IF SenderOf[m] = p /\ emitted[m] = "sent"
                                       THEN "rejected" ELSE emitted[m]]
    /\ store' = {k \in store : k.in # p}
    /\ forgotten' = forgotten \cup (store \ store')
    /\ cutOff' = cutOff \cup {c.key : c \in {d \in mine : d.pc = "handling" /\ d.l \notin Unchecked}}
    /\ faults' = faults + 1
    /\ UNCHANGED <<settled, once, twice, raced>>

Works(c) == Discard(c) \/ HasSaysNo(c) \/ Set(c) \/ Handled(c)

Next == \/ \E m \in Message : \E r \in SUBSET TargetsOf[m] : Emit(m, r)
        \/ \E i \in backlog, p \in Process : Deliver(i, p)
        \/ \E c \in copies : Works(c) \/ Throws(c) \/ AckWaitPasses(c)
        \/ \E k \in store : Expire(k)
        \/ \E p \in Process : Crash(p)

Spec == Init /\ [][Next]_vars
-----------------------------------------------------------------------------
(* A subscription handles an id once, whatever number of emits, transports  *)
(* and redeliveries it comes by, unless two copies asked the store before   *)
(* either had set the key, or the store lost the key.                       *)
HandledOnce == twice \subseteq raced \cup forgotten

(* What was acked, or whose emit was told that it is done, was handled, is   *)
(* being handled, or was cut off after the key had been set.                *)
SettledIsHandled ==
    \A k \in settled :
      k \in once \cup cutOff \/ \E c \in copies : c.key = k /\ c.pc = "handling"
=============================================================================
