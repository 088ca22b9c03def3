---------------------------- MODULE WorkerTasks ----------------------------
(***************************************************************************)
(* From decorated workers to subscription tasks: the contracts             *)
(* (natsmq/contracts), the decorators (natsmq/decorators), and what        *)
(* collectWorkerMetadata and NatsMQ.subscribe make of them.  A subject is  *)
(* a sequence of words, and so is a durable name.                          *)
(***************************************************************************)
EXTENDS SequencesExt

CONSTANT PrefixOf    (* the pairs of different words, one the beginning of   *)
                     (* the other                                          *)
ASSUME PrefixAssumption ==
       /\ \A p \in PrefixOf : p[1] # p[2] /\ p[2] # ">"
       /\ \A p, q \in PrefixOf : p[2] = q[1] => <<p[1], q[2]>> \in PrefixOf

(* The options that bear on provisioning, none of them set.                 *)
NoOptions == [stream |-> "-", durable |-> <<>>, filter |-> <<>>]

(* {...a, ...b}                                                             *)
Spread(a, b) == [f \in DOMAIN a |-> IF b[f] = NoOptions[f] THEN a[f] ELSE b[f]]

(* subject.startsWith(prefix), character by character: the last word of the *)
(* prefix may be the beginning of a word.                                   *)
StartsWith(s, p) ==
    /\ Len(p) <= Len(s)
    /\ \A i \in DOMAIN p : s[i] = p[i] \/ (i = Len(p) /\ <<p[i], s[i]>> \in PrefixOf)

(* ContractFactory: a queue has a prefix and options; getNatsConfig of the  *)
(* queue itself subscribes to everything below the prefix.                  *)
define(queue, subject, options) ==
    [subject |-> queue.prefix \o subject, options |-> Spread(queue.options, options)]
Whole(queue) == [subject |-> Append(queue.prefix, ">"), options |-> queue.options]

(* A parameter of a contract (":id") is a wildcard when it is subscribed to.*)
Subscribed(subject) == [i \in DOMAIN subject |->
                          IF subject[i] = ":" THEN "*" ELSE subject[i]]

(* OnNatsMessage with a contract or a queue; the decorator's own options    *)
(* come last.  With a plain subject there are only those.                   *)
OnNatsMessage(provider, options) ==
    [subject |-> Subscribed(provider.subject), options |-> Spread(provider.options, options)]
OnSubject(subject, options) == [subject |-> subject, options |-> options]

(* collectWorkerMetadata for a class with @NatsMQWorker(queue): options the *)
(* queue has are inherited, and a subject is put under the prefix if it is  *)
(* a single word or does not start with it.                                 *)
InQueue(queue, sub) ==
    LET moved == Len(sub.subject) = 1 \/ ~StartsWith(sub.subject, queue.prefix)
        subject == IF moved THEN Subscribed(define(queue, sub.subject, sub.options).subject)
                   ELSE sub.subject
        options == Spread(queue.options, sub.options)
    IN  [subject |-> subject,
         options |-> IF moved THEN [options EXCEPT !.filter = subject] ELSE options]

collectWorkerMetadata(worker) ==
    IF worker.queue = <<>> THEN worker.subs
    ELSE [i \in DOMAIN worker.subs |-> InQueue(Head(worker.queue), worker.subs[i])]

(* getEffectiveDurableName: without a durable name, one made of the subject *)
(* with every character but letters and digits replaced.                    *)
getEffectiveDurableName(t) ==
    IF t.options.durable # <<>> THEN t.options.durable
    ELSE <<"cons">> \o [i \in DOMAIN t.subject |->
                          IF t.subject[i] \in {"*", ">"} THEN "_" ELSE t.subject[i]]

(* NatsMQ.subscribe passes the option on as "durable", where the engine     *)
(* looks for durable_name: the name is always made of the subject.          *)
subscribe(provider, options) ==
    LET subject == Subscribed(provider.subject)
        stream == Spread(provider.options, options).stream
    IN  [subject |-> subject,
         options |-> [stream |-> IF stream = "-" THEN "default_stream" ELSE stream,
                      durable |-> getEffectiveDurableName([subject |-> subject,
                                                           options |-> NoOptions]),
                      filter |-> subject]]

(* sanitizeConsumerConfig: what of the options the server is told.          *)
sanitizeConsumerConfig(options) == [filter |-> options.filter, durable |-> options.durable]
=============================================================================
