--------------------------- MODULE NatsMQStartup ---------------------------
(***************************************************************************)
(* How the nodes of a cluster bring up NatsMQ: NatsMQ.bootstrap,           *)
(* NatsMQService.register and NatsMQ.subscribe (natsmq/index.ts,           *)
(* natsmq/service.ts), and the provisioning of streams and consumers they  *)
(* ask of the engine (natsmq/engine/index.ts), one JetStream request per   *)
(* step.  The nodes share the server.                                      *)
(***************************************************************************)
EXTENDS WorkerTasks, Integers, FiniteSets

CONSTANTS Node,
          Workers,    (* the workers of each node                           *)
          Queues,     (* the queues of the @NatsMQApp of a node that bootstraps *)
          Entry,      (* "bootstrap", "register", or "subscribe": one worker *)
                      (* with one task, of NatsMQ.subscribe                  *)
          HasCron,    (* nodes with a method that has @OnCron               *)
          Stream,
          MaxErrors   (* how many requests fail                             *)

ASSUME StartupAssumption ==
       /\ Entry \in [Node -> {"bootstrap", "register", "subscribe"}]
       /\ \A n \in Node : Queues[n] # <<>> => Entry[n] = "bootstrap"
       /\ HasCron \subseteq Node /\ MaxErrors \in Nat

VARIABLES streams,   (* the subjects of each stream on the server, {} if none *)
          consumers, (* each durable consumer: {}, or the set of its filter    *)
          pc,
          at,        (* the stream or task a node is at                     *)
          seen,      (* what streams.info told it                           *)
          active,    (* the tasks it pulls messages for                     *)
          crons,     (* whether its crons are scheduled                     *)
          overrun,   (* streams whose update undid another                  *)
          errors

startupVars == <<streams, consumers, pc, at, seen, active, crons, overrun, errors>>

Tasks == [n \in Node |->
            [i \in DOMAIN Queues[n] |-> Whole(Queues[n][i])]
              \o FlattenSeq([i \in DOMAIN Workers[n] |-> collectWorkerMetadata(Workers[n][i])])]

(* The tasks of queues have no handler.                                     *)
HasHandler(n, i) == i > Len(Queues[n])

(* provisionInfrastructure groups the subjects by stream, in the order in   *)
(* which the streams come up.                                               *)
StreamOf(t) == IF t.options.stream = "-" THEN "DEFAULT_STREAM" ELSE t.options.stream
StreamsOf == [n \in Node |->
    LET Names[i \in 0..Len(Tasks[n])] ==
          IF i = 0 THEN <<>>
          ELSE IF StreamOf(Tasks[n][i]) \in Range(Names[i - 1]) THEN Names[i - 1]
          ELSE Append(Names[i - 1], StreamOf(Tasks[n][i]))
    IN  Names[Len(Tasks[n])]]
SubjectsOf(n, s) == {t.subject : t \in {u \in Range(Tasks[n]) : StreamOf(u) = s}}

ConsumerOf(t) == <<t.options.stream, getEffectiveDurableName(t)>>

(* A node has tasks; the server takes a subject with ">" only as its last   *)
(* word; and the filter of NatsMQ.subscribe is its subject.                 *)
ASSUME TasksAssumption ==
       \A n \in Node :
         /\ Tasks[n] \in Seq(Range(Tasks[n])) \ {<<>>}
         /\ \A t \in Range(Tasks[n]) :
              /\ t.subject \in Seq(Range(t.subject)) \ {<<>>}
              /\ \A i \in 1..(Len(t.subject) - 1) : t.subject[i] # ">"
              /\ StreamOf(t) \in Stream
              /\ Entry[n] = "subscribe" => t.options.filter = t.subject

StartupInit ==
    /\ streams = [s \in Stream |-> {}]
    /\ consumers = [c \in {ConsumerOf(t) : t \in UNION {Range(Tasks[n]) : n \in Node}} |-> {}]
    /\ pc = [n \in Node |-> "down"]
    /\ at = [n \in Node |-> 1]
    /\ seen = [n \in Node |-> {}]
    /\ active = [n \in Node |-> {}]
    /\ crons = [n \in Node |-> FALSE]
    /\ overrun = {} /\ errors = 0
-----------------------------------------------------------------------------
(* Faulty: the wildcard covers what the new subject covers.                 *)
BelowReversed(s, other) ==
    /\ s # other
    /\ Last(s) = ">" /\ StartsWith(other, Front(s))

(* mergeSubjects: what other.> begins is dropped, without looking at the dot*)
Below(s, other) ==
    /\ s # other
    /\ Last(other) = ">" /\ StartsWith(s, Front(other))

mergeSubjects(current, s) ==
    IF s \in current THEN current
    ELSE {x \in current \cup {s} : \A other \in current \cup {s} : ~Below(x, other)}

(* provisionStreamInternal merges the subjects of its stream one by one.    *)
Merged(current, n, s) ==
    LET M[i \in 0..Len(Tasks[n])] ==
          IF i = 0 THEN current
          ELSE IF StreamOf(Tasks[n][i]) # s THEN M[i - 1]
          ELSE mergeSubjects(M[i - 1], Tasks[n][i].subject)
    IN  M[Len(Tasks[n])]

Stage(n) == IF pc[n] \in {"stream", "merge", "add"} THEN Len(StreamsOf[n]) ELSE Len(Tasks[n])

(* subscribe does not provision consumers.                                  *)
Following(n) == [stream |-> IF Entry[n] = "subscribe" THEN "activate" ELSE "consumer",
                 consumer |-> "activate", activate |-> "up"]

(* On to the next stream or task of a stage, or to the next stage.          *)
Advance(n, stage) ==
    IF at[n] < Stage(n)
      THEN /\ at' = [at EXCEPT ![n] = @ + 1]
           /\ pc' = [pc EXCEPT ![n] = stage]
      ELSE /\ at' = [at EXCEPT ![n] = 1]
           /\ pc' = [pc EXCEPT ![n] = Following(n)[stage]]

(* Faulty: register schedules the crons before the consumers.               *)
StartScheduling(n) ==
    /\ pc[n] = "down"
    /\ pc' = [pc EXCEPT ![n] = "stream"]
    /\ crons' = [crons EXCEPT ![n] = n \in HasCron]
    /\ UNCHANGED <<streams, consumers, at, seen, active, overrun, errors>>

(* onInit of the service, then bootstrap schedules the crons as it collects *)
(* the workers; register schedules them last.                               *)
Start(n) ==
    /\ pc[n] = "down"
    /\ pc' = [pc EXCEPT ![n] = "stream"]
    /\ crons' = [crons EXCEPT ![n] = Entry[n] = "bootstrap" /\ n \in HasCron]
    /\ UNCHANGED <<streams, consumers, at, seen, active, overrun, errors>>

Current(n) == StreamsOf[n][at[n]]

streamsInfo(n) ==
    /\ pc[n] = "stream"
    /\ LET s == Current(n)
           merged == Merged(streams[s], n, s)
       IN  IF streams[s] = {} THEN pc' = [pc EXCEPT ![n] = "add"] /\ UNCHANGED <<at, seen>>
           ELSE IF merged = streams[s] THEN Advance(n, "stream") /\ UNCHANGED seen
           ELSE /\ pc' = [pc EXCEPT ![n] = "merge"]
                /\ seen' = [seen EXCEPT ![n] = streams[s]]
                /\ UNCHANGED at
    /\ UNCHANGED <<streams, consumers, active, crons, overrun, errors>>

(* streams.update writes the list that was merged with what info had told.  *)
streamsUpdate(n) ==
    /\ pc[n] = "merge"
    /\ LET s == Current(n) IN
         /\ streams' = [streams EXCEPT ![s] = Merged(seen[n], n, s)]
         /\ overrun' = IF streams[s] # seen[n] THEN overrun \cup {s} ELSE overrun
    /\ seen' = [seen EXCEPT ![n] = {}]
    /\ Advance(n, "stream")
    /\ UNCHANGED <<consumers, active, crons, errors>>

(* streams.add: the server refuses a name that is in use for other subjects.*)
streamsAdd(n) ==
    /\ pc[n] = "add"
    /\ LET s == Current(n)
           subjects == SubjectsOf(n, s)
       IN  IF streams[s] \in {{}, subjects}
             THEN streams' = [streams EXCEPT ![s] = subjects] /\ Advance(n, "stream")
             ELSE pc' = [pc EXCEPT ![n] = "failed"] /\ UNCHANGED <<streams, at>>
    /\ UNCHANGED <<consumers, seen, active, crons, overrun, errors>>
-----------------------------------------------------------------------------
Task(n) == Tasks[n][at[n]]

(* consumers.info, and consumers.add where there is none.  The server keeps *)
(* what two nodes add alike, so the two requests are one step.              *)
Ensured(t, filter) ==
    consumers' = [consumers EXCEPT ![ConsumerOf(t)] = IF @ = {} THEN {filter} ELSE @]

(* Faulty: added with the filter of the options, which need not have one.   *)
provisionUnfiltered(n) ==
    /\ pc[n] = "consumer"
    /\ IF Task(n).options.durable = <<>> \/ Task(n).options.stream = "-" THEN UNCHANGED consumers
       ELSE Ensured(Task(n), sanitizeConsumerConfig(Task(n).options).filter)
    /\ Advance(n, "consumer")
    /\ UNCHANGED <<streams, seen, active, crons, overrun, errors>>

(* provisionConsumer, for the tasks with a durable name and a stream.       *)
provisionConsumer(n) ==
    /\ pc[n] = "consumer"
    /\ IF Task(n).options.durable = <<>> \/ Task(n).options.stream = "-" THEN UNCHANGED consumers
       ELSE Ensured(Task(n), Task(n).subject)
    /\ Advance(n, "consumer")
    /\ UNCHANGED <<streams, seen, active, crons, overrun, errors>>

(* register schedules the crons when all consumers are active.              *)
Scheduled(n) == crons' = [crons EXCEPT ![n] = @ \/ (pc'[n] = "up" /\ n \in HasCron)]

(* createPullConsumer: a consumer that is not there yet is added with the   *)
(* filter of the options, if they have one.                                 *)
createPullConsumer(n) ==
    /\ pc[n] = "activate" /\ HasHandler(n, at[n]) /\ Task(n).options.stream # "-"
    /\ Ensured(Task(n), sanitizeConsumerConfig(Task(n).options).filter)
    /\ active' = [active EXCEPT ![n] = @ \cup {Task(n)}]
    /\ Advance(n, "activate")
    /\ Scheduled(n)
    /\ UNCHANGED <<streams, seen, overrun, errors>>

(* activateConsumers passes over a task without a handler.                  *)
Unhandled(n) ==
    /\ pc[n] = "activate" /\ ~HasHandler(n, at[n])
    /\ Advance(n, "activate") /\ Scheduled(n)
    /\ UNCHANGED <<streams, consumers, seen, active, overrun, errors>>

(* ... and without a stream it throws.                                      *)
StreamRequired(n) ==
    /\ pc[n] = "activate" /\ HasHandler(n, at[n]) /\ Task(n).options.stream = "-"
    /\ pc' = [pc EXCEPT ![n] = "failed"]
    /\ UNCHANGED <<streams, consumers, at, seen, active, crons, overrun, errors>>

(* Any request may fail; nothing that was done is undone.                   *)
Fails(n) ==
    /\ pc[n] \notin {"down", "up", "failed"} /\ errors < MaxErrors
    /\ pc' = [pc EXCEPT ![n] = "failed"]
    /\ errors' = errors + 1
    /\ UNCHANGED <<streams, consumers, at, seen, active, crons, overrun>>

(* The process is started again.                                            *)
Restart(n) ==
    /\ pc[n] = "failed"
    /\ pc' = [pc EXCEPT ![n] = "down"]
    /\ at' = [at EXCEPT ![n] = 1]
    /\ seen' = [seen EXCEPT ![n] = {}]
    /\ crons' = [crons EXCEPT ![n] = FALSE]
    /\ active' = [active EXCEPT ![n] = {}]
    /\ UNCHANGED <<streams, consumers, overrun, errors>>

Sends(n) ==
    \/ streamsInfo(n) \/ streamsUpdate(n) \/ streamsAdd(n)
    \/ provisionConsumer(n) \/ createPullConsumer(n) \/ Unhandled(n) \/ StreamRequired(n)

StartupNext ==
    \/ \E n \in Node : Start(n) \/ Sends(n) \/ Fails(n) \/ Restart(n)
    \/ (\A n \in Node : pc[n] \in {"up", "failed"}) /\ UNCHANGED startupVars

StartupSpec == StartupInit /\ [][StartupNext]_startupVars
-----------------------------------------------------------------------------
(* What NATS delivers: "*" stands for one word, ">" for one or more.        *)
Matches(filter, subject) ==
    \/ Len(filter) = Len(subject)
       /\ \A i \in DOMAIN filter : filter[i] \in {subject[i], "*", ">"}
    \/ /\ Last(filter) = ">" /\ Len(subject) >= Len(filter)
       /\ \A i \in 1..(Len(filter) - 1) : filter[i] \in {subject[i], "*"}

(* The subjects a node pulls for are subjects of its stream, unless another *)
(* node's update of the stream undid its own, or a subject is dropped for a *)
(* wildcard whose prefix only begins its word or is all of it.              *)
Swallowed(s, kept) ==
    \E k \in kept : Last(k) = ">" /\ StartsWith(s, Front(k)) /\ ~Matches(k, s)

SubjectsKept ==
    \A n \in Node : \A t \in active[n] :
      LET kept == streams[t.options.stream] IN
        \/ \E k \in kept : Matches(k, t.subject)
        \/ Swallowed(t.subject, kept) \/ t.options.stream \in overrun

(* A consumer delivers to a node only what the node's task subscribed to,   *)
(* unless a task with the same durable name subscribed to something else, or *)
(* was given neither a durable name nor its subject as a filter.            *)
OwnSubjectsOnly ==
    \A n \in Node : \A t \in active[n] :
      \/ consumers[ConsumerOf(t)] = {t.subject}
      \/ \E m \in Node : \E u \in Range(Tasks[m]) :
           /\ ConsumerOf(u) = ConsumerOf(t)
           /\ \/ u.subject # t.subject
              \/ u.options.durable = <<>> /\ u.options.filter # u.subject

(* register lets no cron run before every consumer of its node is active.   *)
CronsLast ==
    \A n \in Node : crons[n] /\ Entry[n] = "register" => active[n] = Range(Tasks[n])
=============================================================================
