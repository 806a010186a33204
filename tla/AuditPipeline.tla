--------------------------- MODULE AuditPipeline ---------------------------
(***************************************************************************)
(* From the audit webhook to the consumers: a request's handler sends its  *)
(* events one by one to the subscriber queue of the producer, a producer   *)
(* worker sends an event to one partition of every consumer group, and the *)
(* goroutine of a partition handles its messages in turn.  The queues are  *)
(* UnboundedChannels: sequences.                                           *)
(***************************************************************************)
EXTENDS Naturals, Sequences, FiniteSets, SequencesExt

CONSTANTS
  Requests,           \* requests to the webhook
  Items(_),           \* the events of a request, in the order of the EventList
  Workers,            \* audit-producer-worker-count
  NumPartitions,
  PartitionKeyType,   \* "cluster", "object" or "audit-id"
  PartitionByObject,  \* mq-local-partition-by-object
  HashFunctions,      \* what fnv32(key) % numPartitions may be
  ClusterFilter,      \* audit-consumer-filter-cluster-name, or "" for none
  ExcludedTypes, ExcludedAgents, Regexes,  \* the filter: types, agents, sets of excluded references
  KnownTypes,         \* the types discovery can look up
  None

Partitions == 0..(NumPartitions - 1)
SupportedVerbs == {"create", "update", "delete", "patch"}

VARIABLES
  posting,      \* per request: None before it arrives, then the events still to be sent
  groups,       \* consumer groups of this deployment: the keys of LocalQueue.consumers
  subscriber,   \* the queue of the producer's subscription
  producing,    \* per worker: [event, partition, left], left: the groups still to be sent to
  hash,         \* of the partition keys
  mq,           \* LocalQueue.consumers[group][partition].uq
  config,       \* filter.config: the references its regex excludes, or None
  configs,      \* bound: changes of the filter ConfigMap still to come
  received,     \* history: the order in which events entered the subscription
  handled       \* history, per group: the events handled

auditVars == <<posting, groups, subscriber, producing, hash, mq, config, configs, received, handled>>

\* producer.handleEvent: what an event is partitioned by.
PartitionKey(e) ==
  CASE PartitionKeyType = "cluster"  -> <<e.cluster>>
    [] PartitionKeyType = "object"   -> IF e.ref = None THEN <<e.cluster>> ELSE <<e.cluster, e.ref>>
    [] PartitionKeyType = "audit-id" -> <<e.cluster, e.id>>

Events == UNION {{Items(r)[i] : i \in DOMAIN Items(r)} : r \in Requests}

ASSUME EventsAssumption ==
  /\ NumPartitions \in Nat
  /\ \A r \in Requests : Items(r) \in Seq(Events)
  /\ \A h \in HashFunctions, e \in Events : PartitionByObject => h[PartitionKey(e)] \in Partitions

AuditInit(enabled, changes) ==
  /\ groups = enabled
  /\ posting = [r \in Requests |-> None]
  /\ subscriber = <<>>
  /\ producing = [w \in Workers |-> None]
  /\ hash \in HashFunctions
  /\ mq = [g \in groups |-> [p \in Partitions |-> <<>>]]
  /\ config = None /\ configs = changes
  /\ received = <<>> /\ handled = [g \in groups |-> {}]

\* A request arrives; its handler runs in a goroutine of the server.
handleRequest(r) ==
  /\ posting[r] = None
  /\ posting' = [posting EXCEPT ![r] = Items(r)]
  /\ UNCHANGED <<groups, subscriber, producing, hash, mq, config, configs, received, handled>>

\* webhook.handle: the loop over eventList.Items.
handleItems(r) ==
  /\ posting[r] \notin {None, <<>>}
  /\ subscriber' = Append(subscriber, Head(posting[r]))
  /\ received' = Append(received, Head(posting[r]))
  /\ posting' = [posting EXCEPT ![r] = Tail(@)]
  /\ UNCHANGED <<groups, producing, hash, mq, config, configs, handled>>

PartitionOf_random(e) == Partitions

\* localProducer.Send: the partition is drawn once for all groups.
PartitionOf(e) == IF PartitionByObject THEN {hash[PartitionKey(e)]} ELSE Partitions

workerLoop(w) ==
  /\ producing[w] = None /\ subscriber # <<>>
  /\ \E p \in PartitionOf(Head(subscriber)) :
       producing' = [producing EXCEPT ![w] = [event |-> Head(subscriber), partition |-> p, left |-> groups]]
  /\ subscriber' = Tail(subscriber)
  /\ UNCHANGED <<posting, groups, hash, mq, config, configs, received, handled>>

\* The map of groups is walked in any order.
Send(w) ==
  /\ producing[w] # None
  /\ \E g \in producing[w].left :
       /\ mq' = [mq EXCEPT ![g][producing[w].partition] = Append(@, producing[w].event)]
       /\ producing' = [producing EXCEPT ![w] =
            IF @.left = {g} THEN None ELSE [event |-> @.event, partition |-> @.partition, left |-> @.left \ {g}]]
  /\ UNCHANGED <<posting, groups, subscriber, hash, config, configs, received, handled>>

\* The ConfigMap informer: a regex that does not compile leaves no configuration.
setConfig ==
  /\ configs > 0
  /\ configs' = configs - 1
  /\ config' \in Regexes \cup {None}
  /\ UNCHANGED <<posting, groups, subscriber, producing, hash, mq, received, handled>>

TestGvr(type) == type \notin ExcludedTypes

TestAuditEvent(e) ==
  /\ e.ref # None
  /\ TestGvr(e.ref.type)
  /\ config # None => e.ref \notin config
  /\ e.agent \notin ExcludedAgents

\* The object an event is about, or None: a create with generateName has no
\* name in its reference, which is then read from the response.
inferObjectRef(e) == IF e.response # None /\ e.response.type \in KnownTypes THEN e.response ELSE None

ObjectRef(e) == IF e.ref = None \/ e.ref.name = "" THEN inferObjectRef(e) ELSE e.ref

\* handleMessage and handleItem up to the call of Aggregator.Send.
Accepts(e) ==
  /\ ClusterFilter \in {"", Head(PartitionKey(e))}
  /\ e.verb \in SupportedVerbs
  /\ e.stage = "ResponseComplete"
  /\ TestAuditEvent(e)
  /\ ObjectRef(e) # None

\* localConsumer.start: the head of a partition is handled.
Receive(g, p) ==
  /\ mq[g][p] # <<>>
  /\ mq' = [mq EXCEPT ![g][p] = Tail(@)]
  /\ handled' = [handled EXCEPT ![g] = @ \cup {Head(mq[g][p])}]
  /\ UNCHANGED <<posting, groups, subscriber, producing, hash, config, configs, received>>

AuditNext ==
  \/ \E r \in Requests : handleRequest(r) \/ handleItems(r)
  \/ \E w \in Workers : workerLoop(w) \/ Send(w)
  \/ setConfig

AuditQuiet ==
  /\ \A r \in Requests : posting[r] \in {None, <<>>}
  /\ subscriber = <<>> /\ \A w \in Workers : producing[w] = None
  /\ \A g \in groups, p \in Partitions : mq[g][p] = <<>>
=============================================================================
