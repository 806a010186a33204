---------------------------- MODULE ObjectLinks ----------------------------
(***************************************************************************)
(* Links between the traces of objects.  A new object span publishes a     *)
(* link job; a worker asks each linker for the objects the job's object is *)
(* linked to, ensures a span for each (which may publish a further job to  *)
(* the queue it consumes) and creates a link span at both ends.  Linkers   *)
(* read an object from the job or through the object cache.  Spans belong  *)
(* to a window of time.  Getting or creating a span is one step here:      *)
(* Aggregator shows the races within it.                                   *)
(***************************************************************************)
EXTENDS Naturals, Sequences, FiniteSets, SequencesExt

CONSTANTS
  Objects,             \* [cluster, type, name]
  OwnerReferences(_),  \* set of [controller, type, name]
  LinkAnnotation(_),   \* the ParentLink of an object, Malformed, or NoLink
  DiscoveredTypes,
  NoLink, Malformed, Absent, Pending,
  MaxFaults,           \* bound: calls that fail or find nothing
  MaxExpiries          \* bound: cache entries that expire

ASSUME CacheAssumption == Absent # Pending /\ Objects \cap {Absent, Pending} = {}

Linkers == <<"owner-linker", "annotation-linker">>

VARIABLES
  spans,       \* <<object, window>> whose span is in the span cache
  untriggered, \* history: the spans stored by a call that failed and published no job
  linkSpans,   \* pseudo spans of links: [of, window, to, dedupId]
  jobs,        \* the subscription of the workers: sequence of [object, window, raw]
  work,        \* per worker: [job, linker, pc, links]; no worker, no subscription
  cache,       \* freecache: objectKey -> Absent, Pending or an object
  expired,     \* history: the keys of the entries that have expired
  excused,     \* history: <<object, window, linker>> that met an error or found no object
  faults

linkVars == <<spans, untriggered, linkSpans, jobs, work, cache, expired, excused, faults>>

Idle == [job |-> <<>>, linker |-> 0, pc |-> "idle", links |-> <<>>]
At(w, pc) == work[w].pc = pc

\* The key has no cluster: objects of the same name in two clusters share it.
objectKey(o) == <<o.type, o.name>>

LinkInit(workers) ==
  /\ spans = {} /\ untriggered = {} /\ linkSpans = {} /\ jobs = <<>>
  /\ work = [w \in workers |-> Idle]
  /\ cache = [k \in {objectKey(o) : o \in Objects} |-> Absent]
  /\ expired = <<>> /\ excused = {} /\ faults = 0

\* owner-linker: the controllers of a known type, in the cluster of the subject,
\* that the object fetched for it names.
LookupOwner(subject, fetched) ==
  {[to |-> [cluster |-> subject.cluster, type |-> r.type, name |-> r.name], dedupId |-> "ownerReference"] :
     r \in {x \in OwnerReferences(fetched) : x.controller /\ x.type \in DiscoveredTypes}}

LookupAnnotation(fetched) ==
  IF LinkAnnotation(fetched) = NoLink THEN {} ELSE {[to |-> LinkAnnotation(fetched), dedupId |-> "annotation"]}

Lookup(linker, subject, fetched) ==
  IF linker = "owner-linker" THEN LookupOwner(subject, fetched) ELSE LookupAnnotation(fetched)

LookupFails(linker, fetched) == linker = "annotation-linker" /\ LinkAnnotation(fetched) = Malformed

Publish_unbuffered(job) ==
  IF work = <<>> THEN UNCHANGED jobs
  ELSE jobs = <<>> /\ (\E w \in DOMAIN work : At(w, "idle")) /\ jobs' = <<job>>

\* Every subscription gets the job: there is one, of the workers, if any run.
Publish(job) == jobs' = IF work = <<>> THEN jobs ELSE Append(jobs, job)

\* GetOrCreatePseudoSpan publishes a job for a span it has created.
EnsureObjectSpan(o, t, raw) ==
  /\ spans' = spans \cup {<<o, t>>}
  /\ IF <<o, t>> \in spans THEN UNCHANGED jobs ELSE Publish([object |-> o, window |-> t, raw |-> raw])
  /\ UNCHANGED untriggered

\* EnsureObjectSpan fails.  SetReserved may have stored the span of the call that
\* it failed: the job is not published, and no later call publishes it, for they
\* find the span.
EnsureFails(o, t) ==
  /\ spans' \in {spans, spans \cup {<<o, t>>}}
  /\ untriggered' = untriggered \cup (spans' \ spans)
  /\ UNCHANGED jobs

Begin(job, i) == IF i > Len(Linkers) THEN Idle
                 ELSE [job |-> job, linker |-> i, pc |-> "lookup", links |-> <<>>]

Current(w) == Linkers[work[w].linker]
Subject(w) == work[w].job.object
Window(w) == work[w].job.window
Key(w) == objectKey(Subject(w))

\* worker.Start: a worker takes a job.
TakeJob(w) ==
  /\ At(w, "idle") /\ jobs # <<>>
  /\ work' = [work EXCEPT ![w] = Begin(Head(jobs), 1)]
  /\ jobs' = Tail(jobs)
  /\ UNCHANGED <<spans, untriggered, linkSpans, cache, expired, excused, faults>>

\* The linker has the object o of the job: its links are followed one by one.
Follow(w, o) ==
  IF LookupFails(Current(w), o)
  THEN /\ work' = [work EXCEPT ![w] = Begin(@.job, @.linker + 1)]
       /\ excused' = excused \cup {<<Subject(w), Window(w), Current(w)>>}
  ELSE /\ \E links \in SetToSeqs(Lookup(Current(w), Subject(w), o)) :
            work' = [work EXCEPT ![w] = IF links = <<>> THEN Begin(@.job, @.linker + 1)
                                        ELSE [job |-> @.job, linker |-> @.linker, pc |-> "ensure", links |-> links]]
       /\ UNCHANGED excused

LookupRaw(w) ==
  /\ At(w, "lookup") /\ work[w].job.raw
  /\ Follow(w, Subject(w))
  /\ UNCHANGED <<spans, untriggered, linkSpans, jobs, cache, expired, faults>>

\* ObjectCache.Get: GetOrSet finds the object or reserves its key; a worker
\* that finds a reservation sleeps and asks again.
LookupCached(w) ==
  /\ At(w, "lookup") /\ ~work[w].job.raw
  /\ cache[Key(w)] \notin {Absent, Pending}
  /\ Follow(w, cache[Key(w)])
  /\ UNCHANGED <<spans, untriggered, linkSpans, jobs, cache, expired, faults>>

Reserve_later(k) == UNCHANGED cache

Reserve(k) == cache' = [cache EXCEPT ![k] = Pending]

LookupReserve(w) ==
  /\ At(w, "lookup") /\ ~work[w].job.raw
  /\ cache[Key(w)] = Absent
  /\ Reserve(Key(w))
  /\ work' = [work EXCEPT ![w].pc = "fetch"]
  /\ UNCHANGED <<spans, untriggered, linkSpans, jobs, expired, excused, faults>>

\* penetrate found the object, in the API server or in its deletion snapshot.
\* An object too large to cache is released like a failure.
FetchFound(w) ==
  /\ At(w, "fetch")
  /\ \E persisted \in BOOLEAN : cache' = [cache EXCEPT ![Key(w)] = IF persisted THEN Subject(w) ELSE Absent]
  /\ Follow(w, Subject(w))
  /\ UNCHANGED <<spans, untriggered, linkSpans, jobs, expired, faults>>

\* An error anywhere, or an object that is nowhere, ends the linker, not the job.
Fail(w) ==
  /\ faults < MaxFaults /\ faults' = faults + 1
  /\ excused' = excused \cup {<<Subject(w), Window(w), Current(w)>>}
  /\ work' = [work EXCEPT ![w] = Begin(@.job, @.linker + 1)]

\* Nothing is found or the fetch fails: the deferred Del releases the key.
FetchFails(w) ==
  /\ At(w, "fetch")
  /\ Fail(w)
  /\ cache' = [cache EXCEPT ![Key(w)] = Absent]
  /\ UNCHANGED <<spans, untriggered, linkSpans, jobs, expired>>

\* An entry outlives neither fetchTimeout nor storeTtl.
Expire(k) ==
  /\ cache[k] # Absent /\ Len(expired) < MaxExpiries
  /\ cache' = [cache EXCEPT ![k] = Absent]
  /\ expired' = Append(expired, k)
  /\ UNCHANGED <<spans, untriggered, linkSpans, jobs, work, excused, faults>>

Link(w) == Head(work[w].links)

EnsureLinked(w) ==
  /\ At(w, "ensure")
  /\ EnsureObjectSpan(Link(w).to, Window(w), FALSE)
  /\ work' = [work EXCEPT ![w].pc = "forward"]
  /\ UNCHANGED <<linkSpans, cache, expired, excused, faults>>

\* A link span is created once for its object, window and deduplication id.
CreateLink_anyWindow(of, t, to, dedupId) ==
  IF \E s \in linkSpans : s.of = of /\ s.dedupId = dedupId THEN linkSpans
  ELSE linkSpans \cup {[of |-> of, window |-> t, to |-> to, dedupId |-> dedupId]}

CreateLink(of, t, to, dedupId) ==
  IF \E s \in linkSpans : s.of = of /\ s.window = t /\ s.dedupId = dedupId THEN linkSpans
  ELSE linkSpans \cup {[of |-> of, window |-> t, to |-> to, dedupId |-> dedupId]}

ForwardLink(w) ==
  /\ At(w, "forward")
  /\ linkSpans' = CreateLink(Subject(w), Window(w), Link(w).to, <<Link(w).dedupId>>)
  /\ work' = [work EXCEPT ![w].pc = "backward"]
  /\ UNCHANGED <<spans, untriggered, jobs, cache, expired, excused, faults>>

BackwardId(w) == <<Link(w).dedupId, Subject(w)>>

BackwardLink(w) ==
  /\ At(w, "backward")
  /\ linkSpans' = CreateLink(Link(w).to, Window(w), Subject(w), BackwardId(w))
  /\ work' = [work EXCEPT ![w] = IF Len(@.links) = 1 THEN Begin(@.job, @.linker + 1)
                                 ELSE [job |-> @.job, linker |-> @.linker, pc |-> "ensure", links |-> Tail(@.links)]]
  /\ UNCHANGED <<spans, untriggered, jobs, cache, expired, excused, faults>>

EnsureError(w) ==
  /\ At(w, "ensure")
  /\ Fail(w) /\ EnsureFails(Link(w).to, Window(w))
  /\ UNCHANGED <<linkSpans, cache, expired>>

\* A link span may have been created by the call that failed.
LinkError(w) ==
  /\ At(w, "forward") \/ At(w, "backward")
  /\ Fail(w)
  /\ linkSpans' \in {linkSpans,
       IF At(w, "forward") THEN CreateLink(Subject(w), Window(w), Link(w).to, <<Link(w).dedupId>>)
       ELSE CreateLink(Link(w).to, Window(w), Subject(w), BackwardId(w))}
  /\ UNCHANGED <<spans, untriggered, jobs, cache, expired>>

Execute(w) ==
  \/ LookupRaw(w) \/ LookupCached(w) \/ LookupReserve(w)
  \/ FetchFound(w) \/ FetchFails(w)
  \/ EnsureLinked(w) \/ ForwardLink(w) \/ BackwardLink(w) \/ EnsureError(w) \/ LinkError(w)

LinkNext ==
  \/ \E w \in DOMAIN work : TakeJob(w) \/ Execute(w)
  \/ \E k \in DOMAIN cache : Expire(k)

LinkQuiet == jobs = <<>> /\ \A w \in DOMAIN work : At(w, "idle")
=============================================================================
