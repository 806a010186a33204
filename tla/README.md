# Kelemetry: TLA+ models, checks and proofs

Kelemetry collects audit events, Kubernetes events and object diffs and turns
them into traces in which every object has a span of its own.  This directory
holds TLA+ models of it, the TLC configurations that check them on small
instances, and TLAPS proofs of the most important results for every instance.
All source paths below are relative to `src/pkg/`.

## 1. The system

| Component | Source | State | Operations | Interacts with |
|---|---|---|---|---|
| Span cache contract | `aggregator/spancache/interface.go` | key -> invalid, reserved or initialized | FetchOrReserve, Fetch, SetReserved | called by the aggregator |
| Local span cache | `aggregator/spancache/local` | map of entry pointers, a lock for the map and one per entry | the same, and Trim in a goroutine | implements the contract |
| Etcd span cache | `aggregator/spancache/etcd` | etcd keys under leases | the same, as transactions | etcd server, other processes |
| Aggregator | `aggregator/aggregator.go` | none beyond the stack of each call | Send, EnsureObjectSpan, GetOrCreatePseudoSpan, CreatePseudoSpan | span cache, tracer, link job publisher |
| Unbounded queue, deque | `util/channel` | ring buffer, signal channel, receiver goroutine | Send, receive, Close, length sampling | link jobs, audit queues, diff task pool |
| Semaphore | `util/semaphore` | wait group, limit, publish and error channels | Schedule, Run | frontend link following, extension fan-out |
| Once-only TTL cache | `util/cache` | map, expiry queue, cleanup goroutine | Add, Get, cleanup | snapshots of the diff cache |
| Linkers, link jobs | `aggregator/linker`, `ownerlinker`, `annotationlinker` | subscriber queue, link spans | Publish, Subscribe, execute | consumes what EnsureObjectSpan publishes, calls the aggregator again |
| Leader election | `k8s/multileader` | leases, one per slot | spinOnce, waitForLeader, lose, renew | diff controller, event controller |
| Diff controller, cache, decorator | `diff`, `util/informer` | monitors, task and write queues, patches, snapshots | watch, resync, store, fetch | elector, discovery, TTL cache, etcd |
| Event controller | `event` | last event time in a config map | handle event, save | elector, aggregator |
| Discovery, object cache | `k8s/discovery`, `k8s/objectcache` | type maps, cache of objects with pending marks | resync, fetch | diff controller, linkers |
| Audit pipeline | `audit`, `filter` | subscribers, partition queues | receive, enqueue, consume | aggregator, kelemetrix |
| Frontend | `frontend` | merged traces, span tree, trace cache | search, merge, follow links, transform, open | Jaeger storage, etcd |
| Metrics from audit | `kelemetrix` | indices of tags and quantifiers | index, consume | audit pipeline |
| Manager | `manager`, `cmd/kelemetry/run.go` | component graph | build, trim, init, start, close | every component |

How they meet: a source of events (audit consumer, event controller) calls
`Aggregator.Send`.  `Send` needs the span of the object for the 30-minute window
of the event.  Any number of goroutines and processes may need it at the same
time; the span cache decides who creates it.  The creator publishes a link job
on an unbounded queue, and the link workers look the object up in the object
cache and call the aggregator again for the linked objects.  In parallel the
diff controller's watch leaders compute patches, the write leader among them
stores them, and the decorator of the audit consumer fetches them.  The frontend
searches the storage for traces, merges those of one object, follows links to
others and shows each connected group as one tree.

What is hard to get right, and hence what the properties are about:

- looking, creating and storing an object span are separate steps of separate
  processes; entries expire, calls fail after taking effect, requests arrive
  late, processes die (`Aggregator`, `EtcdSpanCache`);
- the local cache hands a pointer from one lock to another while Trim unlinks
  entries (`LocalSpanCache`);
- the queue merges signals and expands its ring buffer at any rotation
  (`UnboundedQueue`, `Deque`);
- the semaphore's wait group, limit channel, error and publish channels are
  all ready in any order (`Semaphore`);
- a cleanup goroutine that may sleep for ever (`TtlOnce`);
- a lease is lost while its leader still works, and the next term of the same or
  another process begins meanwhile (`Elector`, `EventController`, `DiffMonitors`);
- leadership over writing changes hands while patches are on their way
  (`DiffPipeline`);
- events of one object pass several goroutines and must stay in order; link jobs
  create link jobs, around cycles (`AuditTrace`);
- a trace is opened when more spans and links have arrived than the search saw,
  and visitors change the tree they visit (`TraceReader`, `SpanTree`);
- the order of components comes out of maps, flags and counters (`Manager`).

`PROJECT.json` lists each hazard at its line with the properties that cover it.

## 2. Modules

| Module | Models |
|---|---|
| `SpanCacheCalls` | The interface shared by the contract and its implementations: calls, answers, and (history) what a running call could have seen of its key |
| `SpanCache` | The contract: a linearized store with failures, late requests and expiry at any time |
| `LocalSpanCache` | `spancache/local`, one step per critical section |
| `EtcdSpanCache` | `spancache/etcd`, one step per request, with the etcd server |
| `Aggregator` | `aggregator.go` over the contract |
| `Deque` | The ring buffer, as operators on records |
| `UnboundedQueue` | Senders, signal, receiver loop |
| `UnboundedChannel` | What the queue promises |
| `Semaphore`, `TtlOnce` | `util/semaphore`, `util/cache` |
| `DiffCmp` | `diff/cmp`: the comparison of two documents, as operators, and what a list of differences should say |
| `LocalDiffCache` | `diff/cache/local`: patch histories, trimming, snapshots, with the patches `onUpdate` computes |
| `Elector` | `k8s/multileader`, with client-go's leases as external steps |
| `EventController` | `event/controller.go`, a composition over `Elector` |
| `Discovery` | `k8s/discovery`: the loop of one cluster and its one-slot notice |
| `DiffMonitors` | The resync loop of `diff/controller`, over `Discovery` |
| `DiffPipeline` | From the informer through task pool, workers and write leadership to the etcd diff cache and the decorator |
| `AuditPipeline` | Webhook, producer, partitioned local queue, consumers, filter |
| `Kelemetrix` | Metrics of audit events: indices, filters, emission |
| `ObjectLinks` | Link jobs, link workers, both linkers, object cache |
| `AuditTrace` | The composition of the last three |
| `LinkSelector` | The link selectors of the display modes, as operators |
| `SpanTree` | The span tree, visiting while it changes, the transformation steps |
| `TraceReader` | FindTraces and GetTrace over the last two: listing, following links, merging, extensions, the trace cache |
| `Manager` | Build, flags, TrimDisabled, order, Init, Start, Close |
| `Aggregator_proofs`, `EtcdSpanCache_proofs`, `LocalSpanCache_proofs`, `EventController_proofs`, `AuditTrace_proofs`, `TraceReader_proofs` | Theorems about the module each is named after, and the modules it extends |
| `Diff_proofs` | Theorems about `DiffMonitors` and `DiffPipeline` |
| `Runtime_proofs` | Theorems about `Manager`, `UnboundedQueue`, `Semaphore`, `TtlOnce` and `LocalDiffCache` |
| `MC*` | Instances for TLC |

Composition: `Aggregator` EXTENDS `SpanCache`, so everything shown of the
aggregator holds over the contract; `LocalSpanCache` and `EtcdSpanCache` are
each checked to implement that contract (`ImplementsContract`), answers
included.  `UnboundedQueue` EXTENDS `Deque` and implements `UnboundedChannel`;
`AuditPipeline` and `ObjectLinks` use queues as that channel: sequences.
`ObjectLinks` takes getting or creating a span as one step, which is what
`AgreeWithinLife` of the aggregator justifies within one life of a span.
`EventController` EXTENDS `Elector`, `DiffMonitors` EXTENDS `Discovery`,
`AuditTrace` EXTENDS the three modules of the audit path, `TraceReader` EXTENDS
`LinkSelector` and `SpanTree`, `LocalDiffCache` EXTENDS `TtlOnce`.  The comparison
of documents is a constant of `LocalDiffCache`; `MCLocalDiffCache` takes it from
`DiffCmp`.

Operators with a suffix, such as `Publish_skipped`, stand next to the definition
they vary: each is a plausible mistake in the code, and substituting it breaks
the property that `PROJECT.json` lists with it.

### Correspondence with the code

*LocalSpanCache.* `FetchOrReserve` is the read of the clock, `getOrInsertEntry`
the section under `entriesLock`, `readEntry` the section under the entry's lock.
`Fetch` and `SetReserved` are `getEntry`, then `fetchEntry` or `setEntry`.
`Trim` takes `entriesLock` for the whole iteration and is `trimCheck` (under the
entry's lock) and `trimDelete` (no longer under it) per key.  A pointer is
named by the uid its entry was created with; `randUid` never repeats a uid, and
may fail.

*EtcdSpanCache.* The server keeps a revision, a create and a mod revision and a
lease per key.  An operation is `Grant`, one transaction, `Return`.  `Fail` loses
the request or its answer; `FailLate` reports a failure while the transaction is
still under way, and `LateTxn` lets it arrive or drops it.  The reserve
timestamp, which only occurs in an error message (where it is written as a
fixed-width integer and read as a varint), is left out.

*Aggregator.* A caller is one `Send`; `pc` is its place: `fetch` (the retry loop
around FetchOrReserve), `create`, `inject`, `set`, `publish`, `event`.  A span is
named after its creator.  Times are ticks, so that the fraction of a second that
`CreatePseudoSpan` keeps is there.  Event and object decorators, tags and metrics
change no state the properties speak of.  Link spans (GetOrCreatePseudoSpan with
another dedupId) take the same path under another key.

*UnboundedQueue.* `Send` is PushBack, `Notify` the select on the notifier.
`Deliver` is the rendezvous with a consumer.  `Sample` is the metric loop's
GetAndResetLength.  `Deque.Compact` has no caller and is not modelled.

*Semaphore.* One label per blocking point of the task goroutine; `Wait` is the
goroutine on doneWg; each case of Run's select is an action.  Tasks and publish
functions may schedule further tasks.

*TtlOnce.* `peekExpiry` includes the choice between the timer and `wakeupCh`.
Its cleanup queue is the deque of `Deque`, here as a sequence.

*Elector.* `spinOnce` up to the first event, `waitForLeader` and the two cases of
the select are actions; `Acquire`, `Lose` and `Release` are what client-go does
with a lease: one holder, who gives up (RenewDeadline) before the lease runs out
(LeaseDuration).  `spinOnce` does not wait for the goroutine of the leader, so
`run` is kept per term and terms of one process may overlap.  A leader that
returns cancels baseCtx: `RunReturns`.  A panic ends the process instead
(`Restart`): `RecoverPanic` does not recover, see below.

*EventController.* `runLeader` sets the flag, `getConfigMap` reads the config map
from a cache that may lag (any earlier version) or creates it, `pollConfigLoop`,
`updateConfigMap` and `finalize` are the loop of syncConfigMap with conflicts and
errors, `handleEvent` and `sendUpdate` the two halves of handleEvent around the
send that may block.  A worker may take a queued event although its context is
done.  A saved time that does not parse is 0: it is replaced by the current time
(`reset`), in the process but not in the config map.  Time is in ticks, saved
times in whole seconds.

*DiffMonitors.* `compareMonitors`, `addMonitors` and `drainMonitors` are the
sections under monitorsLock; `resyncMonitors` before them, `startMonitor` between
the first two and `closeMonitors` after them run without it.  `drainAllMonitors`
is the second Lock of a lock already held.  Closing a monitor that another term
has drained is a call on nil: the panic ends the process (`closeNil`), which
starts anew.  Discovery is `wake`, `query`, `publish` (under dataLock) and
`notify`.  The verbs of a type do not change.

*LocalDiffCache.* `Store` is an update that the informer saw, from the version it
had to any other (versions may be skipped, and a stale list goes back), with the
patch that `onUpdate` computes for it (`PatchOf`, redaction included) and the
whole of localCache.Store; `doTrim` may run at any time; `StoreSnapshot` is the
Add of `TtlOnce`.  The comparison is a constant of which
`ComparisonAssumption` says that it is right about every two versions; in
`MCLocalDiffCache` it is that of `DiffCmp`, and TLC evaluates the assumption on
its documents.  A document is a tree of nil, primitive values, maps and
slices.  `Tells`, in `DiffCmp`, is the reference for Compare: each difference gives what is at
its path in both versions, and whatever is not at or below such a path is the
same in both.

*DiffPipeline.* One object and one worker to a process.  A task is a patch or a
snapshot; its content is the pair of versions.  `runTask` and `setWriteLeader`
are the two cases of runWorker's select; `broadcastWriteLeader` leaves its
goroutines in `casts`, from which any may be received first.  The wait of the old
writer for one more lease is `ending`.  The clock runs whether or not anybody has
the write lease, so that vacancies of any length happen, and `Crash` takes a
process with all that it kept; `held` records at which ticks a process had the
lease.  All that is assumed of the goroutines is that a broadcast is received
within a tick.  The object exists before the first list.  `tryDecorate` is what the decorator gets for a message;
its retries wait for a state in which there is something.

*AuditPipeline, Kelemetrix, ObjectLinks.* A request sends its events one by one;
a producer worker sends an event to each group in turn; the goroutine of a
partition handles one message at a time.  Hash functions, regular expressions
and provider orders are chosen freely.  A link worker takes a job and is at one
of: lookup, fetch (it holds the reservation of the object cache), ensure,
forward, backward.  Errors end the linker, not the job.  EnsureObjectSpan may
fail before or after it stored the span (`EnsureFails`); `untriggered` records the
spans it stored without publishing their job.  A crash, which loses the jobs in
memory, is in `Aggregator` and not here.  `Reports`, the reference of the metrics,
takes over how the code combines the choices of a negated filter and that a filter
on a quantity without a value does not apply: `MetricsMatchConfig` questions the
addressing by position, not these two.

*TraceReader.* A request goes through `FindTraces` or `GetTrace`, `followFrom`,
`listTask` and `publishTask` (the semaphore's tasks and their publish functions),
`MergeTraces`, `mergeLinkedTraces`, `Transform`, `RunSteps`, `Reply`.  Maps are
iterated in any order.  Backend.List is asked per trace source.  Spans arrive
between any two steps.  A search shows any one of its groups and keeps the traces
of all.

*SpanTree.* `visit` advances one frame of the visitor stack at a time; Add, Move
and Delete check what the tree checks, and a check that fails is `panic`.  So is
building a tree without a root and visiting a span from itself.  The spans that one
call of a visitor adds, moves or deletes are a set and change at once: the code's
loops over them give the same tree in any order.  An id drawn by `rand.Uint64` is
one that no other span has, and stored spans have none of the ids that the reader
makes up (`IdsAssumption`).
Steps that only write tags or names are not steps of the model.

*Manager.* `resolve` and `construct` are one request and one constructor,
`TrimDisabled` and `TrimPass` the loop that disables components until nothing
changes, in any order of the map; lists and muxes take part.  A Close that panics
ends the process (`crashed`): `shutdown.RecoverPanic` calls HandleCrash, so that
recover is called one frame below the deferred function, and HandleCrash panics
again unless ReallyCrash is set to false, which nothing in the repository does.

## 3. Runs

| Run | Shows | Bounds |
|---|---|---|
| `local_cache` | `ImplementsContract`; `ExpiredIsTrimmed` | 2 goroutines, 1 key, 4 uids, 2 ticks: reserve, store, expire, trim and reserve again with calls in flight |
| `etcd_cache` | `ImplementsContract`, `KeysLiveWithTheirLease`; `ReservationEnds` | 2 clients, 1 key, 3 leases: a key is reserved, stored, lost and reserved again |
| `aggregator` | `AgreeWithinLife`, `LinkJobs`; `SendReturns` | 2 calls, times at the beginning and the end of a window and the beginning of the next, 2 attempts, 2 expiries of each key |
| `queue` | `PendingInOrder`, `NoLostWakeup`, `ImplementsChannel`; `EverythingArrives` | 2 senders, 5 items from a buffer of 1, which expands three times and wraps |
| `semaphore` | `NilMeansComplete`; `RunReturns`, `NoGoroutineLeaks` | 3 tasks, limit 0, 1, 2 and none |
| `local_diff_cache` | `QueueTracksData`, `FetchTellsTheChange`; `AwakeLoopCleansUp` | 1 object in 5 versions, from any of which the informer may see any other, 2 patches, 2 snapshots, 4 seconds: patches and snapshots expire and are stored again |
| `event_controller` | `OneLeaderPerSlot`, `SkippedWereOvertaken`, `SavedNeverDecreases` | 2 processes, 1 slot, 2 terms, 2 events, half-second ticks, a channel of one, a config map that is missing or does not parse: a hand-over, a restart, an overlap and a stale read each happen |
| `diff_monitors` | `MonitorsFollowDiscovery`, `NoOrphanMonitor`; `ServedIsMonitored` | 2 types of which one can be watched, 3 changes, 2 terms |
| `diff_pipeline` | `NoPatchLost`, `DecorationCoversUpdate` | 2 processes, 3 versions and a deletion, 2 write terms, 1 crash, 4 ticks and a lease of 2: a vacancy of up to two leases, in which a kept patch expires and is driven out by the next. The third version, 1 relist, 1 refused write and a backlog of 2 tasks only before the first tick: what the decorator gets does not depend on time |
| `audit_trace` | `OrderPerObject`, `MetricsMatchConfig`, `LinksComplete`, `OneFetch`; `EverythingSettles` | 3 events of one pod in 2 windows, 2 partitions, a pod and its replica set linked in a cycle, 2 link workers or 2 groups, 1 fault, 1 expiry |
| `trace_reader` | `ReopenIsOneTree`, `MembersShown`, `FollowBounded`, `VisitorsRespectTree`, `EventsShownOnce` | 4 objects, 5 traces, 3 late spans, follow limit 2, 7 display modes |
| `manager` | `DependenciesFirst`, `NothingMissing`, `NothingIdle`; `ShutdownCloses` | 9 components in 3 wirings (one cyclic, one that requests a list implementation directly), all flags |

The properties after the semicolon are liveness properties, checked under the
fairness below.  Workloads are finite, so most configurations switch deadlock
checking off; that nobody waits for ever is stated by the liveness properties
instead.  A module that needs no further definitions for TLC is run as it is.
Symmetry (of the two processes) is used in `event_controller` and `diff_pipeline`,
which have no liveness property.

Why the bounds are enough: every mutant of `PROJECT.json` is found within them,
and every action of every next-state relation fires.  What they cut off is
named in the modules: numbers of terms, events, versions, faults and expiries.

Some properties carry an exception, and each exception is a weakness of the code
that the model shows and that cannot be stated away: `NoOrphanMonitor` and
`MonitorsFollowDiscovery` except terms that overlap in the resync, `NoPatchLost`
broadcasts received in the wrong order and patches computed further than a lease
from any hold of the write lease, `DecorationCoversUpdate` a stale relist,
`ServedIsMonitored` what comes after the first term (the lock is then held for
good), `LinksComplete` spans stored by a call that failed and lookups that met an
error, `RunReturns` tasks at limit 0, `ShutdownCloses` a Close that panics,
`NothingIdle` what is requested twice, `MembersShown` objects with two parents, cycles
of parents or links recorded at one end only, `OneFetch` entries that expired.  Leaving out the
exception makes TLC show the behaviour.

### What the code does not keep

Sentences of the code's own documentation that the code does not keep, and what
its users would expect.  The first eleven have a definition in the module, which
TLC refutes when it is added to the configuration of the module's run as an
INVARIANT or PROPERTY:

| Definition | Documentation | Code |
|---|---|---|
| `LocalSpanCache!ExpiredReservationIsInvalid` | FetchOrReserve "reserves an entry if it is invalid" (`spancache/interface.go:66`) | an expired reservation is ErrAlreadyReserved until Trim, every 30 minutes, removes it (`local.go:135`), while reservations last 10 seconds |
| `EtcdSpanCache!InitializedIsImmutable` | SetReserved errs "if the entry is not reserved" (`spancache/interface.go:78`) | only the mod revision is compared (`etcd.go:219`); no caller stores with such a uid, and `etcd_cache` shows the contract for the callers there are |
| `Semaphore!ErrorReachesCaller` | errCh is "received by main goroutine to return the error to caller" (`semaphore.go:45`) | with doneCh ready too, select may return nil (`semaphore.go:153`) |
| `TtlOnce!ExpiredIsRemoved` | "duration for which snapshot cache remains" (`diff/cache/interface.go:63`) | the cleanup loop of an empty cache waits for a channel nobody sends to (`ttl.go:95`) |
| `LocalSpanCache!ExpiredIsNotFetched` | Fetch "returns nil if the entry does not exist or has expired" (`spancache/interface.go:74`) | an expired entry is returned until Trim removes it (`local.go:177`) |
| `Semaphore!RunReturnsAtAnyLimit` | | New accepts 0 (`semaphore.go:61`), which `frontend-follow-link-concurrency` or an extension without maxConcurrency may give; then no task runs and Run hangs |
| `Elector!CrashedLeaderIsReelected` | "assert that a crashed leader triggers leader re-election" (`k8s/multileader/elector_test.go:146`) | when the leader has returned, also because its lease was lost, select may take baseCtx.Done (`elector.go:251`) and the process never stands again |
| `AuditTrace!LinkersTriggered` | EnsureObjectSpan "triggers any possible relevant linkers" (`aggregator/aggregator.go:89`) | a call that fails after it stored the span publishes no job, and no later call does (`:229`) |
| `Manager!CloseSurvivesPanic` | "continue closing even if some components panicked during close" (`manager/interface.go:855`) | RecoverPanic does not recover (`util/shutdown/shutdown.go:99`): the process dies |
| `DiffMonitors!StartedIsAdded` | | a term that has started monitors waits for the lock that the term before holds for good; they run outside the map (`diff/controller/controller.go:414`) |
| `DiffPipeline!ComputedIsNotLost` | | a write lease that is vacant for longer than the retention, at the start or after a crash, loses patches in every process (`diff/controller/controller.go:236`) |
| (`DiffMonitors!drainAllMonitors`) | | the monitors of an ended term are never closed: the lock is taken twice (`diff/controller/controller.go:333`) |
| (`Manager!RequestedTwice`) | "disabled when all dependents are disabled" (`manager/interface.go:60`) | dependents are counted per request and subtracted per component (`:734`) |
| (`DiffCmp!compareKey`) | | a key that only the new document has is reported twice (`diff/cmp/cmp.go:123`) |
| - | "0 to disable TTL" (`diff/cache/interface.go:63`) | with 0 a snapshot expires when it is stored (`diff/cache/local/local.go:62`) |
| - | "enable an intermediate layer of cache in memory" (`diff/cache/interface.go:65`) | the methods of the mux bypass the wrapper (`:165`) |
| - | "tags applied to all event spans" (`aggregator/aggregator.go:77`) | event spans get the tags of pseudo spans (`:203`) |
| - | | the snapshot of an object being deleted is computed and dropped (`diff/controller/controller.go:566`) |
| - | "timeout for graceful shutdown after receiving SIGTERM" (`manager/interface.go:662`) | Close gets a context that is done already (`cmd/kelemetry/run.go:88`) |
| - | "the newer value wins" (`frontend/reader/merge/merge.go:292`) | start times are overwritten by earlier merges (`:291`) |

### Fairness

- Goroutines that can run do run (weak fairness of their steps).  Where a step
  competes for a lock or a channel that others hold again and again
  (`LocalSpanCache` calls against Trim, `Semaphore` tasks for a slot), fairness is
  strong: Go's mutexes and channels serve their waiters in order.
- A call to the cache is answered, if only with an error: etcd requests time out.
  Leases that nobody keeps alive run out, and so do the reservations of the
  object cache.
- The consumer of a queue keeps receiving, tasks and publish functions return
  once they run.
- A discovery query that is repeated for ever succeeds again and again
  (`DiffMonitors`, strong fairness of the success).
- The components' Close returns, with or without an error, or panics (`Manager`).
- Nothing is assumed of crashes, loss of leases, cancellation, configuration
  changes, faults or late requests.

## 4. Proofs

`Aggregator_proofs` shows, for all sets of callers, objects, times and keys and
all bounds, `AggSpec => []AggInv`, and from it `AggTypeOK`, `ResultWasCached`,
`AgreeWithinLife`, `StoredOnce` and `LinkJobs`.  The assumptions are those of
`AggregatorAssumption` and `KeysAssumption`.  None of the properties is inductive:
that a caller works with a cached span depends on what its call may have seen
(`EntriesRecorded`), on the answers still unread (`AnswersRecorded`), on late
requests carrying the caller's own span and key (`CallMatchesCaller`), and on a
key having one span per life (`LivesRecorded`), which rests on the contract's
guards in `ReserveKey` and `InitializeKey`.  Agreement then follows by
comparing the lives in which two callers' spans were stored.  `SpanCoversEvent`, the
arithmetic of windows (a division for the key, a remainder for the start of the
span, both of whole seconds), follows from `LivesRecorded`: the span was created
for an event with the same key.

`EtcdSpanCache_proofs`.  `KeysLiveWithTheirLease` is proved as it stands, for all
clients.  The refinement of the contract is proved for clients that store only
with the uid of a reserved entry (`~ReuseUids`; the only caller,
`aggregator.go`, does so, and section 3 shows what the code allows others).
`EtcdInv` says why comparing the mod revision is enough: a reserved pair has not
been written since its creation and no two pairs share a revision
(`PairsSound`), a lease removes one key (`KeysHaveLeases`), a uid given out or in
use is the revision of a reservation, there or gone (`UidsAreReservations`), and
a lease that was granted and is not yet used belongs to one request
(`LeasesAreUnused`).  `SeenIsCurrent` and `RepliesAreAllowed` relate replies on
their way to what the contract lets a call answer.

`LocalSpanCache_proofs`, for all keys, uids and times to live and every finite set
of goroutines (`UidsBounded` counts those that may still draw a uid).
`LocalInv`: the pointer that a call holds between its two locks is that of
an entry which its key had during the call, in the state the entry is in now
(`CallsSound`), a reserved entry still has the uid of its creation (`HeapSound`), an
entry is under one key at most (`EntriesSound`), and what Trim found expired
stays expired until it deletes it (`TrimSound`).  From it follow
`UnlinkedStaysExpired` (no call can revive an entry that Trim took out of the
map) and `LocalImplementsContract`, without a condition on the callers.

`EventController_proofs`, for any number of processes, leases, terms and events.
`ElectorInv` (each sub-elector that has its lease is the holder at the API
server, an event in the channel is that of a lease held or of a sub-elector that
has ended, a live term is its process's current one and holds its lease) gives
`OneLeaderPerSlot`.  `EventInv` adds the config map: its
present version is the last one (`MapIsLast`), the time in a copy is not before
that of the version the copy would replace (`CopiesAreNotBehind`), and every time
saved, started from or sent for saving is at most that of an event accepted, of
the first config map, or of the reset of one that did not parse, and those saved
are whole seconds (`WholeSeconds`, `TimesAreKnown`).
From it follow `SavedNeverDecreases`, with writers of ended terms still running,
and `SkippedWereOvertaken`.

`Diff_proofs`.

- `DiffMonitors`, for every finite set of types (finiteness makes `haveSameKeys`,
  which compares lengths and one inclusion, an equality).  The heart of
  `MonitorsInv` is `Monitoring`: what is monitored, or will be after the resync
  under way, is up to date with what discovery has published, or a notice is
  pending, or discovery is about to give one.  `ListsAreCurrent` says that the
  lists of `compareMonitors` are not stale when they are used, under later holds
  of the lock; so what is drained is there, and what runs is in the map or in the
  hands of the resync that started or drained it (`NoOrphanMonitor`, itself part of
  the invariant).  All this holds while no two terms overlap in the resync
  (`overlap`, a history variable); `NoNilMonitor`, that the panic of `closeNil`
  does not happen, has the same condition, and section 3 says what happens in the
  other case.
- `DiffPipeline`, for any processes, versions, terms, relists and refusals, any
  length of the lease and both settings of the cache key (`PipelineAssumption`).
  `PipelineInv`: what informers have seen, and the tasks made of it, are versions
  that the object had (`InformersSound`), and so is what is computed, kept and
  stored (`WritersSound`); a writer keeps nothing back, and the last broadcast to
  a worker agrees with the lease and the terms that are ending (`LeadersSound`).
  `HoldersWrite`: who had the lease less than L ago still writes and has no
  broadcast pending (`Steady`), because its term counts for L more; this is what
  saves a patch computed after a hold.  `NothingLost`: what is not stored is in the
  queue (`Waiting`) or older than L, and was not computed near a hold of its
  process (`Apart`); becoming the writer empties the queue into the cache, so a
  patch computed at most L before a hold is stored by then.  Vacancies, ticks and
  crashes are arbitrary.  From these follow `NoPatchLost` and
  `DecorationCoversUpdate`.

`AuditTrace_proofs`, for any requests, events, objects, links and workers:

- `OneFetch`: a worker that fetches holds the reservation of its key, until the
  entry expires (`FetchInv`).
- `LinksComplete`, under two hypotheses.  `DistinctKeys`: the objects are those
  of one cluster, where a key names one object.  `OneController`: an object has
  one controller owner, which the API server enforces.  `CompleteInv` needs
  both because CreateLink deduplicates by object, window and deduplication id:
  a span found in place of a new one must be the same link (`LinksSound`).  A step
  that adds a span queues its job or counts it in `untriggered`
  (`NewSpansQueued`), and the property is about the others.
- `OrderPerObject`, under `OneProducer` (the default of
  `audit-producer-worker-count` is 1, `audit/producer/producer.go:46`),
  `ByObject` (partitions by cluster or object) and `DistinctEvents` (each event
  has its own audit id and stage).  `OrderInv` says that what a group has
  handled, what is in the partitions and what the producer and the subscription
  hold is what was received, in order (`ReceivedOnce`, `ProducedInOrder`,
  `QueuedInOrder`, `SentArrive`).  With two producer workers two events of an
  object may be exchanged between the subscription and the partition.
  `NoneIsDistinct` says of the model value `None` that it is no event.
- `MetricsMatchConfig`, for every registry of providers and finite set of
  quantifiers, and every configuration whose names are registered (an unknown
  name, or an unknown operator, ends the process: `KelemetrixAssumption`).  The
  consumer looks values up by position; `IndexSound` says that at each position of
  the two indices is the provider or quantifier of the name that was asked for,
  whatever order Start walked its maps in.  `QuantityAssumption` has quantities
  as integers: NaN, which fails every comparison, is left out.

`Runtime_proofs`.

- `Manager`, for every finite set of components and every wiring that
  `ProvideListImpl` and `ProvideMuxImpl` can register (`WellProvided`).
  `CountInv`: while components are built, `dependents` of a component is at
  least the number of those that got it, and equal unless somebody requests it
  twice; while `TrimDisabled` runs, the same of those not yet removed.  What the
  final test of `dependents` lets pass is then used by nobody that is left
  (`NothingMissing`), and what a last pass without a change has left has a user
  (`NothingIdle`, with the exception of section 3).  A list implementation has
  one dependent, or the program panics before anything is trimmed
  (`manager/interface.go:676`).  `OrderInv`: what is in the list comes after its
  dependencies and once (`Sorted`), and the calls of `insertDeps` on the stack are
  for different components that are not in it (`Pending`); from it follows
  `DependenciesFirst`, through every failure of Init, Start and Close.
- `UnboundedQueue`, for every initial capacity of at least one:
  `QueueSpec => []QueueInv` (types, `PendingInOrder`, `NoLostWakeup`) and
  `QueueSpec => ImplementsChannel`.  The lemmas on the ring buffer say what
  `PopFront`, `Put`, `Expand` and `PushBack` do to the item at each position;
  positions, rather than the sequence `LockedGetAll` returns, make the invariant
  inductive.  `NothingLost`, the same in the terms of `LockedGetAll`, and
  `FreedSlotsCleared` (no slot outside the queue keeps an item alive) follow.
- `Semaphore`, for every finite set of tasks and every limit, 0 included: `SemInv` counts.
  The wait group is the number of goroutines and results outstanding, and the
  slots taken are the tasks between acquire and release; one lemma on
  cardinalities, `CountMove`, covers a task that enters, stays in or leaves a
  counted set.  `NilMeansComplete` follows because a wait group once seen at zero
  stays there (`DoneIsFinal`).
- `TtlOnce`, for all keys and every time to live: `QueueTracksData` needs that no
  expiry is further ahead than the time to live (`ExpiriesBounded`), which keeps
  the queue sorted as items are appended.  Where the loop of `doCleanup` stops is
  found as the least element of a set of positions, instead of by induction.
  `EntriesAreKept` is the promise to the users of the cache: a value is not
  replaced, and not removed early.
- `LocalDiffCache`, for all objects and documents: every step is one of `TtlOnce`
  or leaves it alone (`CacheUsesTtlOnce`), so that the snapshots have what is
  proved of it (`SnapshotQueueIsExact`).  `CacheInv` says that what was stored
  less than its time ago is in the history of its object, which has not been added
  to before that: trimming by `lastModify` takes no patch early.
  `FetchTellsTheChange` follows from it and `ComparisonAssumption`: the proof is
  about the cache, and that the comparison is right is checked by TLC.

`TraceReader_proofs`, for every finite set of spans (`SpansAssumption`), every link
selector, limit and order of answers:

- `ReaderInv`: what is loaded and what is listed comes from the
  storage (`LoadedSound`, `TasksSound`); an object is asked for once, and none
  that the request started from (`AskedSound`); each limit is what was paid, what
  is to be paid and what is left (`LimitsSound`): these give `FollowBounded`.  What
  is kept under a cache id hangs together by links of the storage
  (`GroupsConnected`), which loses none, and whatever opening it adds was led to
  by a link that is kept (`OpenedConnected`): these give `ReopenIsOneTree`,
  that the opened trace is one group and not an error.  In a hierarchy an object
  is added next to one loaded object only (`KeptIn`), and the tree lacks nothing
  below what it has (`TreeSound`): these give `MembersShown`.
- `TreeInv` adds the transformation: the tree that merging builds has the span of
  an object as its root (`BuiltSound`), and while steps run over it the frames of
  the visitor stack are for different spans and have children to visit that
  were not seen (`FramesSound`), the spans seen form a tree from the root
  (`SeenSound`), and the ids of new groups are those of this step and of spans
  seen (`GroupsNew`).
  It gives `VisitorsRespectTree`: no step of any configuration
  (`ConfigsAssumption`) makes the span tree panic.  What lies under a span is a
  recursive function; that it is what its definition says is proved from the
  least set closed under children.

TLC has checked each of the inductive invariants on the instance of its run, which
satisfies all hypotheses.

Two properties turned out to be too strong when they were to be proved, and TLC
confirmed it:

- That a patch all watch leaders have computed is stored or still kept
  (`ComputedIsNotLost`) fails as soon as the clock runs while the write lease is
  vacant.  `NoPatchLost` says instead for which patches the retention and the wait
  of the old writer are enough.
- `MembersShown` fails on a cycle of parents.  `detectRoot` ignores that it has met
  a cycle and starts the tree at some member, and a follow limit may then cut the
  cycle in two places.

Left to TLC, and why:

- everything about liveness: fairness and ENABLED are out of the prover's reach;
- `EventsShownOnce`: it compares the events of the tree with those of the storage
  after all steps, and collapsing moves the events of spans into others; a proof
  has to count each event across every visitor;
- what `DiffCmp` computes: the comparison recurses over documents with RECURSIVE
  operators, which the prover cannot use; no other module declares one.

## 5. Not modelled

- Tracer, Jaeger storage beyond List, HTTP servers, audit dump and forwarding,
  metrics: I/O without a protocol of their own.
- Event and object span decorators, taggers, and the transformation steps that
  only write tags, names or services: they change no state the properties
  speak of.
- Rendering of diffs, marshalling, keys and clients'
  configuration: pure functions of data the models abstract.
- The memory wrapper of the diff cache (never called, see above),
  `Deque.Compact` (no caller), disabled leader election, unsubscribing
  of link queues at shutdown.
- Several clusters at once: discovery, monitors and object cache are modelled for
  one.

`PROJECT.json` has the status of each component.

## 6. What is left

- Proofs: `EventsShownOnce`.
- Models: the components that `PROJECT.json` lists as not modelled or partly
  modelled, of which the storage of the HTTP extension and several clusters in one
  discovery and one resync loop would add most.
- The exceptions of section 3: when the code is changed to avoid one, the exception
  goes and the property, with its proof, is strengthened.
