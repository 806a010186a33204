---------------------------- MODULE DiffPipeline ----------------------------
(***************************************************************************)
(* How the change of an object becomes a log of its trace.  In each watch  *)
(* leader the informer of the type turns what it sees into tasks; a worker *)
(* computes the patch of a task and either stores it in the diff cache     *)
(* (etcd) or, when the process is not the write leader, keeps it for the   *)
(* duration of a lease; the audit consumer fetches it to decorate its      *)
(* event.  One object, one worker to the process.  Versions are numbers,   *)
(* and the LeaseDuration of the watch elector is L ticks.                  *)
(***************************************************************************)
EXTENDS Naturals, Sequences, FiniteSets, SequencesExt

CONSTANTS
  Procs, None,
  UseOldResourceVersion,
  L,
  MaxRv, MaxTime, MaxWriteTerms, MaxRelists, MaxCrashes, MaxFailures, Backlog   \* bounds

\* A writer is a function of the versions that it was made for.
Fns == [kind : {"patch", "snapshot"}, old : 1..MaxRv, new : 1..MaxRv]

ASSUME PipelineAssumption ==
  /\ UseOldResourceVersion \in BOOLEAN
  /\ L \in Nat \ {0} /\ MaxRv \in Nat \ {0} /\ MaxTime \in Nat
  /\ None \notin Procs /\ None \notin Fns

VARIABLES
  now,
  object,        \* in the API server: [rv, gone]
  store,         \* PrepushUndeltaStore of a process: the version it has, or 0
  hasSynced,
  tasks,         \* ctrl.taskPool: [kind, old, new]
  worker,        \* runWorker: [leader, queue], queue of [fn, expiry]
  lease, terms,  \* the write lease; terms used
  isWriteLeader, \* how many write terms the process counts
  ending,        \* the times at which ended terms stop being counted
  held,          \* history: the ticks at which a process had the write lease
  casts,         \* broadcasts not yet received, oldest first
  cache,         \* the diff cache: patches by the version they are keyed with
  snapshot,      \* the deletion snapshot in the cache, or 0
  failed,        \* history: writes that etcd refused
  computed,      \* history: what the worker of a process has computed: [fn, at]
  swapped,       \* history: two broadcasts were received in the wrong order
  wentBack,      \* history: a list was older than what the informer had
  relists, crashes

clusterVars == <<object>>
informerVars == <<store, hasSynced, wentBack, relists, crashes>>
leaderVars == <<lease, terms, isWriteLeader, ending, held>>
cacheVars == <<cache, snapshot, failed>>
pipelineVars == <<now, clusterVars, informerVars, tasks, worker, leaderVars, casts, cacheVars, computed, swapped>>

Patch(old, new) == [kind |-> "patch", old |-> old, new |-> new]
Snapshot(rv) == [kind |-> "snapshot", old |-> rv, new |-> rv]

PipelineInit ==
  /\ now = 0
  /\ object = [rv |-> 1, gone |-> FALSE]
  /\ store = [p \in Procs |-> 0] /\ hasSynced = [p \in Procs |-> FALSE]
  /\ tasks = [p \in Procs |-> <<>>]
  /\ worker = [p \in Procs |-> [leader |-> FALSE, queue |-> <<>>]]
  /\ lease = None /\ terms = 0
  /\ isWriteLeader = [p \in Procs |-> 0]
  /\ ending = [p \in Procs |-> <<>>] /\ held = [p \in Procs |-> {}]
  /\ casts = [p \in Procs |-> <<>>]
  /\ cache = [rv \in 1..MaxRv |-> None]
  /\ snapshot = 0
  /\ failed = {} /\ computed = [p \in Procs |-> {}]
  /\ swapped = FALSE /\ wentBack = FALSE
  /\ relists = 0 /\ crashes = 0

-----------------------------------------------------------------------------
(* The API server and the informers *)

Write ==
  /\ ~object.gone
  /\ \/ object.rv < MaxRv /\ object' = [object EXCEPT !.rv = @ + 1]
     \/ object' = [object EXCEPT !.gone = TRUE]
  /\ UNCHANGED <<now, informerVars, tasks, worker, leaderVars, casts, cacheVars, computed, swapped>>

\* processSwapResult: OnUpdate and OnDelete.  (The object is there before the
\* first list, and OnAdd says nothing of what the first list brings.)
processSwapResult(p, old, new) ==
  tasks' = [tasks EXCEPT ![p] =
    CASE old # 0 /\ new # 0 -> Append(@, Patch(old, new))
      [] old # 0 /\ new = 0 -> Append(@, Snapshot(old))
      [] OTHER -> @]

\* SwapMap: an absent value is 0.
Swap(p, new) == store' = [store EXCEPT ![p] = new]

set(p, new) ==
  /\ Len(tasks[p]) < Backlog
  /\ processSwapResult(p, store[p], new)
  /\ Swap(p, new)

\* The watch delivers the next event.
Watch(p) ==
  /\ hasSynced[p] /\ store[p] # 0
  /\ \/ store[p] < object.rv /\ set(p, store[p] + 1)
     \/ store[p] = object.rv /\ object.gone /\ set(p, 0)
  /\ UNCHANGED <<now, object, hasSynced, worker, leaderVars, casts, cacheVars, computed, swapped, wentBack, relists,
                 crashes>>

\* The reflector lists: at first, and again when its watch breaks.  ListFunc asks
\* for version "0", so any state the API server still has cached may be the answer.
Replace(p) ==
  /\ \/ ~hasSynced[p] /\ UNCHANGED relists
     \/ store[p] # 0 /\ relists < MaxRelists /\ relists' = relists + 1
  /\ \/ \E rv \in 1..object.rv :
          /\ set(p, rv)
          /\ wentBack' = (wentBack \/ rv < store[p])
     \/ object.gone /\ set(p, 0) /\ UNCHANGED wentBack
  /\ hasSynced' = [hasSynced EXCEPT ![p] = TRUE]
  /\ UNCHANGED <<now, object, worker, leaderVars, casts, cacheVars, computed, swapped, crashes>>

-----------------------------------------------------------------------------
(* The cache *)

ChooseResourceVersion(old, new) == IF UseOldResourceVersion THEN old ELSE new

StoreKey_new(patch) == patch.new

\* The version under which Store puts a patch.
StoreKey(patch) == ChooseResourceVersion(patch.old, patch.new)

\* Store and StoreSnapshot of each of fns in turn, but for those that etcd
\* refuses: of those with the same key the last one stays.
StoreAll(fns) ==
  \E refused \in SUBSET ToSet(fns) :
    LET done == {j \in DOMAIN fns : fns[j] \notin refused}
        keyed(rv) == {j \in done : fns[j].kind = "patch" /\ StoreKey(fns[j]) = rv}
        snaps == {j \in done : fns[j].kind = "snapshot"} IN
    /\ cache' = [rv \in 1..MaxRv |-> IF keyed(rv) = {} THEN cache[rv] ELSE fns[Max(keyed(rv))]]
    /\ snapshot' = IF snaps = {} THEN snapshot ELSE fns[Max(snaps)].new
    /\ failed' = failed \cup refused
    /\ Cardinality(failed') <= MaxFailures

-----------------------------------------------------------------------------
(* The worker *)

\* onUpdate yields nothing for an unchanged version.
IsNil(task) == task.kind = "patch" /\ task.old = task.new

Keep_popFront(queue, fn) ==
  Append(IF queue # <<>> THEN Tail(queue) ELSE queue, [fn |-> fn, expiry |-> now + L])

\* The first of the queue goes if it has expired; the writer is queued.
Keep(queue, fn) ==
  Append(IF queue # <<>> /\ now > Head(queue).expiry THEN Tail(queue) ELSE queue,
         [fn |-> fn, expiry |-> now + L])

\* runWorker receives a task.
runTask(p) ==
  LET fn == Head(tasks[p]) IN
  /\ tasks[p] # <<>>
  /\ tasks' = [tasks EXCEPT ![p] = Tail(@)]
  /\ computed' = [computed EXCEPT ![p] = IF IsNil(fn) THEN @ ELSE @ \cup {[fn |-> fn, at |-> now]}]
  /\ \/ IsNil(fn) /\ UNCHANGED <<worker, cacheVars>>
     \/ ~IsNil(fn) /\ worker[p].leader /\ StoreAll(<<fn>>) /\ UNCHANGED worker
     \/ /\ ~IsNil(fn) /\ ~worker[p].leader
        /\ worker' = [worker EXCEPT ![p].queue = Keep(@, fn)]
        /\ UNCHANGED cacheVars
  /\ UNCHANGED <<now, object, informerVars, leaderVars, casts, swapped>>

\* It receives a broadcast, whichever goroutine was the first to send; either way
\* what was kept is written.
setWriteLeader(p) ==
  \E i \in DOMAIN casts[p] :
    /\ StoreAll([j \in DOMAIN worker[p].queue |-> worker[p].queue[j].fn])
    /\ worker' = [worker EXCEPT ![p] = [leader |-> casts[p][i], queue |-> <<>>]]
    /\ casts' = [casts EXCEPT ![p] = RemoveAt(@, i)]
    /\ swapped' = (swapped \/ i > 1)
    /\ UNCHANGED <<now, object, informerVars, tasks, leaderVars, computed>>

-----------------------------------------------------------------------------
(* The write elector of resyncMonitorsLoop *)

broadcastWriteLeader(p, changed, b) ==
  casts' = [casts EXCEPT ![p] = IF changed THEN Append(@, b) ELSE @]

AcquireWrite(p) ==
  /\ lease = None /\ terms < MaxWriteTerms
  /\ lease' = p /\ terms' = terms + 1
  /\ isWriteLeader' = [isWriteLeader EXCEPT ![p] = @ + 1]
  /\ broadcastWriteLeader(p, isWriteLeader[p] = 0, TRUE)
  /\ UNCHANGED <<now, object, informerVars, tasks, worker, ending, held, cacheVars, computed, swapped>>

\* The lease is lost; the term counts for L more.
LoseWrite(p) ==
  /\ lease = p
  /\ lease' = None
  /\ ending' = [ending EXCEPT ![p] = Append(@, now + L)]
  /\ UNCHANGED <<now, object, informerVars, tasks, worker, terms, isWriteLeader, held, casts, cacheVars, computed, swapped>>

EndWrite(p) ==
  /\ ending[p] # <<>> /\ Head(ending[p]) <= now
  /\ ending' = [ending EXCEPT ![p] = Tail(@)]
  /\ isWriteLeader' = [isWriteLeader EXCEPT ![p] = @ - 1]
  /\ broadcastWriteLeader(p, isWriteLeader[p] = 1, FALSE)
  /\ UNCHANGED <<now, object, informerVars, tasks, worker, lease, terms, held, cacheVars, computed, swapped>>

\* Time passes, whether or not anyone has the lease: the lease of a process that
\* has crashed is taken by another only when it has run out.  Of the rest only
\* this is assumed, that a broadcast is received within a tick.
Tick ==
  /\ now < MaxTime
  /\ \A p \in Procs : casts[p] = <<>>
  /\ now' = now + 1
  /\ held' = [p \in Procs |-> held[p] \cup (IF lease = p THEN {now} ELSE {})]
  /\ UNCHANGED <<object, informerVars, tasks, worker, lease, terms, isWriteLeader, ending, casts, cacheVars, computed,
                 swapped>>

\* A process ends and starts anew, with nothing of what it kept.
Crash(p) ==
  /\ crashes < MaxCrashes /\ crashes' = crashes + 1
  /\ store' = [store EXCEPT ![p] = 0] /\ hasSynced' = [hasSynced EXCEPT ![p] = FALSE]
  /\ tasks' = [tasks EXCEPT ![p] = <<>>]
  /\ worker' = [worker EXCEPT ![p] = [leader |-> FALSE, queue |-> <<>>]]
  /\ lease' = IF lease = p THEN None ELSE lease
  /\ isWriteLeader' = [isWriteLeader EXCEPT ![p] = 0]
  /\ ending' = [ending EXCEPT ![p] = <<>>] /\ held' = [held EXCEPT ![p] = {}]
  /\ casts' = [casts EXCEPT ![p] = <<>>]
  /\ computed' = [computed EXCEPT ![p] = {}]
  /\ UNCHANGED <<now, object, wentBack, relists, terms, cacheVars, swapped>>

-----------------------------------------------------------------------------
(* The decorator.  An audit message says which version it updated and, if it *)
(* carries the response, which version came out of it (0 if it does not).    *)

\* Without the version its key needs, Fetch is an error.
Fetch(old, new) ==
  LET keyRv == ChooseResourceVersion(old, new) IN IF keyRv \in DOMAIN cache THEN cache[keyRv] ELSE None

FetchSnapshot(name) == IF name = "deletion" /\ snapshot # 0 THEN Snapshot(snapshot) ELSE None

VerbToSnapshotName(verb) == IF verb = "create" THEN "creation" ELSE "deletion"

tryUpdateOnce(m) == Fetch(m.old, m.new)
tryCreateDeleteOnce(m) == FetchSnapshot(VerbToSnapshotName(m.verb))

\* What is logged with the message: nothing for a request that failed, an update
\* that changed nothing, a subresource or another verb.  The decorator asks again
\* and again until something is there or its time is up.
tryDecorate(m) ==
  CASE m.failed -> None
    [] m.verb \in {"update", "patch"} /\ m.old = m.new -> None
    [] m.verb \in {"update", "patch"} -> tryUpdateOnce(m)
    [] m.verb \in {"create", "delete"} /\ ~m.subresource -> tryCreateDeleteOnce(m)
    [] OTHER -> None

PipelineNext ==
  \/ Write \/ Tick
  \/ \E p \in Procs : Watch(p) \/ Replace(p) \/ runTask(p) \/ setWriteLeader(p)
  \/ \E p \in Procs : AcquireWrite(p) \/ LoseWrite(p) \/ EndWrite(p) \/ Crash(p)

PipelineSpec == PipelineInit /\ [][PipelineNext]_pipelineVars

-----------------------------------------------------------------------------
Stored(fn) ==
  \/ fn \in failed
  \/ fn.kind = "snapshot" /\ snapshot # 0
  \/ fn.kind = "patch" /\ cache[StoreKey(fn)] # None

\* A patch is in the cache (or one that replaced it is), or was refused by etcd,
\* if the process that computed it had the write lease less than L before that
\* or no more than L after it and stays up: what a writer computes once its lease
\* is lost is still written, because its term counts for L more, and what it
\* computed before it got the lease is still there to be written, because it was
\* kept for L.  (This is so as long as broadcasts arrive in order.)
NoPatchLost ==
  ~swapped =>
    \A p \in Procs : \A c \in computed[p] :
      (\E t \in held[p] : c.at < t + L /\ t <= c.at + L) => Stored(c.fn)

\* Not so: a patch that every watch leader has computed is in the cache, or was
\* refused, or is kept by a process that may still become the writer.  When the
\* lease is vacant for longer than L, as at the start or after a crash, the next patch
\* drives the expired one out of the queue of every process.
ComputedIsNotLost ==
  ~swapped /\ ~wentBack =>
    \A fn \in Fns : (\A p \in Procs : \E c \in computed[p] : c.fn = fn) =>
      Stored(fn) \/ \E p \in Procs : \E i \in DOMAIN worker[p].queue : worker[p].queue[i].fn = fn

Message(verb, old, new) == [verb |-> verb, old |-> old, new |-> new, failed |-> FALSE, subresource |-> FALSE]

\* The diff that is logged with an update is of a range of versions that holds
\* the update, whichever process wrote it and however many versions its informer
\* had skipped, unless a stale list took an informer back; and what is logged with
\* a deletion is a version that the object had before it was deleted.
DecorationCoversUpdate ==
  /\ ~wentBack => \A old \in 1..(object.rv - 1) : \A new \in {0, old + 1} :
       LET patch == tryDecorate(Message("update", old, new)) IN
         patch # None => patch.kind = "patch" /\ patch.old <= old /\ old < patch.new
  /\ LET logged == tryDecorate(Message("delete", 0, 0)) IN
       logged # None => logged.kind = "snapshot" /\ object.gone /\ logged.new <= object.rv
=============================================================================
