------------------------------ MODULE TtlOnce -------------------------------
(***************************************************************************)
(* cache.TtlOnce: a map in which the first insertion of a key stays until  *)
(* it expires, with a queue of expiry times and a goroutine that removes   *)
(* what has expired.  The snapshots and patches of the diff cache live in  *)
(* it.  Values are natural numbers, and 0 stands for an absent key; the    *)
(* queue is the channel.Deque of module Deque, here as a sequence.         *)
(***************************************************************************)
EXTENDS Naturals, Sequences

CONSTANTS
  Keys, Vals,
  Ttl,           \* in seconds
  MaxTime        \* bound: clock ticks, one to the second

ASSUME TtlOnceAssumption == Vals \subseteq Nat \ {0} /\ Ttl \in Nat /\ MaxTime \in Nat

VARIABLES
  now,           \* cache.clock
  data,          \* data[k]: the value of key k
  queue,         \* cleanupQueue: [key, expiry]
  cleanup,       \* where RunCleanupLoop is
  deadline       \* when the timer of the loop fires

ttlVars == <<now, data, queue, cleanup, deadline>>

TtlInit ==
  /\ now = 0
  /\ data = [k \in Keys |-> 0]
  /\ queue = <<>>
  /\ cleanup = "peek"
  /\ deadline = 0

-----------------------------------------------------------------------------
Add_requeues(k, v) ==
  /\ now + Ttl < MaxTime
  /\ data' = IF data[k] = 0 THEN [data EXCEPT ![k] = v] ELSE data
  /\ queue' = Append(queue, [key |-> k, expiry |-> now + Ttl])
  /\ UNCHANGED <<now, cleanup, deadline>>

\* Bound: what is added expires before MaxTime.
Add(k, v) ==
  /\ now + Ttl < MaxTime
  /\ \/ data[k] # 0 /\ UNCHANGED <<data, queue>>
     \/ /\ data[k] = 0
        /\ data' = [data EXCEPT ![k] = v]
        /\ queue' = Append(queue, [key |-> k, expiry |-> now + Ttl])
  /\ UNCHANGED <<now, cleanup, deadline>>

Tick ==
  /\ now < MaxTime
  /\ now' = now + 1
  /\ UNCHANGED <<data, queue, cleanup, deadline>>

\* RunCleanupLoop: sleep until a second after the first expiry, or, when the
\* queue is empty, wait for wakeupCh, to which nothing is ever sent.
peekExpiry ==
  /\ cleanup = "peek"
  /\ \/ queue = <<>> /\ cleanup' = "wait" /\ UNCHANGED deadline
     \/ queue # <<>> /\ cleanup' = "sleep" /\ deadline' = Head(queue).expiry + 1
  /\ UNCHANGED <<now, data, queue>>

\* The part of the queue whose expiry is before now, up to the first that is not.
Expired(q) ==
  CHOOSE n \in 0..Len(q) : /\ \A i \in 1..n : q[i].expiry < now
                           /\ n < Len(q) => ~(q[n + 1].expiry < now)

doCleanup_oneEntry ==
  /\ cleanup = "sleep"
  /\ now >= deadline
  /\ data' = [data EXCEPT ![Head(queue).key] = 0]
  /\ queue' = Tail(queue)
  /\ cleanup' = "wait"
  /\ UNCHANGED <<now, deadline>>

\* The timer has fired: everything that has expired is removed.
doCleanup ==
  LET n == Expired(queue) IN
  /\ cleanup = "sleep"
  /\ now >= deadline
  /\ data' = [k \in Keys |-> IF \E i \in 1..n : queue[i].key = k THEN 0 ELSE data[k]]
  /\ queue' = SubSeq(queue, n + 1, Len(queue))
  /\ cleanup' = "peek"
  /\ UNCHANGED <<now, deadline>>

\* ctx.Done
StopCleanup ==
  /\ cleanup \in {"wait", "sleep"}
  /\ cleanup' = "stopped"
  /\ UNCHANGED <<now, data, queue, deadline>>

TtlNext ==
  \/ \E k \in Keys, v \in Vals : Add(k, v)
  \/ Tick
  \/ peekExpiry
  \/ doCleanup
  \/ StopCleanup

TtlSpec == TtlInit /\ [][TtlNext]_ttlVars

\* Time passes and the goroutine of the loop runs.
TtlFairness == WF_ttlVars(Tick) /\ WF_ttlVars(peekExpiry) /\ WF_ttlVars(doCleanup)

TtlFairSpec == TtlSpec /\ TtlFairness

-----------------------------------------------------------------------------
\* Types of the state of the cache.
TtlTypeOK ==
  /\ now \in 0..MaxTime
  /\ data \in [Keys -> {0} \cup Vals]
  /\ queue \in Seq([key : Keys, expiry : 0..MaxTime])
  /\ cleanup \in {"peek", "wait", "sleep", "stopped"}
  /\ deadline \in 0..MaxTime

\* The queue lists exactly the keys that are present, each once and in the
\* order in which they expire, so that looking at its front is enough.
QueueTracksData ==
  /\ \A k \in Keys : data[k] # 0 <=> \E i \in 1..Len(queue) : queue[i].key = k
  /\ \A i, j \in 1..Len(queue) : i < j => /\ queue[i].key # queue[j].key
                                          /\ queue[i].expiry <= queue[j].expiry

\* "New insertions do not overwrite the old insertion", and what is inserted
\* is not removed before its time to live is over.
KeptForTtl ==
  [][\A k \in Keys : data[k] # 0 /\ data'[k] # data[k] =>
       /\ data'[k] = 0
       /\ \E i \in 1..Len(queue) : queue[i].key = k /\ queue[i].expiry < now]_ttlVars

HasExpired(k) == \E i \in 1..Len(queue) : queue[i].key = k /\ queue[i].expiry < now

\* A loop that does not wait for wakeupCh removes every entry that expires.
AwakeLoopCleansUp ==
  \A k \in Keys :
    HasExpired(k) /\ cleanup # "wait" ~> ~HasExpired(k) \/ cleanup = "stopped"

\* "Duration for which snapshot cache remains": an entry whose time to live is
\* over is removed, unless the cache is being stopped.
ExpiredIsRemoved ==
  \A k \in Keys : HasExpired(k) ~> ~HasExpired(k) \/ cleanup = "stopped"
=============================================================================
