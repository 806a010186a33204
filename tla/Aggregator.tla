----------------------------- MODULE Aggregator -----------------------------
(***************************************************************************)
(* The aggregator: concurrent Send calls, in one or several processes,     *)
(* that share object spans through the span cache.                         *)
(*                                                                         *)
(* A caller is one call of Send.  It computes the cache key of the object  *)
(* and of the time window of its event, fetches the object span or         *)
(* reserves the key, and in the latter case creates the span, stores it    *)
(* and publishes a link job; then it creates the event span under the      *)
(* object span.  The cache is the contract of module SpanCache, so entries *)
(* expire, calls fail and requests arrive late at any moment.              *)
(*                                                                         *)
(* A caller creates at most one object span; the span is named after it.   *)
(* Times are in ticks, Second ticks to the second.                         *)
(***************************************************************************)
EXTENDS SpanCache

CONSTANTS
  Objects,       \* objects, each with the dedupId of its pseudospan
  Times,         \* event times
  Second,        \* ticks in a second
  SpanTtl,       \* options.spanTtl, in seconds
  RetrySteps,    \* attempts of retry.DefaultBackoff
  MaxExpiries    \* bound: how often a key may expire

\* time.Time.Unix
Unix(t) == t \div Second

\* expiringSpanCacheKey: the object and the number of the time window.
CacheKey(o, t) == <<o, Unix(t) \div SpanTtl>>

\* CreatePseudoSpan: the span starts a whole number of seconds before the
\* event and keeps the fraction of the event's second.
StartTime(t) == t - (Unix(t) % SpanTtl) * Second
FinishTime(t) == StartTime(t) + SpanTtl * Second

ASSUME AggregatorAssumption ==
  /\ Clients \subseteq Nat \ {0}
  /\ Times \subseteq Nat
  /\ Second \in Nat \ {0} /\ SpanTtl \in Nat \ {0} /\ RetrySteps \in Nat \ {0}
  /\ MaxExpiries \in Nat
  /\ \A o \in Objects, t \in Times : CacheKey(o, t) \in Keys

VARIABLES
  pc,            \* pc[c]: where caller c is
  object, time,  \* object[c], time[c]: arguments of Send
  attempts,      \* attempts[c]: spanCreator.retries
  uid,           \* uid[c]: spanCreator.reserveUid
  created,       \* object spans the tracer has been given
  result,        \* result[c]: the span EnsureObjectSpan works with, 0 for nil
  jobs,          \* link jobs published: [by, span]
  expiries,      \* history: expiries[k], how often key k has expired
  from, to,      \* history: expiries of its key when c began and had its span
  cached         \* history: [key, life, span], the spans ever stored

callerVars == <<pc, object, time, attempts, uid, created, result, jobs>>
historyVars == <<expiries, from, to, cached>>
vars == <<cacheVars, callerVars, historyVars>>

PCs == {"idle", "fetch", "create", "inject", "set", "publish", "event",
        "done", "failed", "crashed"}
Ended == {"done", "failed", "crashed"}

KeyOf(c) == CacheKey(object[c], time[c])

AggInit ==
  /\ Init
  /\ pc = [c \in Clients |-> "idle"]
  /\ object \in [Clients -> Objects]
  /\ time \in [Clients -> Times]
  /\ attempts = [c \in Clients |-> 0]
  /\ uid = [c \in Clients |-> 0]
  /\ created = {}
  /\ result = [c \in Clients |-> 0]
  /\ jobs = {}
  /\ expiries = [k \in Keys |-> 0]
  /\ from = [c \in Clients |-> 0]
  /\ to = [c \in Clients |-> 0]
  /\ cached = {}

Goto(c, label) == pc' = [pc EXCEPT ![c] = label]

\* The caller has the span s it will return.
HaveSpan(c, s) ==
  /\ result' = [result EXCEPT ![c] = s]
  /\ to' = [to EXCEPT ![c] = expiries[KeyOf(c)]]

-----------------------------------------------------------------------------
\* Send, EnsureObjectSpan and GetOrCreatePseudoSpan up to the first
\* FetchOrReserve.
Send(c) ==
  /\ pc[c] = "idle"
  /\ Goto(c, "fetch")
  /\ CallFetchOrReserve(c, KeyOf(c))
  /\ attempts' = [attempts EXCEPT ![c] = 1]
  /\ from' = [from EXCEPT ![c] = expiries[KeyOf(c)]]
  /\ UNCHANGED <<object, time, uid, created, result, jobs, expiries, to, cached>>

\* fetchOrReserve found an initialized entry whose carrier it can extract.
Fetched(c) ==
  /\ pc[c] = "fetch" /\ Idle(c)
  /\ resp[c].kind = "entry" /\ resp[c].val # 0
  /\ HaveSpan(c, resp[c].val)
  /\ Goto(c, "event")
  /\ UNCHANGED <<cacheVars, object, time, attempts, uid, created, jobs, expiries, from, cached>>

\* fetchOrReserve made a reservation.
Reserved(c) ==
  /\ pc[c] = "fetch" /\ Idle(c)
  /\ resp[c].kind = "entry" /\ resp[c].val = 0
  /\ uid' = [uid EXCEPT ![c] = resp[c].uid]
  /\ Goto(c, "create")
  /\ UNCHANGED <<cacheVars, object, time, attempts, created, result, jobs, historyVars>>

\* retry.OnError: back off and try again.
Retry(c) ==
  /\ pc[c] = "fetch" /\ Idle(c)
  /\ ShouldRetry(resp[c])
  /\ attempts[c] < RetrySteps
  /\ attempts' = [attempts EXCEPT ![c] = @ + 1]
  /\ CallFetchOrReserve(c, KeyOf(c))
  /\ UNCHANGED <<pc, object, time, uid, created, result, jobs, historyVars>>

FetchError_onlyRetryable(c) ==
  /\ pc[c] = "fetch" /\ Idle(c)
  /\ ShouldRetry(resp[c]) /\ attempts[c] = RetrySteps
  /\ Goto(c, "failed")
  /\ UNCHANGED <<cacheVars, object, time, attempts, uid, created, result, jobs, historyVars>>

\* The retries are used up, the error is not one to retry, or the persisted
\* carrier is invalid.
FetchError(c) ==
  /\ pc[c] = "fetch" /\ Idle(c)
  /\ \/ ShouldRetry(resp[c]) /\ attempts[c] = RetrySteps
     \/ resp[c].kind = "failure"
     \/ resp[c].kind = "entry" /\ resp[c].val # 0
  /\ Goto(c, "failed")
  /\ UNCHANGED <<cacheVars, object, time, attempts, uid, created, result, jobs, historyVars>>

CreatePseudoSpan(c) ==
  /\ pc[c] = "create"
  /\ created' = created \cup {c}
  /\ Goto(c, "inject")
  /\ UNCHANGED <<cacheVars, object, time, attempts, uid, result, jobs, historyVars>>

\* Tracer.InjectCarrier, then SpanCache.SetReserved.
SetReserved(c) ==
  /\ pc[c] = "inject"
  /\ CallSetReserved(c, KeyOf(c), uid[c], c)
  /\ Goto(c, "set")
  /\ UNCHANGED <<object, time, attempts, uid, created, result, jobs, historyVars>>

\* SetReserved succeeded: the caller returns its own span, isNew is true.
Stored(c) ==
  /\ pc[c] = "set" /\ Idle(c)
  /\ resp[c].kind = "ok"
  /\ HaveSpan(c, c)
  /\ Goto(c, "publish")
  /\ UNCHANGED <<cacheVars, object, time, attempts, uid, created, jobs, expiries, from, cached>>

\* SetReserved reported an error: the span exists, the caller does not use it.
StoreError(c) ==
  /\ pc[c] = "set" /\ Idle(c)
  /\ resp[c].kind # "ok"
  /\ Goto(c, "failed")
  /\ UNCHANGED <<cacheVars, object, time, attempts, uid, created, result, jobs, historyVars>>

Publish_skipped(c) ==
  /\ pc[c] = "publish"
  /\ Goto(c, "event")
  /\ UNCHANGED <<cacheVars, object, time, attempts, uid, created, result, jobs, historyVars>>

\* EnsureObjectSpan: LinkJobPublisher.Publish.
Publish(c) ==
  /\ pc[c] = "publish"
  /\ jobs' = jobs \cup {[by |-> c, span |-> result[c]]}
  /\ Goto(c, "event")
  /\ UNCHANGED <<cacheVars, object, time, attempts, uid, created, result, historyVars>>

\* Send: the event span, under the object span.
CreateEventSpan(c) ==
  /\ pc[c] = "event"
  /\ Goto(c, "done")
  /\ UNCHANGED <<cacheVars, object, time, attempts, uid, created, result, jobs, historyVars>>

\* Tracer.CreateSpan or InjectCarrier reports an error.
TracerError(c) ==
  /\ pc[c] \in {"create", "inject", "event"}
  /\ Goto(c, "failed")
  /\ UNCHANGED <<cacheVars, object, time, attempts, uid, created, result, jobs, historyVars>>

\* The process dies; a request it had sent may still arrive.
Crash(c) ==
  /\ pc[c] \notin {"idle"} \cup Ended
  /\ Goto(c, "crashed")
  /\ \/ Idle(c) /\ UNCHANGED cacheVars
     \/ Fail(c)
     \/ FailLate(c)
  /\ UNCHANGED <<object, time, attempts, uid, created, result, jobs, historyVars>>

-----------------------------------------------------------------------------
\* The cache works on the call of c.
CacheReserve(c) ==
  /\ Reserve(c, lastUid + 1) \/ LateReserve(c, lastUid + 1)
  /\ UNCHANGED <<callerVars, historyVars>>

Record(k, s) == cached' = cached \cup {[key |-> k, life |-> expiries[k], span |-> s]}

CacheStore(c) ==
  /\ \/ Store(c) /\ Record(call[c].key, call[c].val)
     \/ LateStore(c) /\ Record(late[c].key, late[c].val)
  /\ UNCHANGED <<callerVars, expiries, from, to>>

\* The answers the contract could give to the call of c.
Answers(c) ==
  {EntryAnswer(e.uid, e.val) : e \in seen[c]} \cup
  {Answer(kind) : kind \in {"ok", "ErrAlreadyReserved", "ErrInvalidKey", "ErrUidMismatch"}}

CacheReturn(c) ==
  /\ \/ \E r \in Answers(c) : Return(c, r)
     \/ Fail(c)
     \/ FailLate(c)
  /\ UNCHANGED <<callerVars, historyVars>>

CacheLateDrop(c) ==
  /\ LateDrop(c)
  /\ UNCHANGED <<callerVars, historyVars>>

CacheExpire(k) ==
  /\ expiries[k] < MaxExpiries
  /\ Expire(k)
  /\ expiries' = [expiries EXCEPT ![k] = @ + 1]
  /\ UNCHANGED <<callerVars, from, to, cached>>

-----------------------------------------------------------------------------
CallerStep(c) ==
  \/ Fetched(c) \/ Reserved(c) \/ Retry(c) \/ FetchError(c)
  \/ CreatePseudoSpan(c) \/ SetReserved(c) \/ Stored(c) \/ StoreError(c)
  \/ Publish(c) \/ CreateEventSpan(c) \/ TracerError(c)

CacheStep(c) == CacheReserve(c) \/ CacheStore(c) \/ CacheReturn(c) \/ CacheLateDrop(c)

AggNext ==
  \/ \E c \in Clients : Send(c) \/ CallerStep(c) \/ CacheStep(c) \/ Crash(c)
  \/ \E k \in Keys : CacheExpire(k)

AggSpec == AggInit /\ [][AggNext]_vars

\* A goroutine keeps running and the cache answers its call, if only with an
\* error.  Nothing is assumed of crashes, expiry or late requests.
Fairness ==
  \A c \in Clients : WF_vars(CallerStep(c)) /\ WF_vars(CacheReturn(c))

FairSpec == AggSpec /\ Fairness

-----------------------------------------------------------------------------
\* Types of the state of the callers and of the histories.
AggTypeOK ==
  /\ TypeOK
  /\ pc \in [Clients -> PCs]
  /\ object \in [Clients -> Objects]
  /\ time \in [Clients -> Times]
  /\ attempts \in [Clients -> 0..RetrySteps]
  /\ uid \in [Clients -> Nat]
  /\ created \subseteq Clients
  /\ result \in [Clients -> {0} \cup Clients]
  /\ jobs \subseteq [by : Clients, span : {0} \cup Clients]
  /\ expiries \in [Keys -> Nat]
  /\ from \in [Clients -> Nat]
  /\ to \in [Clients -> Nat]
  /\ cached \subseteq [key : Keys, life : Nat, span : Clients]

\* A caller only works with a span that was in the cache under its own key at
\* some moment of its call: never with the span of a creator that lost its
\* reservation, and never with one created under another key.
ResultWasCached ==
  \A c \in Clients : result[c] # 0 =>
    \E h \in cached : /\ h.key = KeyOf(c)
                      /\ h.span = result[c]
                      /\ from[c] <= h.life /\ h.life <= to[c]

\* Callers of the same object and window agree on the span, unless the entry
\* expired between the beginning of one of the calls and the end of the other.
AgreeWithinLife ==
  \A c, d \in Clients :
    /\ result[c] # 0 /\ result[d] # 0
    /\ KeyOf(c) = KeyOf(d)
    /\ result[c] # result[d]
    => \/ to[c] > from[d]
       \/ to[d] > from[c]

\* A span is stored for one reservation only, and only after the tracer has it.
StoredOnce ==
  /\ \A h \in cached : h.span \in created
  /\ \A h, i \in cached : (h.span = i.span \/ (h.key = i.key /\ h.life = i.life)) => h = i

\* Every span that reaches the cache gets its link job, published once and by
\* its creator, unless the creator failed or crashed between storing the span
\* and publishing the job.
LinkJobs ==
  /\ \A j \in jobs : j.span = j.by /\ \E h \in cached : h.span = j.span
  /\ \A h \in cached :
       \/ pc[h.span] \in {"set", "publish", "failed", "crashed"}
       \/ [by |-> h.span, span |-> h.span] \in jobs

\* The span a caller puts its event under covers the time of the event, whoever
\* created the span and for whatever event of the window, but for the fraction
\* of a second that StartTime keeps.
SpanCoversEvent ==
  \A c \in Clients : result[c] # 0 =>
    /\ StartTime(time[result[c]]) < time[c] + Second
    /\ time[c] < FinishTime(time[result[c]])

\* Every Send returns, whatever the cache does, unless its process crashes.
SendReturns == \A c \in Clients : pc[c] \notin {"idle"} \cup Ended ~> pc[c] \in Ended

-----------------------------------------------------------------------------
\* The inductive invariant behind the properties above, in parts.

\* Witness(k, s, lo, hi): span s was stored under key k in one of its lives lo..hi.
Witness(k, s, lo, hi) ==
  \E h \in cached : h.key = k /\ h.span = s /\ lo <= h.life /\ h.life <= hi

\* A call to the cache is the one the place of its caller says it is.
CallMatchesCaller ==
  \A c \in Clients :
    /\ call[c].op \in {"FetchOrReserve", "reserved"} => pc[c] = "fetch"
    /\ call[c].op \in {"SetReserved", "stored"} =>
         pc[c] = "set" /\ call[c].val = c /\ late[c].op # "SetReserved"
    /\ call[c].op # "none" => call[c].key = KeyOf(c)
    /\ call[c].op # "Fetch"
    /\ late[c].op \in {"none", "FetchOrReserve", "SetReserved"}
    /\ late[c].op = "SetReserved" =>
         /\ late[c].val = c
         /\ late[c].key = KeyOf(c)
         /\ pc[c] \in {"set", "failed", "crashed"}
         /\ pc[c] = "set" => resp[c].kind = "failure"
    /\ pc[c] \in {"inject", "set", "publish"} => c \in created
    /\ late[c].op = "SetReserved" => c \in created

\* What the store holds, and what calls have seen of it, has been recorded.
EntriesRecorded ==
  /\ \A k \in Keys : IsInitialized(entry[k]) =>
       Witness(k, entry[k].val, expiries[k], expiries[k])
  /\ \A c \in Clients : from[c] <= expiries[KeyOf(c)]
  /\ \A c \in Clients : \A e \in seen[c] : (~Idle(c) /\ IsInitialized(e)) =>
       Witness(KeyOf(c), e.val, from[c], expiries[KeyOf(c)])

\* An answer a caller has yet to look at is backed by a stored span.
AnswersRecorded ==
  \A c \in Clients :
    /\ (pc[c] = "fetch" /\ Idle(c) /\ resp[c].kind = "entry" /\ resp[c].val # 0) =>
         Witness(KeyOf(c), resp[c].val, from[c], expiries[KeyOf(c)])
    /\ (call[c].op = "stored" \/ (pc[c] = "set" /\ Idle(c) /\ resp[c].kind = "ok")) =>
         Witness(KeyOf(c), c, from[c], expiries[KeyOf(c)])

\* A key stores one span per life, and a caller stores its span once.
LivesRecorded ==
  \A h \in cached :
    /\ h.key = KeyOf(h.span)
    /\ h.span \in created
    /\ h.life <= expiries[h.key]
    /\ h.life = expiries[h.key] => IsInitialized(entry[h.key])
    /\ pc[h.span] \in {"set", "publish", "event", "done", "failed", "crashed"}
    /\ call[h.span].op # "SetReserved"
    /\ late[h.span].op # "SetReserved"

\* A caller has a span once it has come that far, and publishes its own.
ResultMatchesCaller ==
  \A c \in Clients :
    /\ result[c] # 0 => pc[c] \in {"publish", "event"} \cup Ended
    /\ pc[c] = "publish" => result[c] = c

\* The inductive invariant of the aggregator.
AggInv ==
  /\ AggTypeOK
  /\ CallMatchesCaller
  /\ EntriesRecorded
  /\ AnswersRecorded
  /\ LivesRecorded
  /\ ResultMatchesCaller
  /\ ResultWasCached
  /\ StoredOnce
  /\ LinkJobs
=============================================================================
