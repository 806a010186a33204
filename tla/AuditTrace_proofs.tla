------------------------- MODULE AuditTrace_proofs --------------------------
(***************************************************************************)
(* The object cache, the link jobs, the order of events and the metrics,   *)
(* for every set of requests, events, objects, links, workers and metrics. *)
(***************************************************************************)
EXTENDS AuditTrace, FiniteSetTheorems, WellFoundedInduction, TLAPS

Keys == {objectKey(o) : o \in Objects}
Windows == {e.window : e \in Events}
DedupIds == {"ownerReference", "annotation"}
Jobs == [object : Objects, window : Windows, raw : BOOLEAN]
LinkSet == [to : Objects, dedupId : DedupIds]
Ids == {<<d>> : d \in DedupIds} \cup {<<d, o>> : d \in DedupIds, o \in Objects}
LinkSpans == [of : Objects, window : Windows, to : Objects, dedupId : Ids]
Linking == {"ensure", "forward", "backward"}
Busy == [job : Jobs, linker : DOMAIN Linkers, pc : {"lookup", "fetch"} \cup Linking, links : Seq(LinkSet)]

\* Events on their way to the consumers are events of some request.
PipelineTypeOK ==
  /\ \A r \in Requests : posting[r] = None \/ posting[r] \in Seq(Events)
  /\ DOMAIN posting = Requests
  /\ subscriber \in Seq(Events)
  /\ hash \in HashFunctions
  /\ producing \in [Workers -> {None} \cup [event : Events, partition : Partitions, left : SUBSET groups]]
  /\ mq \in [groups -> [Partitions -> Seq(Events)]]

\* A worker that creates links has one to create.
LinksTypeOK ==
  /\ spans \subseteq Objects \X Windows
  /\ linkSpans \subseteq LinkSpans
  /\ jobs \in Seq(Jobs)
  /\ work \in [DOMAIN work -> {Idle} \cup Busy]
  /\ \A w \in DOMAIN work : work[w].pc \in Linking => work[w].links # <<>>
  /\ cache \in [Keys -> Objects \cup {Absent, Pending}]
  /\ \A k \in Keys : cache[k] \in Objects => objectKey(cache[k]) = k
  /\ expired \in Seq(Keys)

ExpiredKeys == {expired[i] : i \in DOMAIN expired}

\* A worker that fetches an object has reserved its key, until the entry expires.
FetchIsReserved ==
  \A w \in DOMAIN work : At(w, "fetch") /\ Key(w) \notin ExpiredKeys => cache[Key(w)] = Pending

\* The inductive invariant for OneFetch.
FetchInv == PipelineTypeOK /\ LinksTypeOK /\ FetchIsReserved /\ OneFetch

-----------------------------------------------------------------------------
(* Operators *)

LEMMA LinkersFacts ==
  /\ DOMAIN Linkers = {1, 2} /\ Len(Linkers) = 2
  /\ Linkers[1] = "owner-linker" /\ Linkers[2] = "annotation-linker"
  BY DEF Linkers

LEMMA SeqsOfSet ==
  ASSUME NEW S, IsFiniteSet(S), NEW f \in SetToSeqs(S)
  PROVE  /\ f \in Seq(S) /\ Len(f) = Cardinality(S)
         /\ f = <<>> <=> S = {}
<1>1. Cardinality(S) \in Nat
  BY FS_CardinalityType
<1>2. f \in [1..Cardinality(S) -> S]
  BY DEF SetToSeqs
<1>3. f \in Seq(S) /\ Len(f) = Cardinality(S)
  BY <1>1, <1>2
<1>4. f = <<>> <=> Cardinality(S) = 0
  BY <1>3
<1> QED
  BY <1>3, <1>4, FS_EmptySet

LEMMA TailFacts ==
  ASSUME NEW S, NEW s \in Seq(S), s # <<>>
  PROVE  Tail(s) \in Seq(S) /\ (Len(s) # 1 => Tail(s) # <<>>)
<1>1. Tail(s) \in Seq(S) /\ Len(Tail(s)) = Len(s) - 1 /\ Len(s) \in Nat
  OBVIOUS
<1>2. \A q \in Seq(S) : q = <<>> => Len(q) = 0
  OBVIOUS
<1> QED
  BY <1>1, <1>2

LEMMA LookupFacts ==
  ASSUME NEW i \in DOMAIN Linkers, NEW o \in Objects, NEW p \in Objects,
         objectKey(o) = objectKey(p), ~LookupFails(Linkers[i], p)
  PROVE  /\ Lookup(Linkers[i], o, p) \subseteq LinkSet /\ IsFiniteSet(Lookup(Linkers[i], o, p))
         /\ \A l \in Lookup(Linkers[i], o, p) :
              l.dedupId = IF i = 1 THEN "ownerReference" ELSE "annotation"
<1>1. /\ IsFiniteSet(Lookup(Linkers[i], o, p)) /\ \A l \in Lookup(Linkers[i], o, p) : l.to \in Objects
  BY ObjectsAssumption
<1>2. CASE i = 1
  <2>1. Lookup(Linkers[i], o, p) = LookupOwner(o, p)
    BY <1>2, LinkersFacts DEF Lookup
  <2> QED
    BY <1>1, <1>2, <2>1 DEF LookupOwner, LinkSet, DedupIds
<1>3. CASE i = 2
  <2>1. Lookup(Linkers[i], o, p) = LookupAnnotation(p)
    BY <1>3, LinkersFacts DEF Lookup
  <2> QED
    BY <1>1, <1>3, <2>1 DEF LookupAnnotation, LinkSet, DedupIds
<1> QED
  BY <1>2, <1>3, LinkersFacts

LEMMA IdleIsIdle == Idle.pc = "idle" /\ Idle.links = <<>> /\ Idle \notin Busy
  BY DEF Idle, Busy, Linking

LEMMA BeginFacts ==
  ASSUME NEW job \in Jobs, NEW i \in Nat, i > 0
  PROVE  /\ Begin(job, i) \in {Idle} \cup Busy
         /\ Begin(job, i).pc \in {"idle", "lookup"}
         /\ i \in DOMAIN Linkers => /\ Begin(job, i).pc = "lookup" /\ Begin(job, i).job = job
                                    /\ Begin(job, i).linker = i
<1>1. CASE i > Len(Linkers)
  BY <1>1, IdleIsIdle, LinkersFacts DEF Begin
<1>2. CASE i \in DOMAIN Linkers
  <2>1. Begin(job, i) = [job |-> job, linker |-> i, pc |-> "lookup", links |-> <<>>]
    BY <1>2, LinkersFacts DEF Begin
  <2> QED
    BY <1>2, <2>1 DEF Busy
<1> QED
  BY <1>1, <1>2, LinkersFacts

-----------------------------------------------------------------------------
(* Types *)

LEMMA ReceiveFacts ==
  ASSUME PipelineTypeOK, NEW g \in groups, NEW p \in Partitions, Receive(g, p)
  PROVE  /\ Head(mq[g][p]) \in Events
         /\ PipelineTypeOK'
<1>1. /\ mq[g][p] # <<>> /\ mq' = [mq EXCEPT ![g][p] = Tail(mq[g][p])]
      /\ UNCHANGED <<posting, groups, subscriber, producing, hash>>
  BY DEF Receive
<1>2. mq[g] \in [Partitions -> Seq(Events)] /\ mq[g][p] \in Seq(Events)
  BY DEF PipelineTypeOK
<1>3. Head(mq[g][p]) \in Events /\ Tail(mq[g][p]) \in Seq(Events)
  BY <1>1, <1>2
<1>4. mq' \in [groups -> [Partitions -> Seq(Events)]]
  BY <1>1, <1>2, <1>3 DEF PipelineTypeOK
<1> QED
  BY <1>1, <1>3, <1>4 DEF PipelineTypeOK

LEMMA PipelineStep ==
  ASSUME PipelineTypeOK, AuditNext
  PROVE  PipelineTypeOK'
<1>1. ASSUME NEW r \in Requests, handleRequest(r) PROVE PipelineTypeOK'
  <2>1. /\ posting' = [posting EXCEPT ![r] = Items(r)] /\ Items(r) \in Seq(Events)
        /\ UNCHANGED <<groups, subscriber, producing, hash, mq>>
    BY <1>1, EventsAssumption DEF handleRequest
  <2> QED
    BY <2>1 DEF PipelineTypeOK
<1>2. ASSUME NEW r \in Requests, handleItems(r) PROVE PipelineTypeOK'
  <2>1. /\ posting[r] # None /\ posting[r] # <<>> /\ subscriber' = Append(subscriber, Head(posting[r]))
        /\ posting' = [posting EXCEPT ![r] = Tail(posting[r])]
        /\ UNCHANGED <<groups, producing, hash, mq>>
    BY <1>2 DEF handleItems
  <2>2. posting[r] \in Seq(Events)
    BY <2>1 DEF PipelineTypeOK
  <2>3. Head(posting[r]) \in Events /\ Tail(posting[r]) \in Seq(Events)
    BY <2>1, <2>2
  <2>4. subscriber' \in Seq(Events)
    BY <2>1, <2>3 DEF PipelineTypeOK
  <2> QED
    BY <2>1, <2>3, <2>4 DEF PipelineTypeOK
<1>3. ASSUME NEW w \in Workers, workerLoop(w) PROVE PipelineTypeOK'
  <2>1. PICK p \in PartitionOf(Head(subscriber)) :
          producing' = [producing EXCEPT ![w] = [event |-> Head(subscriber), partition |-> p, left |-> groups]]
    BY <1>3 DEF workerLoop
  <2>2. subscriber # <<>> /\ subscriber' = Tail(subscriber) /\ UNCHANGED <<posting, groups, hash, mq>>
    BY <1>3 DEF workerLoop
  <2>3. Head(subscriber) \in Events /\ Tail(subscriber) \in Seq(Events)
    BY <2>2 DEF PipelineTypeOK
  <2>4. p \in Partitions
    BY <2>3, EventsAssumption DEF PartitionOf, PipelineTypeOK
  <2> QED
    BY <2>1, <2>2, <2>3, <2>4 DEF PipelineTypeOK
<1>4. ASSUME NEW w \in Workers, Send(w) PROVE PipelineTypeOK'
  <2> DEFINE P == producing[w]
  <2>1. PICK g \in P.left :
          /\ mq' = [mq EXCEPT ![g][P.partition] = Append(mq[g][P.partition], P.event)]
          /\ producing' = [producing EXCEPT ![w] = IF P.left = {g} THEN None
               ELSE [event |-> P.event, partition |-> P.partition, left |-> P.left \ {g}]]
    BY <1>4 DEF Send
  <2>2. P # None /\ UNCHANGED <<posting, groups, subscriber, hash>>
    BY <1>4 DEF Send
  <2>3. P \in [event : Events, partition : Partitions, left : SUBSET groups]
    BY <2>2 DEF PipelineTypeOK
  <2>4. [event |-> P.event, partition |-> P.partition, left |-> P.left \ {g}]
          \in [event : Events, partition : Partitions, left : SUBSET groups]
    BY <2>3
  <2>5. producing' \in [Workers -> {None} \cup [event : Events, partition : Partitions, left : SUBSET groups]]
    BY <2>1, <2>4 DEF PipelineTypeOK
  <2>6. g \in groups /\ P.partition \in Partitions /\ P.event \in Events
    BY <2>1, <2>3
  <2>7. mq[g] \in [Partitions -> Seq(Events)] /\ mq[g][P.partition] \in Seq(Events)
    BY <2>6 DEF PipelineTypeOK
  <2>8. Append(mq[g][P.partition], P.event) \in Seq(Events)
    BY <2>6, <2>7
  <2> HIDE DEF P
  <2>9. mq' \in [groups -> [Partitions -> Seq(Events)]]
    BY <2>1, <2>6, <2>7, <2>8 DEF PipelineTypeOK
  <2> QED
    BY <2>2, <2>5, <2>9 DEF PipelineTypeOK
<1>5. ASSUME setConfig PROVE PipelineTypeOK'
  BY <1>5 DEF setConfig, PipelineTypeOK
<1> QED
  BY <1>1, <1>2, <1>3, <1>4, <1>5 DEF AuditNext

\* One worker moves.
LEMMA WorkStep ==
  ASSUME LinksTypeOK, NEW w \in DOMAIN work, NEW x \in {Idle} \cup Busy,
         x.pc \in Linking => x.links # <<>>, work' = [work EXCEPT ![w] = x]
  PROVE  /\ DOMAIN work' = DOMAIN work /\ work' \in [DOMAIN work' -> {Idle} \cup Busy]
         /\ \A v \in DOMAIN work' : work'[v].pc \in Linking => work'[v].links # <<>>
         /\ work'[w] = x /\ \A v \in DOMAIN work : v # w => work'[v] = work[v]
<1>1. work \in [DOMAIN work -> {Idle} \cup Busy]
  BY DEF LinksTypeOK
<1>2. DOMAIN work' = DOMAIN work /\ work' \in [DOMAIN work' -> {Idle} \cup Busy]
  BY <1>1
<1>3. work'[w] = x /\ \A v \in DOMAIN work : v # w => work'[v] = work[v]
  BY <1>1
<1> QED
  BY <1>2, <1>3 DEF LinksTypeOK

LEMMA BusyFacts ==
  ASSUME LinksTypeOK, NEW w \in DOMAIN work, work[w].pc # "idle"
  PROVE  /\ work[w] \in Busy /\ work[w].job \in Jobs /\ work[w].linker \in DOMAIN Linkers
         /\ work[w].links \in Seq(LinkSet)
         /\ Subject(w) \in Objects /\ Window(w) \in Windows /\ Key(w) \in Keys
         /\ Current(w) = Linkers[work[w].linker]
         /\ work[w].pc \in Linking => Link(w) \in LinkSet
         /\ Begin(work[w].job, work[w].linker + 1) \in {Idle} \cup Busy
         /\ Begin(work[w].job, work[w].linker + 1).pc \in {"idle", "lookup"}
<1>1. work[w] \in Busy
  BY IdleIsIdle DEF LinksTypeOK
<1>2. work[w].job \in Jobs /\ work[w].linker \in DOMAIN Linkers /\ work[w].links \in Seq(LinkSet)
  BY <1>1 DEF Busy
<1>3. Subject(w) \in Objects /\ Window(w) \in Windows /\ Key(w) \in Keys
  BY <1>2 DEF Jobs, Subject, Window, Key, Keys
<1>4. work[w].pc \in Linking => Link(w) \in LinkSet
  BY <1>2 DEF LinksTypeOK, Link
<1>5. work[w].linker + 1 \in Nat /\ work[w].linker + 1 > 0
  BY <1>2, LinkersFacts
<1> QED
  BY <1>1, <1>2, <1>3, <1>4, <1>5, BeginFacts DEF Current

\* The linker has its object: it goes on with the links, if there are any.
LEMMA FollowFacts ==
  ASSUME LinksTypeOK, NEW w \in DOMAIN work, work[w].pc # "idle",
         NEW o \in Objects, objectKey(o) = Key(w), Follow(w, o)
  PROVE  \E x \in {Idle} \cup Busy :
           /\ work' = [work EXCEPT ![w] = x]
           /\ x.pc \in {"idle", "lookup", "ensure"} /\ (x.pc = "ensure" => x.links # <<>>)
           /\ \/ /\ x = Begin(work[w].job, work[w].linker + 1)
                 /\ excused' = excused \cup {<<Subject(w), Window(w), Current(w)>>}
              \/ /\ x = Begin(work[w].job, work[w].linker + 1) /\ UNCHANGED excused
                 /\ Lookup(Current(w), Subject(w), o) = {}
              \/ /\ x.job = work[w].job /\ x.linker = work[w].linker /\ x.pc = "ensure"
                 /\ x.links \in SetToSeqs(Lookup(Current(w), Subject(w), o)) /\ UNCHANGED excused
                 /\ ~LookupFails(Current(w), o)
<1> DEFINE b == Begin(work[w].job, work[w].linker + 1)
<1>0. /\ work[w] \in Busy /\ work[w].job \in Jobs /\ work[w].linker \in DOMAIN Linkers
      /\ Subject(w) \in Objects /\ Current(w) = Linkers[work[w].linker]
      /\ b \in {Idle} \cup Busy /\ b.pc \in {"idle", "lookup"}
  BY BusyFacts
<1> HIDE DEF b
<1>1. CASE LookupFails(Current(w), o)
  <2>1. /\ work' = [work EXCEPT ![w] = b]
        /\ excused' = excused \cup {<<Subject(w), Window(w), Current(w)>>}
    BY <1>1 DEF Follow, b
  <2> QED
    BY <1>0, <2>1 DEF b
<1>2. CASE ~LookupFails(Current(w), o)
  <2> DEFINE S == Lookup(Current(w), Subject(w), o)
  <2>1. S \subseteq LinkSet /\ IsFiniteSet(S)
    BY <1>0, <1>2, LookupFacts DEF Key
  <2>2. PICK links \in SetToSeqs(S) :
          work' = [work EXCEPT ![w] = IF links = <<>> THEN b
                     ELSE [job |-> work[w].job, linker |-> work[w].linker, pc |-> "ensure", links |-> links]]
    BY <1>2 DEF Follow, b
  <2>3. UNCHANGED excused
    BY <1>2 DEF Follow
  <2>4. links \in Seq(S) /\ (links = <<>> <=> S = {})
    BY <2>1, <2>2, SeqsOfSet
  <2>5. links \in Seq(LinkSet)
    BY <2>1, <2>4
  <2> HIDE DEF S
  <2>6. CASE links = <<>>
    BY <1>0, <2>2, <2>3, <2>4, <2>6 DEF b, S
  <2>7. CASE links # <<>>
    <3> DEFINE x == [job |-> work[w].job, linker |-> work[w].linker, pc |-> "ensure", links |-> links]
    <3>1. /\ x \in Busy /\ x.job = work[w].job /\ x.linker = work[w].linker /\ x.pc = "ensure" /\ x.links = links
      BY <1>0, <2>5 DEF Busy, Linking
    <3>2. work' = [work EXCEPT ![w] = x]
      BY <2>2, <2>7
    <3> HIDE DEF x
    <3> QED
      BY <1>2, <2>2, <2>3, <2>7, <3>1, <3>2 DEF S
  <2> QED
    BY <2>6, <2>7
<1> QED
  BY <1>1, <1>2

\* An object span is ensured: its job may be published.
LEMMA EnsureTypes ==
  ASSUME LinksTypeOK, NEW o \in Objects, NEW t \in Windows, NEW raw \in BOOLEAN,
         EnsureObjectSpan(o, t, raw)
  PROVE  spans' \subseteq Objects \X Windows /\ jobs' \in Seq(Jobs)
<1>1. spans' \subseteq Objects \X Windows
  BY DEF EnsureObjectSpan, LinksTypeOK
<1>2. [object |-> o, window |-> t, raw |-> raw] \in Jobs
  BY DEF Jobs
<1>3. jobs' = jobs \/ jobs' = Append(jobs, [object |-> o, window |-> t, raw |-> raw])
  BY DEF EnsureObjectSpan, Publish
<1> QED
  BY <1>1, <1>2, <1>3 DEF LinksTypeOK

LEMMA EnsureFailsTypes ==
  ASSUME LinksTypeOK, NEW o \in Objects, NEW t \in Windows, EnsureFails(o, t)
  PROVE  spans' \subseteq Objects \X Windows /\ jobs' \in Seq(Jobs)
  BY DEF EnsureFails, LinksTypeOK

LEMMA CreateTypes ==
  ASSUME LinksTypeOK, NEW of \in Objects, NEW t \in Windows, NEW to \in Objects, NEW d \in Ids
  PROVE  CreateLink(of, t, to, d) \subseteq LinkSpans
<1>1. [of |-> of, window |-> t, to |-> to, dedupId |-> d] \in LinkSpans
  BY DEF LinkSpans
<1> QED
  BY <1>1 DEF CreateLink, LinksTypeOK

\* What a worker has to create has its type.
LEMMA LinkIds ==
  ASSUME LinksTypeOK, NEW w \in DOMAIN work, work[w].pc \in Linking
  PROVE  /\ Link(w).to \in Objects /\ <<Link(w).dedupId>> \in Ids /\ BackwardId(w) \in Ids
<1>1. work[w].pc # "idle"
  BY DEF Linking
<1>2. Link(w) \in LinkSet /\ Subject(w) \in Objects
  BY <1>1, BusyFacts
<1>3. Link(w).to \in Objects /\ Link(w).dedupId \in DedupIds
  BY <1>2 DEF LinkSet
<1> QED
  BY <1>2, <1>3 DEF Ids, BackwardId

\* The entry an object of the cache is stored under is the object's.
LEMMA CacheTypes ==
  ASSUME LinksTypeOK, NEW k \in Keys, NEW c \in Objects \cup {Absent, Pending},
         c \in Objects => objectKey(c) = k, cache' = [cache EXCEPT ![k] = c]
  PROVE  /\ cache' \in [Keys -> Objects \cup {Absent, Pending}]
         /\ \A j \in Keys : cache'[j] \in Objects => objectKey(cache'[j]) = j
         /\ cache'[k] = c /\ \A j \in Keys : j # k => cache'[j] = cache[j]
  BY DEF LinksTypeOK

\* What a step of a worker does to the state it shares with the others: it
\* changes no entry of the cache but the one it fetches, or it reserves one.
WorkerMoves(w, x) ==
  /\ x \in {Idle} \cup Busy /\ (x.pc \in Linking => x.links # <<>>)
  /\ work' = [work EXCEPT ![w] = x] /\ UNCHANGED expired
  /\ \/ x.pc # "fetch" /\ UNCHANGED cache
     \/ /\ x.pc # "fetch" /\ work[w].pc = "fetch"
        /\ \E c \in Objects \cup {Absent} :
             (c \in Objects => objectKey(c) = Key(w)) /\ cache' = [cache EXCEPT ![Key(w)] = c]
     \/ /\ work[w].pc = "lookup" /\ x.job = work[w].job /\ x.pc = "fetch"
        /\ cache[Key(w)] = Absent /\ cache' = [cache EXCEPT ![Key(w)] = Pending]

\* A worker takes a step of the linker it runs.
LEMMA ExecuteTypes ==
  ASSUME LinksTypeOK, NEW w \in DOMAIN work, TakeJob(w) \/ Execute(w)
  PROVE  /\ \E x : WorkerMoves(w, x)
         /\ spans' \subseteq Objects \X Windows /\ jobs' \in Seq(Jobs) /\ linkSpans' \subseteq LinkSpans
<1> DEFINE b == Begin(work[w].job, work[w].linker + 1)
<1>0. ASSUME work[w].pc # "idle" PROVE b \in {Idle} \cup Busy /\ b.pc \in {"idle", "lookup"} /\ b.pc \notin Linking
  <2>1. b \in {Idle} \cup Busy /\ b.pc \in {"idle", "lookup"}
    BY <1>0, BusyFacts
  <2> QED
    BY <2>1 DEF Linking
<1>1. CASE TakeJob(w)
  <2> DEFINE x == Begin(Head(jobs), 1)
  <2>1. /\ work' = [work EXCEPT ![w] = x] /\ jobs # <<>> /\ jobs' = Tail(jobs)
        /\ UNCHANGED <<spans, linkSpans, cache, expired>>
    BY <1>1 DEF TakeJob
  <2>2. Head(jobs) \in Jobs /\ Tail(jobs) \in Seq(Jobs)
    BY <2>1 DEF LinksTypeOK
  <2>3. x \in {Idle} \cup Busy /\ x.pc \in {"idle", "lookup"}
    BY <2>2, BeginFacts
  <2> HIDE DEF x
  <2>4. WorkerMoves(w, x)
    BY <2>1, <2>3 DEF WorkerMoves, Linking
  <2> QED
    BY <2>1, <2>2, <2>4 DEF LinksTypeOK
<1>2. ASSUME work[w].pc # "idle", NEW o \in Objects, objectKey(o) = Key(w), Follow(w, o),
             UNCHANGED expired, UNCHANGED cache
      PROVE  \E x : WorkerMoves(w, x)
  <2>1. PICK x \in {Idle} \cup Busy :
          /\ work' = [work EXCEPT ![w] = x]
          /\ x.pc \in {"idle", "lookup", "ensure"} /\ (x.pc = "ensure" => x.links # <<>>)
    BY <1>2, FollowFacts
  <2>2. x.pc # "fetch" /\ (x.pc \in Linking => x.links # <<>>)
    BY <2>1 DEF Linking
  <2>3. WorkerMoves(w, x)
    BY <1>2, <2>1, <2>2 DEF WorkerMoves
  <2> QED
    BY <2>3
<1>3. CASE LookupRaw(w)
  <2>1. work[w].pc # "idle" /\ Follow(w, Subject(w)) /\ UNCHANGED <<spans, linkSpans, jobs, cache, expired>>
    BY <1>3 DEF LookupRaw, At
  <2>2. Subject(w) \in Objects /\ objectKey(Subject(w)) = Key(w)
    BY <2>1, BusyFacts DEF Key
  <2> QED
    BY <1>2, <2>1, <2>2 DEF LinksTypeOK
<1>4. CASE LookupCached(w)
  <2>1. /\ work[w].pc # "idle" /\ Follow(w, cache[Key(w)]) /\ UNCHANGED <<spans, linkSpans, jobs, cache, expired>>
        /\ cache[Key(w)] \notin {Absent, Pending}
    BY <1>4 DEF LookupCached, At
  <2>2. Key(w) \in Keys
    BY <2>1, BusyFacts
  <2>3. cache[Key(w)] \in Objects /\ objectKey(cache[Key(w)]) = Key(w)
    BY <2>1, <2>2 DEF LinksTypeOK
  <2> QED
    BY <1>2, <2>1, <2>3 DEF LinksTypeOK
<1>5. CASE LookupReserve(w)
  <2> DEFINE x == [work[w] EXCEPT !.pc = "fetch"]
  <2>1. /\ work[w].pc = "lookup" /\ work' = [work EXCEPT ![w] = x] /\ cache[Key(w)] = Absent
        /\ cache' = [cache EXCEPT ![Key(w)] = Pending] /\ UNCHANGED <<spans, linkSpans, jobs, expired>>
    BY <1>5 DEF LookupReserve, Reserve, At
  <2>2. work[w] \in Busy
    BY <2>1, BusyFacts
  <2>3. x \in Busy /\ x.pc = "fetch" /\ x.job = work[w].job
    BY <2>2 DEF Busy
  <2> HIDE DEF x
  <2>4. WorkerMoves(w, x)
    BY <2>1, <2>3 DEF WorkerMoves, Linking
  <2> QED
    BY <2>1, <2>4 DEF LinksTypeOK
<1>6. CASE FetchFound(w)
  <2>1. /\ work[w].pc = "fetch" /\ Follow(w, Subject(w)) /\ UNCHANGED <<spans, linkSpans, jobs, expired>>
    BY <1>6 DEF FetchFound, At
  <2>2. PICK c \in {Subject(w), Absent} : cache' = [cache EXCEPT ![Key(w)] = c]
    BY <1>6 DEF FetchFound
  <2>3. Subject(w) \in Objects /\ objectKey(Subject(w)) = Key(w)
    BY <2>1, BusyFacts DEF Key
  <2>4. PICK x \in {Idle} \cup Busy :
          /\ work' = [work EXCEPT ![w] = x]
          /\ x.pc \in {"idle", "lookup", "ensure"} /\ (x.pc = "ensure" => x.links # <<>>)
    BY <2>1, <2>3, FollowFacts
  <2>5. x.pc # "fetch" /\ (x.pc \in Linking => x.links # <<>>)
    BY <2>4 DEF Linking
  <2>6. c \in Objects \cup {Absent} /\ (c \in Objects => objectKey(c) = Key(w))
    BY <2>2, <2>3, CacheAssumption
  <2>7. WorkerMoves(w, x)
    BY <2>1, <2>2, <2>4, <2>5, <2>6 DEF WorkerMoves
  <2> QED
    BY <2>1, <2>7 DEF LinksTypeOK
<1>7. CASE FetchFails(w)
  <2>1. /\ work[w].pc = "fetch" /\ work' = [work EXCEPT ![w] = b] /\ UNCHANGED <<spans, linkSpans, jobs, expired>>
        /\ cache' = [cache EXCEPT ![Key(w)] = Absent]
    BY <1>7 DEF FetchFails, Fail, At
  <2>2. b \in {Idle} \cup Busy /\ b.pc # "fetch" /\ b.pc \notin Linking
    BY <1>0, <2>1
  <2> HIDE DEF b
  <2>3. WorkerMoves(w, b)
    BY <2>1, <2>2, CacheAssumption DEF WorkerMoves
  <2> QED
    BY <2>1, <2>3 DEF LinksTypeOK
<1>8. CASE EnsureLinked(w)
  <2> DEFINE x == [work[w] EXCEPT !.pc = "forward"]
  <2>1. /\ work[w].pc = "ensure" /\ work' = [work EXCEPT ![w] = x] /\ UNCHANGED <<linkSpans, cache, expired>>
        /\ EnsureObjectSpan(Link(w).to, Window(w), FALSE)
    BY <1>8 DEF EnsureLinked, At
  <2>2. work[w] \in Busy /\ Window(w) \in Windows /\ Link(w).to \in Objects /\ work[w].links # <<>>
    BY <2>1, BusyFacts, LinkIds DEF Linking, LinksTypeOK
  <2>3. x \in Busy /\ x.pc = "forward" /\ x.links # <<>>
    BY <2>2 DEF Busy, Linking
  <2> HIDE DEF x
  <2>4. WorkerMoves(w, x)
    BY <2>1, <2>3 DEF WorkerMoves
  <2>5. spans' \subseteq Objects \X Windows /\ jobs' \in Seq(Jobs)
    BY <2>1, <2>2, EnsureTypes
  <2> QED
    BY <2>1, <2>4, <2>5 DEF LinksTypeOK
<1>9. CASE ForwardLink(w)
  <2> DEFINE x == [work[w] EXCEPT !.pc = "backward"]
  <2>1. /\ work[w].pc = "forward" /\ work' = [work EXCEPT ![w] = x] /\ UNCHANGED <<spans, jobs, cache, expired>>
        /\ linkSpans' = CreateLink(Subject(w), Window(w), Link(w).to, <<Link(w).dedupId>>)
    BY <1>9 DEF ForwardLink, At
  <2>2. /\ work[w] \in Busy /\ Window(w) \in Windows /\ Subject(w) \in Objects
        /\ Link(w).to \in Objects /\ work[w].links # <<>> /\ <<Link(w).dedupId>> \in Ids
    BY <2>1, BusyFacts, LinkIds DEF Linking, LinksTypeOK
  <2>3. x \in Busy /\ x.pc = "backward" /\ x.links # <<>>
    BY <2>2 DEF Busy, Linking
  <2> HIDE DEF x
  <2>4. WorkerMoves(w, x)
    BY <2>1, <2>3 DEF WorkerMoves
  <2>5. linkSpans' \subseteq LinkSpans
    BY <2>1, <2>2, CreateTypes
  <2> QED
    BY <2>1, <2>4, <2>5 DEF LinksTypeOK
<1>10. CASE BackwardLink(w)
  <2> DEFINE y == [job |-> work[w].job, linker |-> work[w].linker, pc |-> "ensure", links |-> Tail(work[w].links)]
  <2> DEFINE x == IF Len(work[w].links) = 1 THEN b ELSE y
  <2>1. /\ work[w].pc = "backward" /\ work' = [work EXCEPT ![w] = x] /\ UNCHANGED <<spans, jobs, cache, expired>>
        /\ linkSpans' = CreateLink(Link(w).to, Window(w), Subject(w), BackwardId(w))
    BY <1>10 DEF BackwardLink, At
  <2>2. /\ work[w] \in Busy /\ Window(w) \in Windows /\ Subject(w) \in Objects
        /\ Link(w).to \in Objects /\ work[w].links # <<>> /\ BackwardId(w) \in Ids
        /\ work[w].job \in Jobs /\ work[w].linker \in DOMAIN Linkers /\ work[w].links \in Seq(LinkSet)
    BY <2>1, BusyFacts, LinkIds DEF Linking, LinksTypeOK
  <2>3. ASSUME Len(work[w].links) # 1 PROVE y \in Busy /\ y.pc = "ensure" /\ y.links # <<>>
    <3>1. Tail(work[w].links) \in Seq(LinkSet) /\ Tail(work[w].links) # <<>>
      BY <2>2, <2>3, TailFacts
    <3> QED
      BY <2>2, <3>1 DEF Busy, Linking
  <2>4. b \in {Idle} \cup Busy /\ b.pc # "fetch" /\ b.pc \notin Linking
    BY <1>0, <2>1
  <2> HIDE DEF b, y
  <2>5. x \in {Idle} \cup Busy /\ x.pc # "fetch" /\ (x.pc \in Linking => x.links # <<>>)
    BY <2>3, <2>4
  <2> HIDE DEF x
  <2>6. WorkerMoves(w, x)
    BY <2>1, <2>5 DEF WorkerMoves
  <2>7. linkSpans' \subseteq LinkSpans
    BY <2>1, <2>2, CreateTypes
  <2> QED
    BY <2>1, <2>6, <2>7 DEF LinksTypeOK
<1>11. CASE LinkError(w)
  <2>1. /\ work[w].pc \in Linking /\ work' = [work EXCEPT ![w] = b] /\ UNCHANGED <<spans, jobs, cache, expired>>
        /\ \/ linkSpans' = linkSpans
           \/ linkSpans' = CreateLink(Subject(w), Window(w), Link(w).to, <<Link(w).dedupId>>)
           \/ linkSpans' = CreateLink(Link(w).to, Window(w), Subject(w), BackwardId(w))
    BY <1>11 DEF LinkError, Fail, At, Linking
  <2>2. work[w].pc # "idle"
    BY <2>1 DEF Linking
  <2>3. /\ Window(w) \in Windows /\ Subject(w) \in Objects
        /\ Link(w).to \in Objects /\ <<Link(w).dedupId>> \in Ids /\ BackwardId(w) \in Ids
    BY <2>1, <2>2, BusyFacts, LinkIds
  <2>4. linkSpans' \subseteq LinkSpans
    BY <2>1, <2>3, CreateTypes DEF LinksTypeOK
  <2>5. b \in {Idle} \cup Busy /\ b.pc # "fetch" /\ b.pc \notin Linking
    BY <1>0, <2>2
  <2> HIDE DEF b
  <2>6. WorkerMoves(w, b)
    BY <2>1, <2>5 DEF WorkerMoves
  <2> QED
    BY <2>1, <2>4, <2>6 DEF LinksTypeOK
<1>12. CASE EnsureError(w)
  <2>1. /\ work[w].pc = "ensure" /\ work' = [work EXCEPT ![w] = b] /\ UNCHANGED <<linkSpans, cache, expired>>
        /\ EnsureFails(Link(w).to, Window(w))
    BY <1>12 DEF EnsureError, Fail, At
  <2>2. work[w].pc # "idle" /\ Window(w) \in Windows /\ Link(w).to \in Objects
    BY <2>1, BusyFacts, LinkIds DEF Linking
  <2>3. spans' \subseteq Objects \X Windows /\ jobs' \in Seq(Jobs)
    BY <2>1, <2>2, EnsureFailsTypes
  <2>4. b \in {Idle} \cup Busy /\ b.pc # "fetch" /\ b.pc \notin Linking
    BY <1>0, <2>2
  <2> HIDE DEF b
  <2>5. WorkerMoves(w, b)
    BY <2>1, <2>4 DEF WorkerMoves
  <2> QED
    BY <2>1, <2>3, <2>5 DEF LinksTypeOK
<1> QED
  BY <1>1, <1>3, <1>4, <1>5, <1>6, <1>7, <1>8, <1>9, <1>10, <1>11, <1>12 DEF Execute

LEMMA LinksTypes ==
  ASSUME LinksTypeOK, LinkNext
  PROVE  LinksTypeOK'
<1>1. ASSUME NEW w \in DOMAIN work, TakeJob(w) \/ Execute(w) PROVE LinksTypeOK'
  <2>1. PICK x : WorkerMoves(w, x)
    BY <1>1, ExecuteTypes
  <2>2. spans' \subseteq Objects \X Windows /\ jobs' \in Seq(Jobs) /\ linkSpans' \subseteq LinkSpans
    BY <1>1, ExecuteTypes
  <2>3. /\ x \in {Idle} \cup Busy /\ (x.pc \in Linking => x.links # <<>>)
        /\ work' = [work EXCEPT ![w] = x] /\ UNCHANGED expired
    BY <2>1 DEF WorkerMoves
  <2>4. /\ work' \in [DOMAIN work' -> {Idle} \cup Busy]
        /\ \A v \in DOMAIN work' : work'[v].pc \in Linking => work'[v].links # <<>>
    BY <2>3, WorkStep
  <2>5. /\ cache' \in [Keys -> Objects \cup {Absent, Pending}]
        /\ \A j \in Keys : cache'[j] \in Objects => objectKey(cache'[j]) = j
    <3>1. CASE UNCHANGED cache
      BY <3>1 DEF LinksTypeOK
    <3>2. CASE ~UNCHANGED cache
      <4>1. work[w].pc # "idle"
        BY <2>1, <3>2 DEF WorkerMoves
      <4>2. Key(w) \in Keys
        BY <4>1, BusyFacts
      <4>3. PICK c \in Objects \cup {Absent, Pending} :
              (c \in Objects => objectKey(c) = Key(w)) /\ cache' = [cache EXCEPT ![Key(w)] = c]
        BY <2>1, <3>2, CacheAssumption DEF WorkerMoves
      <4> QED
        BY <4>2, <4>3, CacheTypes
    <3> QED
      BY <3>1, <3>2
  <2> QED
    BY <2>2, <2>3, <2>4, <2>5 DEF LinksTypeOK
<1>2. ASSUME NEW k \in DOMAIN cache, Expire(k) PROVE LinksTypeOK'
  <2>1. /\ k \in Keys /\ cache' = [cache EXCEPT ![k] = Absent] /\ expired' = Append(expired, k)
        /\ UNCHANGED <<spans, linkSpans, jobs, work>>
    BY <1>2 DEF Expire, LinksTypeOK
  <2>2. /\ cache' \in [Keys -> Objects \cup {Absent, Pending}]
        /\ \A j \in Keys : cache'[j] \in Objects => objectKey(cache'[j]) = j
    BY <2>1, CacheTypes, CacheAssumption
  <2>3. expired' \in Seq(Keys)
    BY <2>1 DEF LinksTypeOK
  <2> QED
    BY <2>1, <2>2, <2>3 DEF LinksTypeOK
<1> QED
  BY <1>1, <1>2 DEF LinkNext

-----------------------------------------------------------------------------
(* One fetch at a time *)

\* What a worker holds while it fetches survives the steps of the others.
LEMMA FetchMoves ==
  ASSUME LinksTypeOK, FetchIsReserved, OneFetch, NEW w \in DOMAIN work, NEW x, WorkerMoves(w, x)
  PROVE  FetchIsReserved' /\ OneFetch'
<1>1. /\ x \in {Idle} \cup Busy /\ (x.pc \in Linking => x.links # <<>>)
      /\ work' = [work EXCEPT ![w] = x] /\ UNCHANGED expired
  BY DEF WorkerMoves
<1>2. /\ DOMAIN work' = DOMAIN work
      /\ work'[w] = x /\ \A v \in DOMAIN work : v # w => work'[v] = work[v]
  BY <1>1, WorkStep
<1>3. ExpiredKeys' = ExpiredKeys
  BY <1>1 DEF ExpiredKeys
<1>4. cache \in [Keys -> Objects \cup {Absent, Pending}]
  BY DEF LinksTypeOK
\* A worker that fetches and is not moved keeps its reservation.
<1>5. ASSUME NEW v \in DOMAIN work, v # w, At(v, "fetch"), Key(v) \notin ExpiredKeys
      PROVE  Key(v) \in Keys /\ cache[Key(v)] = Pending /\ cache'[Key(v)] = Pending
  <2>1. Key(v) \in Keys /\ cache[Key(v)] = Pending
    BY <1>5, BusyFacts DEF FetchIsReserved, At
  <2>2. CASE UNCHANGED cache
    BY <2>1, <2>2
  <2>3. CASE work[w].pc = "fetch" /\ \E c : cache' = [cache EXCEPT ![Key(w)] = c]
    <3>1. Key(v) # Key(w)
      BY <1>5, <2>3 DEF OneFetch, ExpiredKeys, At
    <3> QED
      BY <1>4, <2>1, <2>3, <3>1
  <2>4. CASE cache[Key(w)] = Absent /\ cache' = [cache EXCEPT ![Key(w)] = Pending]
    BY <1>4, <2>1, <2>4
  <2> QED
    BY <2>2, <2>3, <2>4 DEF WorkerMoves
\* A worker that starts to fetch finds no entry for its key, so nobody else fetches.
<1>6. ASSUME x.pc = "fetch"
      PROVE  /\ x.job = work[w].job /\ Key(w) \in Keys /\ cache[Key(w)] = Absent /\ cache'[Key(w)] = Pending
  <2>1. /\ work[w].pc = "lookup" /\ x.job = work[w].job
        /\ cache[Key(w)] = Absent /\ cache' = [cache EXCEPT ![Key(w)] = Pending]
    BY <1>6 DEF WorkerMoves
  <2>2. Key(w) \in Keys
    BY <2>1, BusyFacts
  <2> QED
    BY <1>4, <2>1, <2>2
<1>7. \A v \in DOMAIN work : v # w => (At(v, "fetch")' <=> At(v, "fetch")) /\ Key(v)' = Key(v)
  BY <1>2 DEF At, Key, Subject
<1>8. At(w, "fetch")' <=> x.pc = "fetch"
  BY <1>2 DEF At
<1>9. x.pc = "fetch" => Key(w)' = Key(w)
  BY <1>2, <1>6 DEF Key, Subject
<1>10. FetchIsReserved'
  <2> SUFFICES ASSUME NEW v \in DOMAIN work', At(v, "fetch")', Key(v)' \notin ExpiredKeys'
               PROVE  cache'[Key(v)'] = Pending
    BY DEF FetchIsReserved
  <2>1. CASE v = w
    BY <1>6, <1>8, <1>9, <2>1
  <2>2. CASE v # w
    BY <1>2, <1>3, <1>5, <1>7, <2>2
  <2> QED
    BY <2>1, <2>2
<1>11. ASSUME NEW v \in DOMAIN work, v # w, At(v, "fetch"), x.pc = "fetch", Key(v) = Key(w)
       PROVE  Key(v) \in ExpiredKeys
  BY <1>5, <1>6, <1>11, CacheAssumption
<1>12. ASSUME NEW u \in DOMAIN work', NEW v \in DOMAIN work', u # v, At(u, "fetch")', At(v, "fetch")', Key(u)' = Key(v)'
       PROVE  Key(u)' \in ExpiredKeys'
  <2>1. CASE u = w
    BY <1>2, <1>3, <1>7, <1>8, <1>9, <1>11, <1>12, <2>1
  <2>2. CASE v = w
    BY <1>2, <1>3, <1>7, <1>8, <1>9, <1>11, <1>12, <2>2
  <2>3. CASE u # w /\ v # w
    BY <1>2, <1>3, <1>7, <1>12, <2>3 DEF OneFetch, ExpiredKeys
  <2> QED
    BY <2>1, <2>2, <2>3
<1>13. OneFetch'
  BY <1>12 DEF OneFetch, ExpiredKeys
<1> QED
  BY <1>10, <1>13

\* The step of an expiry: the key it frees is excused from then on.
LEMMA FetchExpires ==
  ASSUME LinksTypeOK, FetchIsReserved, OneFetch, NEW k \in DOMAIN cache, Expire(k)
  PROVE  FetchIsReserved' /\ OneFetch'
<1>1. /\ cache' = [cache EXCEPT ![k] = Absent] /\ expired' = Append(expired, k) /\ work' = work
  BY DEF Expire
<1>2. cache \in [Keys -> Objects \cup {Absent, Pending}] /\ expired \in Seq(Keys) /\ k \in Keys
  BY DEF LinksTypeOK
<1>3. ExpiredKeys' = ExpiredKeys \cup {k}
  <2>1. /\ DOMAIN expired = 1..Len(expired) /\ DOMAIN expired' = 1..(Len(expired) + 1)
        /\ \A i \in 1..Len(expired) : expired'[i] = expired[i]
        /\ expired'[Len(expired) + 1] = k /\ Len(expired) \in Nat
    BY <1>1, <1>2
  <2> QED
    BY <2>1 DEF ExpiredKeys
<1>4. \A v \in DOMAIN work : (At(v, "fetch")' <=> At(v, "fetch")) /\ Key(v)' = Key(v)
  BY <1>1 DEF At, Key, Subject
<1>5. FetchIsReserved'
  <2> SUFFICES ASSUME NEW v \in DOMAIN work, At(v, "fetch"), Key(v) \notin ExpiredKeys'
               PROVE  cache'[Key(v)] = Pending
    BY <1>1, <1>4 DEF FetchIsReserved
  <2>1. Key(v) \in Keys /\ Key(v) # k /\ cache[Key(v)] = Pending
    BY <1>3, BusyFacts DEF FetchIsReserved, At
  <2> QED
    BY <1>1, <1>2, <2>1
<1>6. \A u, v \in DOMAIN work : u # v /\ At(u, "fetch") /\ At(v, "fetch") /\ Key(u) = Key(v) => Key(u) \in ExpiredKeys'
  BY <1>3 DEF OneFetch, ExpiredKeys
<1>7. OneFetch'
  BY <1>1, <1>4, <1>6 DEF OneFetch, ExpiredKeys
<1> QED
  BY <1>5, <1>7

\* The audit consumer ensures the span of an object of some event, or fails to.
LEMMA MessageFacts ==
  ASSUME PipelineTypeOK, LinksTypeOK, NEW p \in Partitions, handleMessage(p)
  PROVE  /\ PipelineTypeOK' /\ UNCHANGED <<linkSpans, work, cache, expired, excused>>
         /\ \/ UNCHANGED <<spans, untriggered, jobs>>
            \/ \E o \in Objects, t \in Windows, raw \in BOOLEAN : EnsureObjectSpan(o, t, raw)
            \/ \E o \in Objects, t \in Windows : EnsureFails(o, t)
<1> DEFINE e == Head(mq["audit"][p])
<1>1. "audit" \in groups /\ Receive("audit", p) /\ UNCHANGED <<linkSpans, work, cache, expired, excused>>
  BY DEF handleMessage
<1>2. e \in Events /\ PipelineTypeOK'
  BY <1>1, ReceiveFacts
<1>3. \/ UNCHANGED <<spans, untriggered, jobs>>
      \/ Accepts(e) /\ EnsureObjectSpan(ObjectOf(e), e.window, e.response # None)
      \/ Accepts(e) /\ EnsureFails(ObjectOf(e), e.window)
  BY DEF handleMessage
<1> HIDE DEF e
<1>4. ASSUME Accepts(e) PROVE ObjectOf(e) \in Objects /\ e.window \in Windows
  BY <1>2, <1>4, ObjectsAssumption DEF Accepts, Windows
<1>5. (e.response # None) \in BOOLEAN
  OBVIOUS
<1> QED
  BY <1>1, <1>2, <1>3, <1>4, <1>5

LEMMA FetchInit ==
  ASSUME Init
  PROVE  FetchInv
<1>1. PICK d \in Deployments : AuditInit(d.groups, d.maxConfigs) /\ LinkInit(d.linkWorkers)
  BY DEF Init
<1>2. PipelineTypeOK
  BY <1>1 DEF AuditInit, PipelineTypeOK
<1>3. /\ spans = {} /\ linkSpans = {} /\ jobs = <<>> /\ work = [w \in d.linkWorkers |-> Idle]
      /\ cache = [k \in Keys |-> Absent] /\ expired = <<>>
  BY <1>1 DEF LinkInit, Keys
<1>4. \A w \in DOMAIN work : work[w] = Idle /\ work[w].pc = "idle"
  BY <1>3, IdleIsIdle
<1>5. LinksTypeOK
  <2>1. work \in [DOMAIN work -> {Idle} \cup Busy]
    BY <1>3
  <2>2. \A k \in Keys : cache[k] = Absent
    BY <1>3
  <2> QED
    BY <1>3, <1>4, <2>1, <2>2, CacheAssumption DEF LinksTypeOK, Linking
<1>6. FetchIsReserved /\ OneFetch
  BY <1>4 DEF FetchIsReserved, OneFetch, At
<1> QED
  BY <1>2, <1>5, <1>6 DEF FetchInv

\* What only the pipeline and the metrics change leaves the links alone.
LEMMA LinksUnchanged ==
  ASSUME LinksTypeOK, FetchIsReserved, OneFetch, UNCHANGED <<linkSpans, work, cache, expired>>,
         spans' \subseteq Objects \X Windows /\ jobs' \in Seq(Jobs)
  PROVE  LinksTypeOK' /\ FetchIsReserved' /\ OneFetch'
<1>1. LinksTypeOK'
  BY DEF LinksTypeOK
<1>2. ExpiredKeys' = ExpiredKeys
  BY DEF ExpiredKeys
<1>3. \A v \in DOMAIN work : (At(v, "fetch")' <=> At(v, "fetch")) /\ Key(v)' = Key(v)
  BY DEF At, Key, Subject
<1>4. FetchIsReserved'
  BY <1>2, <1>3 DEF FetchIsReserved
<1>5. OneFetch'
  BY <1>3 DEF OneFetch
<1> QED
  BY <1>1, <1>4, <1>5

LEMMA FetchStep ==
  ASSUME FetchInv, [Next]_vars
  PROVE  FetchInv'
<1> USE DEF FetchInv
<1>1. ASSUME UNCHANGED linkVars PROVE LinksTypeOK' /\ FetchIsReserved' /\ OneFetch'
  <2>1. UNCHANGED <<spans, linkSpans, jobs, work, cache, expired>>
    BY <1>1 DEF linkVars
  <2>2. spans' \subseteq Objects \X Windows /\ jobs' \in Seq(Jobs)
    BY <2>1 DEF LinksTypeOK
  <2> QED
    BY <2>1, <2>2, LinksUnchanged
<1>2. ASSUME UNCHANGED auditVars PROVE PipelineTypeOK'
  BY <1>2 DEF auditVars, PipelineTypeOK
<1>3. CASE AuditNext /\ UNCHANGED <<kelemetrixVars, linkVars>>
  BY <1>1, <1>3, PipelineStep
<1>4. CASE "kelemetrix" \in groups /\ PrepareTagsQuantifiers /\ UNCHANGED <<auditVars, linkVars>>
  BY <1>1, <1>2, <1>4
<1>5. ASSUME NEW p \in Partitions, handleMessage(p) PROVE FetchInv'
  <2>1. /\ PipelineTypeOK' /\ UNCHANGED <<linkSpans, work, cache, expired>>
        /\ \/ UNCHANGED <<spans, jobs>>
           \/ \E o \in Objects, t \in Windows, raw \in BOOLEAN : EnsureObjectSpan(o, t, raw)
           \/ \E o \in Objects, t \in Windows : EnsureFails(o, t)
    BY <1>5, MessageFacts
  <2>2. spans' \subseteq Objects \X Windows /\ jobs' \in Seq(Jobs)
    BY <2>1, EnsureTypes, EnsureFailsTypes DEF LinksTypeOK
  <2> QED
    BY <2>1, <2>2, LinksUnchanged
<1>6. ASSUME NEW p \in Partitions, handleMetrics(p) PROVE FetchInv'
  BY <1>1, <1>6, ReceiveFacts DEF handleMetrics
<1>7. CASE LinkNext /\ UNCHANGED <<auditVars, kelemetrixVars>>
  <2>1. LinksTypeOK' /\ PipelineTypeOK'
    BY <1>2, <1>7, LinksTypes
  <2>2. ASSUME NEW w \in DOMAIN work, TakeJob(w) \/ Execute(w) PROVE FetchIsReserved' /\ OneFetch'
    BY <2>2, ExecuteTypes, FetchMoves
  <2>3. ASSUME NEW k \in DOMAIN cache, Expire(k) PROVE FetchIsReserved' /\ OneFetch'
    BY <2>3, FetchExpires
  <2> QED
    BY <1>7, <2>1, <2>2, <2>3 DEF LinkNext
<1>8. CASE UNCHANGED vars
  BY <1>1, <1>2, <1>8 DEF vars
<1> QED
  BY <1>3, <1>4, <1>5, <1>6, <1>7, <1>8 DEF Next

\* The invariant of the object cache and the link workers, in every behaviour:
\* types, the reservation a fetching worker holds, and OneFetch.
THEOREM FetchInvariant == Spec => []FetchInv
  BY FetchInit, FetchStep, PTL DEF Spec

\* ObjectCache.Get: two workers fetch the same object at once only after an
\* entry of its key has expired, for every number of link workers and objects,
\* whatever fails and however GetOrSet, the fetch and the deferred Del of the
\* workers interleave.
THEOREM FetchesAreExclusive == Spec => []OneFetch
<1>1. FetchInv => OneFetch
  BY DEF FetchInv
<1> QED
  BY <1>1, FetchInvariant, PTL

-----------------------------------------------------------------------------
(* Links are complete *)

\* One cluster: the key of the object cache tells the objects apart.
DistinctKeys == \A o, p \in Objects : objectKey(o) = objectKey(p) => o = p

\* An object has one controller, as the API server sees to: the owner links of
\* an object share a deduplication id.
OneController == \A o \in Objects : \A l, m \in LookupOwner(o, o) : l = m

\* The links that the i-th linker finds for an object.
LinksOf(i, o) == IF LookupFails(Linkers[i], o) THEN {} ELSE Lookup(Linkers[i], o, o)

ForwardSpan(o, t, l) == [of |-> o, window |-> t, to |-> l.to, dedupId |-> <<l.dedupId>>]
BackwardSpan(o, t, l) == [of |-> l.to, window |-> t, to |-> o, dedupId |-> <<l.dedupId, o>>]

\* A link span stands for a link that a linker finds, at one of its ends: a span
\* that CreateLink finds in the place of a new one is the same span.
SoundSpan(s) ==
  /\ \A d \in DedupIds : s.dedupId = <<d>> =>
       \E i \in DOMAIN Linkers : [to |-> s.to, dedupId |-> d] \in LinksOf(i, s.of)
  /\ \A d \in DedupIds, o \in Objects : s.dedupId = <<d, o>> => s.to = o

\* A worker creates the links its linker finds, the forward end first.
SoundWorker(x) ==
  x.pc \in Linking =>
    /\ x.links \in Seq(LinksOf(x.linker, x.job.object))
    /\ x.pc = "backward" => ForwardSpan(x.job.object, x.job.window, Head(x.links)) \in linkSpans

LinksSound ==
  /\ \A s \in linkSpans : SoundSpan(s)
  /\ \A w \in DOMAIN work : SoundWorker(work[w])

\* The inductive invariant for LinksComplete.
CompleteInv == FetchInv /\ LinksSound /\ LinksComplete

\* A linker finds at most one link, whose deduplication id tells the linker.
LEMMA LinksOfFacts ==
  ASSUME OneController, NEW i \in DOMAIN Linkers, NEW o \in Objects
  PROVE  /\ LinksOf(i, o) \subseteq LinkSet /\ \A l, m \in LinksOf(i, o) : l = m
         /\ \A l \in LinksOf(i, o) : l.dedupId = IF i = 1 THEN "ownerReference" ELSE "annotation"
<1>1. CASE LookupFails(Linkers[i], o)
  BY <1>1 DEF LinksOf
<1>2. CASE ~LookupFails(Linkers[i], o)
  <2>1. LinksOf(i, o) = Lookup(Linkers[i], o, o)
    BY <1>2 DEF LinksOf
  <2>2. /\ Lookup(Linkers[i], o, o) \subseteq LinkSet
        /\ \A l \in Lookup(Linkers[i], o, o) : l.dedupId = IF i = 1 THEN "ownerReference" ELSE "annotation"
    BY <1>2, LookupFacts
  <2>3. CASE i = 1
    <3>1. Lookup(Linkers[i], o, o) = LookupOwner(o, o)
      BY <2>3, LinkersFacts DEF Lookup
    <3>2. \A l, m \in LookupOwner(o, o) : l = m
      BY DEF OneController
    <3> QED
      BY <2>1, <2>2, <3>1, <3>2
  <2>4. CASE i = 2
    <3>1. Lookup(Linkers[i], o, o) = LookupAnnotation(o)
      BY <2>4, LinkersFacts DEF Lookup
    <3>2. \A l, m \in LookupAnnotation(o) : l = m
      BY DEF LookupAnnotation
    <3> QED
      BY <2>1, <2>2, <3>1, <3>2
  <2> QED
    BY <2>3, <2>4, LinkersFacts
<1> QED
  BY <1>1, <1>2

\* ForwardLink: the span is there afterwards, whether it was created or found.
LEMMA ForwardCreates ==
  ASSUME OneController, LinksTypeOK, \A s \in linkSpans : SoundSpan(s),
         NEW o \in Objects, NEW t \in Windows, NEW i \in DOMAIN Linkers, NEW l \in LinksOf(i, o)
  PROVE  LET L == CreateLink(o, t, l.to, <<l.dedupId>>)
         IN linkSpans \subseteq L /\ ForwardSpan(o, t, l) \in L /\ \A s \in L : SoundSpan(s)
<1> DEFINE f == ForwardSpan(o, t, l)
           L == CreateLink(o, t, l.to, <<l.dedupId>>)
<1>1. l \in LinkSet /\ l.to \in Objects /\ l.dedupId \in DedupIds /\ l = [to |-> l.to, dedupId |-> l.dedupId]
  <2>1. l \in LinkSet
    BY LinksOfFacts
  <2> QED
    BY <2>1 DEF LinkSet
<1>2. f.of = o /\ f.window = t /\ f.to = l.to /\ f.dedupId = <<l.dedupId>>
  BY DEF ForwardSpan
<1>3. CASE \E s \in linkSpans : s.of = o /\ s.window = t /\ s.dedupId = <<l.dedupId>>
  <2>1. PICK s \in linkSpans : s.of = o /\ s.window = t /\ s.dedupId = <<l.dedupId>>
    BY <1>3
  <2>2. PICK j \in DOMAIN Linkers : [to |-> s.to, dedupId |-> l.dedupId] \in LinksOf(j, o)
    BY <1>1, <2>1 DEF SoundSpan
  <2> DEFINE m == [to |-> s.to, dedupId |-> l.dedupId]
  <2>3. m.dedupId = l.dedupId /\ m.to = s.to
    OBVIOUS
  <2> HIDE DEF m
  <2>4. m \in LinksOf(j, o)
    BY <2>2 DEF m
  <2>5. j = i
    BY <2>3, <2>4, LinksOfFacts, LinkersFacts
  <2>6. s.to = l.to
    BY <2>3, <2>4, <2>5, LinksOfFacts
  <2>7. s = [of |-> s.of, window |-> s.window, to |-> s.to, dedupId |-> s.dedupId]
    BY DEF LinksTypeOK, LinkSpans
  <2>8. s = f
    BY <2>1, <2>6, <2>7 DEF ForwardSpan
  <2>9. L = linkSpans
    BY <1>3 DEF CreateLink
  <2> QED
    BY <2>8, <2>9
<1>4. CASE ~\E s \in linkSpans : s.of = o /\ s.window = t /\ s.dedupId = <<l.dedupId>>
  <2>1. L = linkSpans \cup {f}
    BY <1>4 DEF CreateLink, ForwardSpan
  <2>2. \A d \in DedupIds : f.dedupId = <<d>> => d = l.dedupId
    BY <1>2
  <2>3. \A d \in DedupIds, p \in Objects : f.dedupId # <<d, p>>
    BY <1>2
  <2>4. SoundSpan(f)
    <3>1. ASSUME NEW d \in DedupIds, f.dedupId = <<d>> PROVE [to |-> f.to, dedupId |-> d] \in LinksOf(i, f.of)
      BY <1>1, <1>2, <2>2, <3>1
    <3> HIDE DEF f
    <3> QED
      BY <2>3, <3>1 DEF SoundSpan
  <2> QED
    BY <2>1, <2>4
<1> QED
  BY <1>3, <1>4

\* BackwardLink: so is the other end of the link.
LEMMA BackwardCreates ==
  ASSUME LinksTypeOK, \A s \in linkSpans : SoundSpan(s),
         NEW o \in Objects, NEW t \in Windows, NEW l \in LinkSet
  PROVE  LET L == CreateLink(l.to, t, o, <<l.dedupId, o>>)
         IN linkSpans \subseteq L /\ BackwardSpan(o, t, l) \in L /\ \A s \in L : SoundSpan(s)
<1> DEFINE f == BackwardSpan(o, t, l)
           L == CreateLink(l.to, t, o, <<l.dedupId, o>>)
<1>1. l.to \in Objects /\ l.dedupId \in DedupIds
  BY DEF LinkSet
<1>2. f.of = l.to /\ f.window = t /\ f.to = o /\ f.dedupId = <<l.dedupId, o>>
  BY DEF BackwardSpan
<1>3. CASE \E s \in linkSpans : s.of = l.to /\ s.window = t /\ s.dedupId = <<l.dedupId, o>>
  <2>1. PICK s \in linkSpans : s.of = l.to /\ s.window = t /\ s.dedupId = <<l.dedupId, o>>
    BY <1>3
  <2>2. s.to = o
    BY <1>1, <2>1 DEF SoundSpan
  <2>3. s = [of |-> s.of, window |-> s.window, to |-> s.to, dedupId |-> s.dedupId]
    BY DEF LinksTypeOK, LinkSpans
  <2>4. s = f
    BY <2>1, <2>2, <2>3 DEF BackwardSpan
  <2>5. L = linkSpans
    BY <1>3 DEF CreateLink
  <2> QED
    BY <2>4, <2>5
<1>4. CASE ~\E s \in linkSpans : s.of = l.to /\ s.window = t /\ s.dedupId = <<l.dedupId, o>>
  <2>1. L = linkSpans \cup {f}
    BY <1>4 DEF CreateLink, BackwardSpan
  <2>2. \A d \in DedupIds : f.dedupId # <<d>>
    BY <1>2
  <2>3. \A d \in DedupIds, p \in Objects : f.dedupId = <<d, p>> => f.to = p
    BY <1>2
  <2>4. SoundSpan(f)
    <3> HIDE DEF f
    <3> QED
      BY <2>2, <2>3 DEF SoundSpan
  <2> QED
    BY <2>1, <2>4
<1> QED
  BY <1>3, <1>4

\* No job is dropped, and a new span has one unless the call that stored it failed.
JobsKept == \A k \in DOMAIN jobs : \E m \in DOMAIN jobs' : jobs'[m] = jobs[k]
NewSpansQueued ==
  /\ untriggered \subseteq untriggered'
  /\ \A s \in spans' : \/ s \in spans \cup untriggered'
                      \/ \E m \in DOMAIN jobs' : jobs'[m].object = s[1] /\ jobs'[m].window = s[2]

LEMMA EnsureQueues ==
  ASSUME LinksTypeOK, work # <<>>, NEW o \in Objects, NEW t \in Windows, NEW raw \in BOOLEAN,
         EnsureObjectSpan(o, t, raw)
  PROVE  JobsKept /\ NewSpansQueued
<1>1. CASE <<o, t>> \in spans
  <2>1. spans' = spans /\ jobs' = jobs /\ untriggered' = untriggered
    BY <1>1 DEF EnsureObjectSpan
  <2> QED
    BY <2>1 DEF JobsKept, NewSpansQueued
<1>2. CASE <<o, t>> \notin spans
  <2> DEFINE job == [object |-> o, window |-> t, raw |-> raw]
             n == Len(jobs)
  <2>1. spans' = spans \cup {<<o, t>>} /\ jobs' = Append(jobs, job) /\ untriggered' = untriggered
    BY <1>2 DEF EnsureObjectSpan, Publish
  <2>2. job.object = o /\ job.window = t
    OBVIOUS
  <2> HIDE DEF job
  <2>3. jobs \in Seq(Jobs)
    BY DEF LinksTypeOK
  <2>4. /\ DOMAIN jobs = 1..n /\ DOMAIN jobs' = 1..(n + 1) /\ n \in Nat
        /\ \A k \in 1..n : jobs'[k] = jobs[k]
        /\ jobs'[n + 1] = job
    BY <2>1, <2>3
  <2> HIDE DEF n
  <2>5. n + 1 \in DOMAIN jobs' /\ jobs'[n + 1].object = o /\ jobs'[n + 1].window = t
    BY <2>2, <2>4
  <2>6. \A k \in DOMAIN jobs : k \in DOMAIN jobs' /\ jobs'[k] = jobs[k]
    BY <2>4
  <2>7. \A s \in spans' : s \in spans \/ (s[1] = o /\ s[2] = t)
    BY <2>1
  <2> QED
    BY <2>1, <2>5, <2>6, <2>7 DEF JobsKept, NewSpansQueued
<1> QED
  BY <1>1, <1>2

LEMMA EnsureFailsQueues ==
  ASSUME NEW o, NEW t, EnsureFails(o, t)
  PROVE  JobsKept /\ NewSpansQueued
  BY DEF EnsureFails, JobsKept, NewSpansQueued

\* Nothing that is linked or excused is forgotten.
LEMMA StaysLinked ==
  ASSUME linkSpans \subseteq linkSpans', NEW o, NEW t, NEW linker, Linked(o, t, linker)
  PROVE  Linked(o, t, linker)'
  BY DEF Linked

\* A span keeps its cover while the jobs and the workers that cover it last.
LEMMA CoverStays ==
  ASSUME LinksComplete, work # <<>>, linkSpans \subseteq linkSpans', excused \subseteq excused',
         NewSpansQueued,
         NEW s \in spans' \ untriggered', NEW i \in DOMAIN Linkers,
         Unfinished(s[1], s[2], i) =>
           \/ Unfinished(s[1], s[2], i)'
           \/ <<s[1], s[2], Linkers[i]>> \in excused'
           \/ Linked(s[1], s[2], Linkers[i])'
  PROVE  Attended(s, i)'
<1>1. CASE s \in spans
  <2>0. s \in spans \ untriggered
    BY <1>1 DEF NewSpansQueued
  <2>1. \/ <<s[1], s[2], Linkers[i]>> \in excused
        \/ Unfinished(s[1], s[2], i)
        \/ Linked(s[1], s[2], Linkers[i])
    BY <2>0 DEF LinksComplete, Attended
  <2>2. Linked(s[1], s[2], Linkers[i]) => Linked(s[1], s[2], Linkers[i])'
    BY StaysLinked
  <2> QED
    BY <2>1, <2>2 DEF Attended
<1>2. CASE s \notin spans
  BY <1>2 DEF NewSpansQueued, Unfinished, Attended
<1> QED
  BY <1>1, <1>2

\* A worker that works: it stays with its linker, or leaves it excused or linked.
LEMMA CompleteMoves ==
  ASSUME LinksTypeOK, LinksComplete, NEW w \in DOMAIN work, work[w].pc # "idle",
         NEW x, work' = [work EXCEPT ![w] = x],
         linkSpans \subseteq linkSpans', excused \subseteq excused', JobsKept, NewSpansQueued,
         NEW o, NEW t, NEW j, o = Subject(w), t = Window(w), j = work[w].linker,
         \/ x.pc # "idle" /\ x.job = work[w].job /\ x.linker = j
         \/ /\ x = Begin(work[w].job, j + 1)
            /\ <<o, t, Linkers[j]>> \in excused' \/ Linked(o, t, Linkers[j])'
  PROVE  LinksComplete'
<1>1. work \in [DOMAIN work -> {Idle} \cup Busy] /\ work # <<>>
  BY DEF LinksTypeOK
<1>2. /\ DOMAIN work' = DOMAIN work
      /\ work'[w] = x /\ \A v \in DOMAIN work : v # w => work'[v] = work[v]
  BY <1>1
<1>3. work[w].job \in Jobs /\ j \in DOMAIN Linkers
  BY BusyFacts
<1>4. j + 1 \in DOMAIN Linkers /\ x = Begin(work[w].job, j + 1) =>
        x.pc = "lookup" /\ x.job = work[w].job /\ x.linker = j + 1
  BY <1>3, BeginFacts, LinkersFacts
<1>5. work[w].job.object = o /\ work[w].job.window = t
  BY DEF Subject, Window
<1>6. ASSUME NEW s \in spans', NEW i \in DOMAIN Linkers, Unfinished(s[1], s[2], i)
      PROVE  \/ Unfinished(s[1], s[2], i)'
             \/ <<s[1], s[2], Linkers[i]>> \in excused'
             \/ Linked(s[1], s[2], Linkers[i])'
  <2>1. CASE \E k \in DOMAIN jobs : jobs[k].object = s[1] /\ jobs[k].window = s[2]
    <3>1. \E m \in DOMAIN jobs' : jobs'[m].object = s[1] /\ jobs'[m].window = s[2]
      BY <2>1 DEF JobsKept
    <3> QED
      BY <3>1 DEF Unfinished
  <2>2. ASSUME NEW v \in DOMAIN work, work[v].pc # "idle", work[v].job.object = s[1], work[v].job.window = s[2],
               work[v].linker <= i, v # w
        PROVE  Unfinished(s[1], s[2], i)'
    BY <1>2, <2>2 DEF Unfinished, At, Subject, Window
  <2>3. ASSUME o = s[1], t = s[2], j <= i
        PROVE  \/ Unfinished(s[1], s[2], i)'
               \/ <<s[1], s[2], Linkers[i]>> \in excused'
               \/ Linked(s[1], s[2], Linkers[i])'
    <3>1. CASE x.pc # "idle" /\ x.job = work[w].job /\ x.linker <= i
      <4>1. w \in DOMAIN work' /\ work'[w].pc # "idle" /\ work'[w].linker <= i
            /\ work'[w].job.object = s[1] /\ work'[w].job.window = s[2]
        BY <1>2, <1>5, <2>3, <3>1
      <4> QED
        BY <4>1 DEF Unfinished, At, Subject, Window
    <3>2. CASE ~(x.pc # "idle" /\ x.job = work[w].job /\ x.linker <= i)
      <4>1. /\ x = Begin(work[w].job, j + 1)
            /\ <<o, t, Linkers[j]>> \in excused' \/ Linked(o, t, Linkers[j])'
        BY <2>3, <3>2
      <4>2. i = j
        BY <1>3, <1>4, <2>3, <3>2, <4>1, LinkersFacts
      <4>3. <<s[1], s[2], Linkers[i]>> \in excused' \/ Linked(o, t, Linkers[i])'
        BY <2>3, <4>1, <4>2
      <4> QED
        BY <2>3, <4>3 DEF Linked
    <3> QED
      BY <3>1, <3>2
  <2> QED
    BY <1>5, <1>6, <2>1, <2>2, <2>3 DEF Unfinished, At, Subject, Window
<1>7. ASSUME NEW s \in spans' \ untriggered', NEW i \in DOMAIN Linkers
      PROVE  Attended(s, i)'
  BY <1>1, <1>6, <1>7, CoverStays
<1> QED
  BY <1>7 DEF LinksComplete

LEMMA SoundMoves ==
  ASSUME LinksTypeOK, LinksSound, NEW w \in DOMAIN work, NEW x, work' = [work EXCEPT ![w] = x],
         linkSpans \subseteq linkSpans', SoundWorker(x)', \A s \in linkSpans' : SoundSpan(s)
  PROVE  LinksSound'
<1>1. work \in [DOMAIN work -> {Idle} \cup Busy]
  BY DEF LinksTypeOK
<1>2. /\ DOMAIN work' = DOMAIN work
      /\ work'[w] = x /\ \A v \in DOMAIN work : v # w => work'[v] = work[v]
  BY <1>1
<1>3. ASSUME NEW y, SoundWorker(y) PROVE SoundWorker(y)'
  BY <1>3 DEF SoundWorker
<1>4. ASSUME NEW v \in DOMAIN work' PROVE SoundWorker(work[v])'
  <2>1. CASE v = w
    BY <1>2, <2>1 DEF SoundWorker
  <2>2. CASE v # w
    <3>1. SoundWorker(work[v])
      BY <1>2 DEF LinksSound
    <3>2. work'[v] = work[v]
      BY <1>2, <2>2
    <3> QED
      BY <3>1, <3>2 DEF SoundWorker
  <2> QED
    BY <2>1, <2>2
<1> QED
  BY <1>4 DEF LinksSound

\* Only spans, jobs and workers that stay as they are.
LEMMA QueueStays ==
  ASSUME spans' = spans, jobs' = jobs, untriggered' = untriggered
  PROVE  JobsKept /\ NewSpansQueued
  BY DEF JobsKept, NewSpansQueued

\* A lookup ends with the links of the linker to create, with none, or excused.
LEMMA FollowCompletes ==
  ASSUME DistinctKeys, LinksTypeOK, LinksSound, LinksComplete,
         NEW w \in DOMAIN work, work[w].pc # "idle",
         NEW o \in Objects, objectKey(o) = Key(w), Follow(w, o), UNCHANGED <<spans, untriggered, linkSpans, jobs>>
  PROVE  LinksSound' /\ LinksComplete'
<1>0. PICK t, j : t = Window(w) /\ j = work[w].linker
  OBVIOUS
<1>1. Subject(w) \in Objects /\ j \in DOMAIN Linkers /\ Current(w) = Linkers[j] /\ o = Subject(w)
  <2>1. Subject(w) \in Objects /\ j \in DOMAIN Linkers /\ Current(w) = Linkers[j]
    BY <1>0, BusyFacts
  <2> QED
    BY <2>1 DEF DistinctKeys, Key
<1>2. PICK x \in {Idle} \cup Busy :
        /\ work' = [work EXCEPT ![w] = x]
        /\ x.pc \in {"idle", "lookup", "ensure"} /\ (x.pc = "ensure" => x.links # <<>>)
        /\ \/ /\ x = Begin(work[w].job, work[w].linker + 1)
              /\ excused' = excused \cup {<<Subject(w), Window(w), Current(w)>>}
           \/ /\ x = Begin(work[w].job, work[w].linker + 1) /\ UNCHANGED excused
              /\ Lookup(Current(w), Subject(w), o) = {}
           \/ /\ x.job = work[w].job /\ x.linker = work[w].linker /\ x.pc = "ensure"
              /\ x.links \in SetToSeqs(Lookup(Current(w), Subject(w), o)) /\ UNCHANGED excused
              /\ ~LookupFails(Current(w), o)
  BY FollowFacts
<1>3. excused \subseteq excused' /\ linkSpans \subseteq linkSpans' /\ JobsKept /\ NewSpansQueued
  BY <1>2, QueueStays
<1>4. ASSUME x.pc = "ensure"
      PROVE  x.links \in Seq(LinksOf(x.linker, x.job.object)) /\ x.job = work[w].job /\ x.linker = j
  <2>1. Begin(work[w].job, work[w].linker + 1).pc # "ensure"
    BY BusyFacts
  <2>2. /\ x.job = work[w].job /\ x.linker = j
        /\ x.links \in SetToSeqs(Lookup(Linkers[j], o, o)) /\ ~LookupFails(Linkers[j], o)
    BY <1>0, <1>1, <1>2, <1>4, <2>1
  <2>3. IsFiniteSet(Lookup(Linkers[j], o, o)) /\ LinksOf(j, o) = Lookup(Linkers[j], o, o)
    BY <1>1, <2>2, LookupFacts DEF LinksOf
  <2>4. x.links \in Seq(LinksOf(j, o))
    BY <2>2, <2>3, SeqsOfSet
  <2>5. x.job.object = o
    BY <1>1, <2>2 DEF Subject
  <2> QED
    BY <2>2, <2>4, <2>5
<1>5. SoundWorker(x)'
  BY <1>2, <1>4 DEF SoundWorker, Linking
<1>6. LinksSound'
  BY <1>2, <1>3, <1>5, SoundMoves DEF LinksSound
<1>7. \/ x.pc # "idle" /\ x.job = work[w].job /\ x.linker = j
      \/ /\ x = Begin(work[w].job, j + 1)
         /\ <<o, t, Linkers[j]>> \in excused' \/ Linked(o, t, Linkers[j])'
  <2>1. CASE Lookup(Current(w), Subject(w), o) = {} /\ x = Begin(work[w].job, j + 1)
    <3>1. Lookup(Linkers[j], o, o) = {}
      BY <1>1, <2>1
    <3> QED
      BY <2>1, <3>1 DEF Linked
  <2>2. CASE x = Begin(work[w].job, j + 1) /\ excused' = excused \cup {<<Subject(w), Window(w), Current(w)>>}
    BY <1>0, <1>1, <2>2
  <2>3. CASE x.job = work[w].job /\ x.linker = work[w].linker /\ x.pc = "ensure"
    BY <1>0, <2>3
  <2> QED
    BY <1>0, <1>2, <2>1, <2>2, <2>3
<1>8. LinksComplete'
  BY <1>0, <1>1, <1>2, <1>3, <1>7, CompleteMoves
<1> QED
  BY <1>6, <1>8

\* A job goes from the queue to a worker, which starts with the first linker.
LEMMA TakeCompletes ==
  ASSUME LinksTypeOK, LinksSound, LinksComplete, NEW w \in DOMAIN work, TakeJob(w)
  PROVE  LinksSound' /\ LinksComplete'
<1>0. PICK x, job : x = Begin(job, 1) /\ job = Head(jobs)
  OBVIOUS
<1>1. /\ work[w].pc = "idle" /\ jobs # <<>> /\ jobs' = Tail(jobs) /\ work' = [work EXCEPT ![w] = x]
      /\ spans' = spans /\ untriggered' = untriggered /\ linkSpans' = linkSpans /\ excused' = excused
  BY <1>0 DEF TakeJob, At
<1>2. job \in Jobs /\ jobs \in Seq(Jobs)
  BY <1>0, <1>1 DEF LinksTypeOK
<1>3. x.pc = "lookup" /\ x.job = job /\ x.linker = 1
  BY <1>0, <1>2, BeginFacts, LinkersFacts
<1>4. SoundWorker(x)'
  BY <1>3 DEF SoundWorker, Linking
<1>5. LinksSound'
  BY <1>1, <1>4, SoundMoves DEF LinksSound
<1>6. work \in [DOMAIN work -> {Idle} \cup Busy] /\ work # <<>>
  BY DEF LinksTypeOK
<1>7. /\ DOMAIN work' = DOMAIN work
      /\ work'[w] = x /\ \A v \in DOMAIN work : v # w => work'[v] = work[v]
  BY <1>1, <1>6
<1>8. \A k \in DOMAIN jobs : jobs[k] = job \/ \E m \in DOMAIN jobs' : jobs'[m] = jobs[k]
  <2>1. /\ DOMAIN jobs = 1..Len(jobs) /\ DOMAIN jobs' = 1..(Len(jobs) - 1) /\ Len(jobs) \in Nat
        /\ \A m \in 1..(Len(jobs) - 1) : jobs'[m] = jobs[m + 1]
        /\ jobs[1] = job
    BY <1>0, <1>1, <1>2
  <2> SUFFICES ASSUME NEW k \in DOMAIN jobs, k # 1 PROVE \E m \in DOMAIN jobs' : jobs'[m] = jobs[k]
    BY <2>1
  <2>2. k - 1 \in DOMAIN jobs' /\ jobs'[k - 1] = jobs[k]
    BY <2>1
  <2> QED
    BY <2>2
<1>9. ASSUME NEW s \in spans', NEW i \in DOMAIN Linkers, Unfinished(s[1], s[2], i)
      PROVE  Unfinished(s[1], s[2], i)'
  <2>1. CASE \E k \in DOMAIN jobs : jobs[k].object = s[1] /\ jobs[k].window = s[2]
    <3>1. PICK k \in DOMAIN jobs : jobs[k].object = s[1] /\ jobs[k].window = s[2]
      BY <2>1
    <3>2. CASE jobs[k] = job
      <4>1. /\ w \in DOMAIN work' /\ work'[w].pc # "idle" /\ work'[w].linker <= i
            /\ work'[w].job.object = s[1] /\ work'[w].job.window = s[2]
        BY <1>3, <1>7, <3>1, <3>2, LinkersFacts
      <4> QED
        BY <4>1 DEF Unfinished, At, Subject, Window
    <3>3. CASE \E m \in DOMAIN jobs' : jobs'[m] = jobs[k]
      <4>1. \E m \in DOMAIN jobs' : jobs'[m].object = s[1] /\ jobs'[m].window = s[2]
        BY <3>1, <3>3
      <4> QED
        BY <4>1 DEF Unfinished
    <3> QED
      BY <1>8, <3>2, <3>3
  <2>2. ASSUME NEW v \in DOMAIN work, work[v].pc # "idle", work[v].job.object = s[1], work[v].job.window = s[2],
               work[v].linker <= i
        PROVE  Unfinished(s[1], s[2], i)'
    <3>1. v # w
      BY <1>1, <2>2
    <3>2. /\ v \in DOMAIN work' /\ work'[v].pc # "idle" /\ work'[v].linker <= i
          /\ work'[v].job.object = s[1] /\ work'[v].job.window = s[2]
      BY <1>7, <2>2, <3>1
    <3> QED
      BY <3>2 DEF Unfinished, At, Subject, Window
  <2> QED
    BY <1>9, <2>1, <2>2 DEF Unfinished, At, Subject, Window
<1>10. NewSpansQueued
  BY <1>1 DEF NewSpansQueued
<1>11. ASSUME NEW s \in spans' \ untriggered', NEW i \in DOMAIN Linkers
       PROVE  Attended(s, i)'
  BY <1>1, <1>6, <1>9, <1>10, <1>11, CoverStays
<1>12. LinksComplete'
  BY <1>11 DEF LinksComplete
<1> QED
  BY <1>5, <1>12

\* An error ends the linker: what it did not link is excused.
LEMMA FailCompletes ==
  ASSUME LinksTypeOK, LinksSound, LinksComplete, NEW w \in DOMAIN work, work[w].pc # "idle", Fail(w),
         JobsKept, NewSpansQueued, linkSpans \subseteq linkSpans', \A s \in linkSpans' : SoundSpan(s)
  PROVE  LinksSound' /\ LinksComplete'
<1>0. PICK o, t, j, x : /\ o = Subject(w) /\ t = Window(w) /\ j = work[w].linker
                        /\ x = Begin(work[w].job, work[w].linker + 1)
  OBVIOUS
<1>1. work' = [work EXCEPT ![w] = x] /\ excused' = excused \cup {<<o, t, Linkers[j]>>}
  BY <1>0 DEF Fail, Current
<1>2. x.pc \in {"idle", "lookup"}
  BY <1>0, BusyFacts
<1>3. SoundWorker(x)'
  BY <1>2 DEF SoundWorker, Linking
<1>4. LinksSound'
  BY <1>1, <1>3, SoundMoves
<1>5. x = Begin(work[w].job, j + 1) /\ <<o, t, Linkers[j]>> \in excused' /\ excused \subseteq excused'
  BY <1>0, <1>1
<1>6. LinksComplete'
  BY <1>0, <1>1, <1>5, CompleteMoves
<1> QED
  BY <1>4, <1>6

\* What a worker that creates a link knows of it.
LEMMA WorkerLink ==
  ASSUME LinksTypeOK, LinksSound, NEW w \in DOMAIN work, work[w].pc \in Linking
  PROVE  /\ work[w].links \in Seq(LinksOf(work[w].linker, Subject(w))) /\ work[w].links # <<>>
         /\ Link(w) \in LinksOf(work[w].linker, Subject(w))
         /\ work[w].pc = "backward" => ForwardSpan(Subject(w), Window(w), Link(w)) \in linkSpans
<1>1. /\ work[w].links \in Seq(LinksOf(work[w].linker, Subject(w)))
      /\ work[w].pc = "backward" => ForwardSpan(Subject(w), Window(w), Link(w)) \in linkSpans
  BY DEF LinksSound, SoundWorker, Subject, Window, Link
<1>2. work[w].links # <<>>
  BY DEF LinksTypeOK
<1> QED
  BY <1>1, <1>2 DEF Link

\* A step of a worker: its links get both ends before it leaves the linker.
LEMMA ExecuteCompletes ==
  ASSUME DistinctKeys, OneController, LinksTypeOK, LinksSound, LinksComplete,
         NEW w \in DOMAIN work, Execute(w)
  PROVE  LinksSound' /\ LinksComplete'
<1>0. PICK o, t, j, l : o = Subject(w) /\ t = Window(w) /\ j = work[w].linker /\ l = Link(w)
  OBVIOUS
<1>1. CASE LookupRaw(w)
  <2>1. work[w].pc # "idle" /\ Follow(w, Subject(w)) /\ UNCHANGED <<spans, untriggered, linkSpans, jobs>>
    BY <1>1 DEF LookupRaw, At
  <2>2. Subject(w) \in Objects /\ objectKey(Subject(w)) = Key(w)
    BY <2>1, BusyFacts DEF Key
  <2> QED
    BY <2>1, <2>2, FollowCompletes
<1>2. CASE LookupCached(w)
  <2>1. /\ work[w].pc # "idle" /\ Follow(w, cache[Key(w)]) /\ UNCHANGED <<spans, untriggered, linkSpans, jobs>>
        /\ cache[Key(w)] \notin {Absent, Pending}
    BY <1>2 DEF LookupCached, At
  <2>2. Key(w) \in Keys
    BY <2>1, BusyFacts
  <2>3. cache[Key(w)] \in Objects /\ objectKey(cache[Key(w)]) = Key(w)
    BY <2>1, <2>2 DEF LinksTypeOK
  <2> QED
    BY <2>1, <2>3, FollowCompletes
<1>3. CASE LookupReserve(w)
  <2>0. PICK x : x = [work[w] EXCEPT !.pc = "fetch"]
    OBVIOUS
  <2>1. /\ work[w].pc = "lookup" /\ work' = [work EXCEPT ![w] = x]
        /\ UNCHANGED <<spans, untriggered, linkSpans, jobs, excused>>
    BY <1>3, <2>0 DEF LookupReserve, At
  <2>2. work[w] \in Busy
    BY <2>1, BusyFacts
  <2>3. x.pc = "fetch" /\ x.job = work[w].job /\ x.linker = j
    BY <1>0, <2>0, <2>2 DEF Busy
  <2>4. LinksSound'
    BY <2>1, <2>3, SoundMoves DEF LinksSound, SoundWorker, Linking
  <2>5. LinksComplete'
    BY <1>0, <2>1, <2>3, QueueStays, CompleteMoves
  <2> QED
    BY <2>4, <2>5
<1>4. CASE FetchFound(w)
  <2>1. work[w].pc # "idle" /\ Follow(w, Subject(w)) /\ UNCHANGED <<spans, untriggered, linkSpans, jobs>>
    BY <1>4 DEF FetchFound, At
  <2>2. Subject(w) \in Objects /\ objectKey(Subject(w)) = Key(w)
    BY <2>1, BusyFacts DEF Key
  <2> QED
    BY <2>1, <2>2, FollowCompletes
<1>5. CASE FetchFails(w)
  <2>1. work[w].pc # "idle" /\ Fail(w) /\ UNCHANGED <<spans, untriggered, linkSpans, jobs>>
    BY <1>5 DEF FetchFails, At
  <2>2. linkSpans \subseteq linkSpans' /\ \A s \in linkSpans' : SoundSpan(s)
    BY <2>1 DEF LinksSound
  <2>3. JobsKept /\ NewSpansQueued
    BY <2>1, QueueStays
  <2> QED
    BY <2>1, <2>2, <2>3, FailCompletes
<1>6. ASSUME work[w].pc \in Linking
      PROVE  /\ work[w].pc # "idle" /\ work[w] \in Busy /\ o \in Objects /\ t \in Windows /\ j \in DOMAIN Linkers
             /\ work[w].links \in Seq(LinksOf(j, o)) /\ work[w].links # <<>>
             /\ work[w].job.object = o /\ work[w].job.window = t /\ work[w].linker = j
             /\ l \in LinksOf(j, o) /\ l \in LinkSet /\ l = Head(work[w].links)
             /\ work[w].pc = "backward" => ForwardSpan(o, t, l) \in linkSpans
  <2>1. work[w].pc # "idle"
    BY <1>6 DEF Linking
  <2>2. work[w] \in Busy /\ o \in Objects /\ t \in Windows /\ j \in DOMAIN Linkers
    BY <1>0, <2>1, BusyFacts
  <2>3. /\ work[w].links \in Seq(LinksOf(j, o)) /\ work[w].links # <<>> /\ l \in LinksOf(j, o)
        /\ work[w].pc = "backward" => ForwardSpan(o, t, l) \in linkSpans
    BY <1>0, <1>6, WorkerLink
  <2>4. l \in LinkSet
    BY <2>2, <2>3, LinksOfFacts
  <2> QED
    BY <1>0, <2>1, <2>2, <2>3, <2>4 DEF Subject, Window, Link
<1>7. CASE EnsureLinked(w)
  <2>0. PICK x : x = [work[w] EXCEPT !.pc = "forward"]
    OBVIOUS
  <2>1. /\ work[w].pc = "ensure" /\ work' = [work EXCEPT ![w] = x] /\ UNCHANGED <<linkSpans, excused>>
        /\ EnsureObjectSpan(l.to, t, FALSE)
    BY <1>0, <1>7, <2>0 DEF EnsureLinked, At
  <2>2. /\ work[w] \in Busy /\ l.to \in Objects /\ t \in Windows /\ work[w].links \in Seq(LinksOf(j, o))
        /\ work[w].job.object = o /\ work[w].linker = j
    BY <1>6, <2>1 DEF Linking, LinkSet
  <2>3. x.pc = "forward" /\ x.job = work[w].job /\ x.linker = j /\ x.links = work[w].links
    BY <2>0, <2>2 DEF Busy
  <2>4. SoundWorker(x)'
    BY <2>2, <2>3 DEF SoundWorker
  <2>5. LinksSound'
    BY <2>1, <2>4, SoundMoves DEF LinksSound
  <2>6. JobsKept /\ NewSpansQueued
    <3>1. work # <<>>
      OBVIOUS
    <3> QED
      BY <2>1, <2>2, <3>1, EnsureQueues
  <2>7. LinksComplete'
    BY <1>0, <2>1, <2>3, <2>6, CompleteMoves
  <2> QED
    BY <2>5, <2>7
<1>8. ASSUME work[w].pc \in Linking, linkSpans' = CreateLink(o, t, l.to, <<l.dedupId>>)
      PROVE  linkSpans \subseteq linkSpans' /\ ForwardSpan(o, t, l) \in linkSpans' /\ \A s \in linkSpans' : SoundSpan(s)
  <2>1. /\ o \in Objects /\ t \in Windows /\ j \in DOMAIN Linkers /\ l \in LinksOf(j, o)
        /\ \A s \in linkSpans : SoundSpan(s)
    BY <1>6, <1>8 DEF LinksSound
  <2> QED
    BY <1>8, <2>1, ForwardCreates
<1>9. ASSUME work[w].pc \in Linking, linkSpans' = CreateLink(l.to, t, o, <<l.dedupId, o>>)
      PROVE  linkSpans \subseteq linkSpans' /\ BackwardSpan(o, t, l) \in linkSpans' /\ \A s \in linkSpans' : SoundSpan(s)
  <2>1. o \in Objects /\ t \in Windows /\ l \in LinkSet /\ \A s \in linkSpans : SoundSpan(s)
    BY <1>6, <1>9 DEF LinksSound
  <2> QED
    BY <1>9, <2>1, BackwardCreates
<1>10. CASE ForwardLink(w)
  <2>0. PICK x : x = [work[w] EXCEPT !.pc = "backward"]
    OBVIOUS
  <2>1. /\ work[w].pc = "forward" /\ work' = [work EXCEPT ![w] = x] /\ UNCHANGED <<spans, untriggered, jobs, excused>>
        /\ linkSpans' = CreateLink(o, t, l.to, <<l.dedupId>>)
    BY <1>0, <1>10, <2>0 DEF ForwardLink, At
  <2>2. /\ work[w].pc \in Linking /\ work[w] \in Busy /\ work[w].links \in Seq(LinksOf(j, o))
        /\ work[w].job.object = o /\ work[w].job.window = t /\ work[w].linker = j /\ l = Head(work[w].links)
    BY <1>6, <2>1 DEF Linking
  <2>3. x.pc = "backward" /\ x.job = work[w].job /\ x.linker = j /\ x.links = work[w].links
    BY <2>0, <2>2 DEF Busy
  <2>4. linkSpans \subseteq linkSpans' /\ ForwardSpan(o, t, l) \in linkSpans' /\ \A s \in linkSpans' : SoundSpan(s)
    BY <1>8, <2>1, <2>2
  <2>5. SoundWorker(x)'
    BY <2>2, <2>3, <2>4 DEF SoundWorker, ForwardSpan
  <2>6. LinksSound'
    BY <2>1, <2>4, <2>5, SoundMoves
  <2>7. LinksComplete'
    BY <1>0, <2>1, <2>3, <2>4, QueueStays, CompleteMoves
  <2> QED
    BY <2>6, <2>7
<1>11. CASE BackwardLink(w)
  <2>0. PICK x, b, y : /\ b = Begin(work[w].job, j + 1)
                       /\ y = [job |-> work[w].job, linker |-> j, pc |-> "ensure", links |-> Tail(work[w].links)]
                       /\ x = IF Len(work[w].links) = 1 THEN b ELSE y
    OBVIOUS
  <2>1. /\ work[w].pc = "backward" /\ work' = [work EXCEPT ![w] = x] /\ UNCHANGED <<spans, untriggered, jobs, excused>>
        /\ linkSpans' = CreateLink(l.to, t, o, <<l.dedupId, o>>)
    BY <1>0, <1>11, <2>0 DEF BackwardLink, BackwardId, At
  <2>2. /\ work[w].pc \in Linking /\ work[w] \in Busy /\ work[w].links \in Seq(LinksOf(j, o)) /\ work[w].links # <<>>
        /\ o \in Objects /\ j \in DOMAIN Linkers /\ l \in LinksOf(j, o) /\ work[w].pc # "idle"
        /\ work[w].job.object = o /\ work[w].linker = j /\ ForwardSpan(o, t, l) \in linkSpans
    BY <1>6, <2>1 DEF Linking
  <2>3. linkSpans \subseteq linkSpans' /\ BackwardSpan(o, t, l) \in linkSpans' /\ \A s \in linkSpans' : SoundSpan(s)
    BY <1>9, <2>1, <2>2
  <2>4. Tail(work[w].links) \in Seq(LinksOf(j, o))
    BY <2>2, TailFacts
  <2>5. y.pc = "ensure" /\ y.job = work[w].job /\ y.linker = j /\ y.links = Tail(work[w].links)
    BY <2>0
  <2>6. b.pc \in {"idle", "lookup"}
    BY <2>0, <2>2, BusyFacts
  <2>7. SoundWorker(x)'
    <3>1. SoundWorker(y)'
      BY <2>2, <2>4, <2>5 DEF SoundWorker
    <3>2. SoundWorker(b)'
      BY <2>6 DEF SoundWorker, Linking
    <3> QED
      BY <2>0, <3>1, <3>2
  <2>8. LinksSound'
    BY <2>1, <2>3, <2>7, SoundMoves
  <2>9. Linked(o, t, Linkers[j])'
    <3>1. Lookup(Linkers[j], o, o) = LinksOf(j, o) /\ \A m \in LinksOf(j, o) : m = l
      BY <2>2, LinksOfFacts DEF LinksOf
    <3>2. /\ [of |-> o, window |-> t, to |-> l.to, dedupId |-> <<l.dedupId>>] \in linkSpans'
          /\ [of |-> l.to, window |-> t, to |-> o, dedupId |-> <<l.dedupId, o>>] \in linkSpans'
      BY <2>2, <2>3 DEF ForwardSpan, BackwardSpan
    <3> QED
      BY <3>1, <3>2 DEF Linked
  <2>10. (x.pc # "idle" /\ x.job = work[w].job /\ x.linker = j) \/ x = Begin(work[w].job, j + 1)
    BY <2>0, <2>5
  <2>11. LinksComplete'
    BY <1>0, <2>1, <2>2, <2>3, <2>9, <2>10, QueueStays, CompleteMoves
  <2> QED
    BY <2>8, <2>11
<1>12. CASE LinkError(w)
  <2>1. /\ work[w].pc \in Linking /\ Fail(w) /\ UNCHANGED <<spans, untriggered, jobs>>
        /\ \/ linkSpans' = linkSpans
           \/ linkSpans' = CreateLink(o, t, l.to, <<l.dedupId>>)
           \/ linkSpans' = CreateLink(l.to, t, o, <<l.dedupId, o>>)
    BY <1>0, <1>12 DEF LinkError, BackwardId, At, Linking
  <2>2. linkSpans \subseteq linkSpans' /\ \A s \in linkSpans' : SoundSpan(s)
    BY <1>8, <1>9, <2>1 DEF LinksSound
  <2>3. JobsKept /\ NewSpansQueued
    BY <2>1, QueueStays
  <2> QED
    BY <1>6, <2>1, <2>2, <2>3, FailCompletes
<1>13. CASE EnsureError(w)
  <2>1. work[w].pc = "ensure" /\ Fail(w) /\ linkSpans' = linkSpans /\ EnsureFails(Link(w).to, Window(w))
    BY <1>13 DEF EnsureError, At
  <2>2. linkSpans \subseteq linkSpans' /\ \A s \in linkSpans' : SoundSpan(s)
    BY <2>1 DEF LinksSound
  <2>3. JobsKept /\ NewSpansQueued
    BY <2>1, EnsureFailsQueues
  <2>4. work[w].pc # "idle"
    BY <2>1
  <2> QED
    BY <2>1, <2>2, <2>3, <2>4, FailCompletes
<1> QED
  BY <1>1, <1>2, <1>3, <1>4, <1>5, <1>7, <1>10, <1>11, <1>12, <1>13 DEF Execute

\* A step that moves no worker, and queues a job for every new span.
LEMMA OthersComplete ==
  ASSUME LinksSound, LinksComplete, UNCHANGED <<linkSpans, work, excused>>,
         work # <<>> => JobsKept /\ NewSpansQueued
  PROVE  LinksSound' /\ LinksComplete'
<1>1. LinksSound'
  BY DEF LinksSound, SoundWorker
<1>2. ASSUME work # <<>>, NEW s \in spans' \ untriggered', NEW i \in DOMAIN Linkers
      PROVE  Attended(s, i)'
  <2>1. JobsKept /\ NewSpansQueued
    BY <1>2
  <2>2. Unfinished(s[1], s[2], i) => Unfinished(s[1], s[2], i)'
    BY <2>1 DEF JobsKept, Unfinished, At, Subject, Window
  <2> QED
    BY <1>2, <2>1, <2>2, CoverStays
<1>3. LinksComplete'
  BY <1>2 DEF LinksComplete
<1> QED
  BY <1>1, <1>3

LEMMA CompleteInit ==
  ASSUME Init
  PROVE  CompleteInv
<1>1. PICK d \in Deployments : LinkInit(d.linkWorkers)
  BY DEF Init
<1>2. spans = {} /\ linkSpans = {} /\ work = [w \in d.linkWorkers |-> Idle]
  BY <1>1 DEF LinkInit
<1>3. \A w \in DOMAIN work : work[w].pc = "idle"
  BY <1>2, IdleIsIdle
<1>4. LinksSound /\ LinksComplete
  BY <1>2, <1>3 DEF LinksSound, SoundWorker, Linking, LinksComplete
<1> QED
  BY <1>4, FetchInit DEF CompleteInv

LEMMA CompleteStep ==
  ASSUME DistinctKeys, OneController, CompleteInv, [Next]_vars
  PROVE  CompleteInv'
<1>0. PipelineTypeOK /\ LinksTypeOK /\ LinksSound /\ LinksComplete /\ FetchInv'
  BY FetchStep DEF CompleteInv, FetchInv
<1>1. ASSUME UNCHANGED <<spans, untriggered, linkSpans, jobs, work, excused>> PROVE LinksSound' /\ LinksComplete'
  BY <1>0, <1>1, QueueStays, OthersComplete
<1>2. CASE AuditNext /\ UNCHANGED <<kelemetrixVars, linkVars>>
  BY <1>1, <1>2, <1>0 DEF linkVars, CompleteInv
<1>3. CASE "kelemetrix" \in groups /\ PrepareTagsQuantifiers /\ UNCHANGED <<auditVars, linkVars>>
  BY <1>1, <1>3, <1>0 DEF linkVars, CompleteInv
<1>4. ASSUME NEW p \in Partitions, handleMessage(p) PROVE CompleteInv'
  <2>1. /\ UNCHANGED <<linkSpans, work, excused>>
        /\ \/ UNCHANGED <<spans, untriggered, jobs>>
           \/ \E o \in Objects, t \in Windows, raw \in BOOLEAN : EnsureObjectSpan(o, t, raw)
           \/ \E o \in Objects, t \in Windows : EnsureFails(o, t)
    BY <1>0, <1>4, MessageFacts
  <2>2. work # <<>> => JobsKept /\ NewSpansQueued
    BY <1>0, <2>1, EnsureQueues, EnsureFailsQueues, QueueStays
  <2> QED
    BY <1>0, <2>1, <2>2, OthersComplete DEF CompleteInv
<1>5. ASSUME NEW p \in Partitions, handleMetrics(p) PROVE CompleteInv'
  BY <1>0, <1>1, <1>5 DEF handleMetrics, linkVars, CompleteInv
<1>6. CASE LinkNext /\ UNCHANGED <<auditVars, kelemetrixVars>>
  <2>1. ASSUME NEW w \in DOMAIN work, TakeJob(w) PROVE CompleteInv'
    BY <1>0, <2>1, TakeCompletes DEF CompleteInv
  <2>2. ASSUME NEW w \in DOMAIN work, Execute(w) PROVE CompleteInv'
    BY <1>0, <2>2, ExecuteCompletes DEF CompleteInv
  <2>3. ASSUME NEW k \in DOMAIN cache, Expire(k) PROVE CompleteInv'
    BY <1>0, <1>1, <2>3 DEF Expire, CompleteInv
  <2> QED
    BY <1>6, <2>1, <2>2, <2>3 DEF LinkNext
<1>7. CASE UNCHANGED vars
  BY <1>0, <1>1, <1>7 DEF vars, linkVars, CompleteInv
<1> QED
  BY <1>2, <1>3, <1>4, <1>5, <1>6, <1>7 DEF Next

\* worker.go, execute: in a deployment of one cluster, whose objects have one
\* controller each, every object whose span was stored by a call that succeeded
\* has both ends of all its links, or a job or a worker still has them to create,
\* or its own lookup failed or found nothing; for every set of objects and links
\* (cycles included), every number of workers, and whatever fails or expires in
\* between.  A span that SetReserved stored although it failed has no job
\* (LinkersTriggered is refuted): it is the only one that is left out.
THEOREM NoObjectIsForgotten ==
  ASSUME DistinctKeys, OneController
  PROVE  Spec => []LinksComplete
<1>1. Init => CompleteInv
  BY CompleteInit
<1>2. CompleteInv /\ [Next]_vars => CompleteInv'
  BY CompleteStep
<1>3. CompleteInv => LinksComplete
  BY DEF CompleteInv
<1> QED
  BY <1>1, <1>2, <1>3, PTL DEF Spec

-----------------------------------------------------------------------------
(* Events of an object are handled in order *)

\* One producer worker, events partitioned by object (or coarser), each event
\* sent once, and None a value of its own.
OneProducer == \A v, w \in Workers : v = w
ByObject == PartitionByObject /\ PartitionKeyType \in {"cluster", "object"}
DistinctEvents ==
  \A r, q \in Requests : \A i \in DOMAIN Items(r), j \in DOMAIN Items(q) :
    Items(r)[i] = Items(q)[j] => r = q /\ i = j
NoneIsDistinct == None \notin Seq(Events) /\ \A e, p, s : None # [event |-> e, partition |-> p, left |-> s]

\* What a request has still to send.
ToSend(r) == IF posting[r] = None THEN Items(r) ELSE posting[r]

\* The events taken from the subscription, and those sent to a group.
Taken == Len(received) - Len(subscriber)
Sent(g) == IF \E w \in Workers : producing[w] # None /\ g \in producing[w].left THEN Taken - 1 ELSE Taken

Part(h, e) == h[PartitionKey(e)]

ReceivedOnce ==
  /\ \A i, j \in DOMAIN received : received[i] = received[j] => i = j
  /\ \A r \in Requests : /\ ToSend(r) \in Seq(Events)
                         /\ \A k, m \in DOMAIN ToSend(r) : ToSend(r)[k] = ToSend(r)[m] => k = m
                         /\ \A k \in DOMAIN ToSend(r), i \in DOMAIN received : ToSend(r)[k] # received[i]
  /\ \A r, q \in Requests : r # q => \A k \in DOMAIN ToSend(r), m \in DOMAIN ToSend(q) : ToSend(r)[k] # ToSend(q)[m]

\* The subscription holds the last events, the producer the one before them.
ProducedInOrder ==
  /\ Taken >= 0 /\ \A k \in DOMAIN subscriber : subscriber[k] = received[Taken + k]
  /\ \A w \in Workers : producing[w] # None =>
       Taken >= 1 /\ producing[w].event = received[Taken] /\ producing[w].partition = Part(hash, received[Taken])

\* A queue q of partition p, of n events sent of those received, in order,
\* none of which is handled: those are in H.
InOrder(q, p, n, H, R, h) ==
  /\ \A k \in DOMAIN q : \E i \in 1..n : q[k] = R[i] /\ Part(h, R[i]) = p
  /\ \A k, m \in DOMAIN q, i, j \in DOMAIN R : k < m /\ q[k] = R[i] /\ q[m] = R[j] => i < j
  /\ \A k \in DOMAIN q, i, j \in DOMAIN R : i <= j /\ q[k] = R[i] /\ Part(h, R[j]) = p => R[j] \notin H

QueuedInOrder ==
  \A g \in groups, p \in Partitions : InOrder(mq[g][p], p, Sent(g), handled[g], received, hash)

\* What was sent to a group is handled or queued; nothing else is handled.
Arrived(Q, n, H, R, h) ==
  /\ \A i \in 1..n : R[i] \in H \/ \E k \in DOMAIN Q[Part(h, R[i])] : Q[Part(h, R[i])][k] = R[i]
  /\ \A e \in H : \E i \in 1..n : e = R[i]

SentArrive == \A g \in groups : Arrived(mq[g], Sent(g), handled[g], received, hash)

\* The inductive invariant for OrderPerObject.
OrderInv ==
  /\ PipelineTypeOK /\ received \in Seq(Events) /\ handled \in [groups -> SUBSET Events]
  /\ ReceivedOnce /\ ProducedInOrder /\ QueuedInOrder /\ SentArrive

LEMMA CountFacts ==
  ASSUME OrderInv
  PROVE  /\ Len(received) \in Nat /\ Len(subscriber) \in Nat /\ DOMAIN received = 1..Len(received)
         /\ Taken \in 0..Len(received) /\ \A g \in groups : Sent(g) \in 0..Taken
<1>1. /\ Len(received) \in Nat /\ Len(subscriber) \in Nat /\ DOMAIN received = 1..Len(received)
  BY DEF OrderInv, PipelineTypeOK
<1>2. Taken \in 0..Len(received)
  BY <1>1 DEF OrderInv, ProducedInOrder, Taken
<1>3. ASSUME NEW g \in groups PROVE Sent(g) \in 0..Taken
  <2>1. CASE \E w \in Workers : producing[w] # None /\ g \in producing[w].left
    <3>1. Taken >= 1 /\ Sent(g) = Taken - 1
      BY <2>1 DEF OrderInv, ProducedInOrder, Sent
    <3> QED
      BY <1>1, <1>2, <3>1
  <2>2. CASE ~\E w \in Workers : producing[w] # None /\ g \in producing[w].left
    <3>1. Sent(g) = Taken
      BY <2>2 DEF Sent
    <3> QED
      BY <1>1, <1>2, <3>1
  <2> QED
    BY <2>1, <2>2
<1> QED
  BY <1>1, <1>2, <1>3

LEMMA PartitionsFacts ==
  ASSUME ByObject, PipelineTypeOK, NEW e \in Events
  PROVE  Part(hash, e) \in Partitions /\ PartitionOf(e) = {Part(hash, e)}
  BY EventsAssumption DEF ByObject, PipelineTypeOK, Part, PartitionOf

LEMMA OrderFollows ==
  ASSUME ByObject, OrderInv
  PROVE  OrderPerObject
<1> SUFFICES ASSUME NEW g \in groups, NEW i \in DOMAIN received, NEW j \in DOMAIN received,
                    i < j, received[j] \in handled[g],
                    received[i].cluster = received[j].cluster, received[i].ref = received[j].ref
             PROVE  received[i] \in handled[g]
  BY DEF OrderPerObject
<1>1. DOMAIN received = 1..Len(received) /\ Len(received) \in Nat /\ Taken \in 0..Len(received) /\ Sent(g) \in 0..Taken
  BY CountFacts
<1>2. received[i] \in Events /\ received[j] \in Events
  BY DEF OrderInv
<1>3. Part(hash, received[i]) = Part(hash, received[j])
  BY DEF Part, PartitionKey, ByObject
<1>4. Part(hash, received[i]) \in Partitions
  BY <1>2, PartitionsFacts DEF OrderInv
<1>5. PICK n \in 1..Sent(g) : received[j] = received[n]
  BY DEF OrderInv, SentArrive, Arrived
<1>6. n \in DOMAIN received /\ j = n
  <2>1. n \in DOMAIN received
    BY <1>1
  <2> QED
    BY <1>5, <2>1 DEF OrderInv, ReceivedOnce
<1>7. i \in 1..Sent(g)
  BY <1>1, <1>6
<1>8. CASE \E k \in DOMAIN mq[g][Part(hash, received[i])] : mq[g][Part(hash, received[i])][k] = received[i]
  <2>1. received[j] \notin handled[g]
    BY <1>1, <1>3, <1>4, <1>8 DEF OrderInv, QueuedInOrder, InOrder
  <2> QED
    BY <2>1
<1> QED
  BY <1>7, <1>8 DEF OrderInv, SentArrive, Arrived

LEMMA OrderInit ==
  ASSUME DistinctEvents, NoneIsDistinct, Init
  PROVE  OrderInv
<1>1. PICK d \in Deployments : AuditInit(d.groups, d.maxConfigs)
  BY DEF Init
<1>2. /\ posting = [r \in Requests |-> None] /\ subscriber = <<>> /\ producing = [w \in Workers |-> None]
      /\ mq = [g \in groups |-> [p \in Partitions |-> <<>>]]
      /\ received = <<>> /\ handled = [g \in groups |-> {}]
  BY <1>1 DEF AuditInit
<1>3. PipelineTypeOK /\ received \in Seq(Events) /\ handled \in [groups -> SUBSET Events]
  BY <1>2, FetchInit DEF FetchInv
<1>4. Len(received) = 0 /\ Len(subscriber) = 0 /\ Taken = 0 /\ DOMAIN received = {} /\ DOMAIN subscriber = {}
  BY <1>2 DEF Taken
<1>5. \A g : Sent(g) = 0
  BY <1>2, <1>4 DEF Sent
<1>6. \A r \in Requests : ToSend(r) = Items(r)
  BY <1>2 DEF ToSend
<1>7. ReceivedOnce
  <2>1. \A r \in Requests : ToSend(r) \in Seq(Events)
    BY <1>6, EventsAssumption
  <2> QED
    BY <1>4, <1>6, <2>1 DEF ReceivedOnce, DistinctEvents
<1>8. ProducedInOrder
  BY <1>2, <1>4 DEF ProducedInOrder
<1>9. \A g \in groups, p \in Partitions : mq[g][p] = <<>> /\ DOMAIN mq[g][p] = {}
  BY <1>2
<1>10. QueuedInOrder
  BY <1>9 DEF QueuedInOrder, InOrder
<1>11. SentArrive
  <2>1. 1..0 = {}
    OBVIOUS
  <2> QED
    BY <1>2, <1>5, <2>1 DEF SentArrive, Arrived
<1> QED
  BY <1>3, <1>7, <1>8, <1>10, <1>11 DEF OrderInv

\* A request arrives: what it has to send is what it had.
LEMMA OrderRequest ==
  ASSUME OrderInv, NEW r \in Requests, handleRequest(r)
  PROVE  OrderInv'
<1>1. /\ posting[r] = None /\ posting' = [posting EXCEPT ![r] = Items(r)]
      /\ UNCHANGED <<groups, subscriber, producing, hash, mq, received, handled>>
  BY DEF handleRequest
<1>2. PipelineTypeOK'
  BY PipelineStep DEF AuditNext, OrderInv
<1>3. DOMAIN posting = Requests
  BY DEF OrderInv, PipelineTypeOK
<1>4. \A q \in Requests : ToSend(q)' = ToSend(q)
  BY <1>1, <1>3 DEF ToSend
<1>5. ReceivedOnce'
  BY <1>1, <1>4 DEF OrderInv, ReceivedOnce
<1>6. ProducedInOrder' /\ QueuedInOrder' /\ SentArrive'
  BY <1>1 DEF OrderInv, ProducedInOrder, QueuedInOrder, SentArrive, Taken, Sent
<1> QED
  BY <1>1, <1>2, <1>5, <1>6 DEF OrderInv

\* What the queues of a group promise, when one more event is received,
LEMMA ReceivedExtends ==
  ASSUME NEW R \in Seq(Events), NEW e \in Events, \A i \in DOMAIN R : R[i] # e,
         NEW n \in Nat, n <= Len(R), NEW H, NEW h, NEW Q,
         Arrived(Q, n, H, R, h), \A s \in Partitions : InOrder(Q[s], s, n, H, R, h),
         NEW A, A = Append(R, e)
  PROVE  Arrived(Q, n, H, A, h) /\ \A s \in Partitions : InOrder(Q[s], s, n, H, A, h)
<1> DEFINE N == Len(R)
<1>1. /\ N \in Nat /\ DOMAIN R = 1..N /\ DOMAIN A = 1..(N + 1) /\ A[N + 1] = e
      /\ \A i \in 1..N : A[i] = R[i]
  OBVIOUS
<1> HIDE DEF N
<1>2. \A i \in 1..n : i \in DOMAIN R /\ A[i] = R[i]
  BY <1>1 DEF N
<1>3. Arrived(Q, n, H, A, h) /\ e \notin H
  BY <1>2 DEF Arrived
<1>4. ASSUME NEW q, NEW p, InOrder(q, p, n, H, R, h) PROVE InOrder(q, p, n, H, A, h)
  <2>1. \A k \in DOMAIN q : \E i \in 1..n : q[k] = A[i] /\ Part(h, A[i]) = p
    BY <1>2, <1>4 DEF InOrder
  <2>2. \A k \in DOMAIN q : q[k] # e
    BY <1>2, <1>4 DEF InOrder
  <2>3. \A i \in DOMAIN A : A[i] # e => i \in DOMAIN R /\ A[i] = R[i]
    BY <1>1
  <2>4. \A k, m \in DOMAIN q, i, j \in DOMAIN A : k < m /\ q[k] = A[i] /\ q[m] = A[j] => i < j
    <3> SUFFICES ASSUME NEW k \in DOMAIN q, NEW m \in DOMAIN q, NEW i \in DOMAIN A, NEW j \in DOMAIN A,
                        k < m, q[k] = A[i], q[m] = A[j]
                 PROVE  i < j
      OBVIOUS
    <3>1. i \in DOMAIN R /\ j \in DOMAIN R /\ q[k] = R[i] /\ q[m] = R[j]
      BY <2>2, <2>3
    <3> QED
      BY <1>4, <3>1 DEF InOrder
  <2>5. \A k \in DOMAIN q, i, j \in DOMAIN A : i <= j /\ q[k] = A[i] /\ Part(h, A[j]) = p => A[j] \notin H
    <3> SUFFICES ASSUME NEW k \in DOMAIN q, NEW i \in DOMAIN A, NEW j \in DOMAIN A,
                        i <= j, q[k] = A[i], Part(h, A[j]) = p, A[j] \in H
                 PROVE  FALSE
      OBVIOUS
    <3>1. i \in DOMAIN R /\ j \in DOMAIN R /\ q[k] = R[i] /\ A[j] = R[j]
      BY <1>3, <2>2, <2>3
    <3> QED
      BY <1>4, <3>1 DEF InOrder
  <2> QED
    BY <2>1, <2>4, <2>5 DEF InOrder
<1> QED
  BY <1>3, <1>4

\* when the next one is sent to one of them,
LEMMA SentExtends ==
  ASSUME NEW R \in Seq(Events), \A i, j \in DOMAIN R : R[i] = R[j] => i = j,
         NEW n \in Nat, n + 1 <= Len(R), NEW H, NEW h, NEW Q \in [Partitions -> Seq(Events)],
         NEW p \in Partitions, Part(h, R[n + 1]) = p,
         Arrived(Q, n, H, R, h), \A s \in Partitions : InOrder(Q[s], s, n, H, R, h),
         NEW P, P = [Q EXCEPT ![p] = Append(Q[p], R[n + 1])]
  PROVE  Arrived(P, n + 1, H, R, h) /\ \A s \in Partitions : InOrder(P[s], s, n + 1, H, R, h)
<1> DEFINE q == Q[p]
           e == R[n + 1]
           N == Len(q)
<1>1. /\ DOMAIN R = 1..Len(R) /\ Len(R) \in Nat /\ n + 1 \in DOMAIN R /\ \A i \in 1..n : i \in DOMAIN R
      /\ 1..(n + 1) = 1..n \cup {n + 1} /\ e \in Events
  OBVIOUS
<1>2. q \in Seq(Events) /\ N \in Nat /\ DOMAIN q = 1..N
  OBVIOUS
<1>3. P[p] = Append(q, e) /\ \A s \in Partitions : s # p => P[s] = Q[s]
  OBVIOUS
<1>4. /\ DOMAIN P[p] = 1..(N + 1) /\ P[p][N + 1] = e /\ \A k \in 1..N : P[p][k] = q[k]
  BY <1>1, <1>2, <1>3
<1> HIDE DEF q, e, N
<1>5. \A s \in Partitions : \A k \in DOMAIN Q[s] : k \in DOMAIN P[s] /\ P[s][k] = Q[s][k]
  BY <1>2, <1>3, <1>4 DEF q
<1>6. Arrived(P, n + 1, H, R, h)
  <2>1. \A i \in 1..n : R[i] \in H \/ \E k \in DOMAIN P[Part(h, R[i])] : P[Part(h, R[i])][k] = R[i]
    <3> SUFFICES ASSUME NEW i \in 1..n, R[i] \notin H
                 PROVE  \E k \in DOMAIN P[Part(h, R[i])] : P[Part(h, R[i])][k] = R[i]
      OBVIOUS
    <3>1. PICK k \in DOMAIN Q[Part(h, R[i])] : Q[Part(h, R[i])][k] = R[i]
      BY DEF Arrived
    <3>2. CASE Part(h, R[i]) \in Partitions
      BY <1>5, <3>1, <3>2
    <3>3. CASE Part(h, R[i]) \notin Partitions
      <4>1. P[Part(h, R[i])] = Q[Part(h, R[i])]
        BY <3>3
      <4> QED
        BY <3>1, <4>1
    <3> QED
      BY <3>2, <3>3
  <2>2. \E k \in DOMAIN P[Part(h, e)] : P[Part(h, e)][k] = e
    BY <1>2, <1>4 DEF e
  <2>3. \A x \in H : \E i \in 1..(n + 1) : x = R[i]
    BY <1>1 DEF Arrived
  <2>4. ASSUME NEW i \in 1..(n + 1)
        PROVE  R[i] \in H \/ \E k \in DOMAIN P[Part(h, R[i])] : P[Part(h, R[i])][k] = R[i]
    <3>1. CASE i \in 1..n
      BY <2>1, <3>1
    <3>2. CASE R[i] = e
      BY <2>2, <3>2
    <3> QED
      BY <1>1, <3>1, <3>2 DEF e
  <2> QED
    BY <2>3, <2>4 DEF Arrived
<1>7. ASSUME NEW s \in Partitions, s # p PROVE InOrder(P[s], s, n + 1, H, R, h)
  BY <1>1, <1>3, <1>7 DEF InOrder
<1>8. InOrder(P[p], p, n + 1, H, R, h)
  <2>1. InOrder(q, p, n, H, R, h)
    BY DEF q
  <2>2. \A k \in DOMAIN P[p] : (k \in DOMAIN q /\ P[p][k] = q[k]) \/ (k = N + 1 /\ P[p][k] = e)
    BY <1>2, <1>4
  <2>3. \A k \in DOMAIN P[p] : \E i \in 1..(n + 1) : P[p][k] = R[i] /\ Part(h, R[i]) = p
    <3>1. \A k \in DOMAIN q : \E i \in 1..(n + 1) : q[k] = R[i] /\ Part(h, R[i]) = p
      BY <1>1, <2>1 DEF InOrder
    <3>2. \E i \in 1..(n + 1) : e = R[i] /\ Part(h, R[i]) = p
      BY <1>1 DEF e
    <3> SUFFICES ASSUME NEW k \in DOMAIN P[p] PROVE \E i \in 1..(n + 1) : P[p][k] = R[i] /\ Part(h, R[i]) = p
      OBVIOUS
    <3>3. CASE k \in DOMAIN q /\ P[p][k] = q[k]
      BY <3>1, <3>3
    <3>4. CASE P[p][k] = e
      BY <3>2, <3>4
    <3> QED
      BY <2>2, <3>3, <3>4
  <2>4. \A i \in DOMAIN R : R[i] = e => i = n + 1
    BY <1>1 DEF e
  <2>5. \A k \in DOMAIN q, i \in DOMAIN R : q[k] = R[i] => i < n + 1
    <3> SUFFICES ASSUME NEW k \in DOMAIN q, NEW i \in DOMAIN R, q[k] = R[i] PROVE i < n + 1
      OBVIOUS
    <3>1. PICK m \in 1..n : q[k] = R[m]
      BY <2>1 DEF InOrder
    <3>2. i = m
      BY <1>1, <3>1
    <3> QED
      BY <3>2
  <2>6. \A k, m \in DOMAIN P[p], i, j \in DOMAIN R : k < m /\ P[p][k] = R[i] /\ P[p][m] = R[j] => i < j
    <3> SUFFICES ASSUME NEW k \in DOMAIN P[p], NEW m \in DOMAIN P[p], NEW i \in DOMAIN R, NEW j \in DOMAIN R,
                        k < m, P[p][k] = R[i], P[p][m] = R[j]
                 PROVE  i < j
      OBVIOUS
    <3>1. k \in DOMAIN q /\ P[p][k] = q[k]
      BY <1>2, <1>4, <2>2
    <3>2. CASE m \in DOMAIN q /\ P[p][m] = q[m]
      <4>1. q[k] = R[i] /\ q[m] = R[j]
        BY <3>1, <3>2
      <4> QED
        BY <2>1, <3>1, <3>2, <4>1 DEF InOrder
    <3>3. CASE P[p][m] = e
      BY <2>4, <2>5, <3>1, <3>3
    <3> QED
      BY <2>2, <3>2, <3>3
  <2>7. \A j \in DOMAIN R : R[j] \in H => j < n + 1
    <3> SUFFICES ASSUME NEW j \in DOMAIN R, R[j] \in H PROVE j < n + 1
      OBVIOUS
    <3>1. PICK i \in 1..n : R[j] = R[i]
      BY DEF Arrived
    <3>2. j = i
      BY <1>1, <3>1
    <3> QED
      BY <3>2
  <2>8. \A k \in DOMAIN P[p], i, j \in DOMAIN R : i <= j /\ P[p][k] = R[i] /\ Part(h, R[j]) = p => R[j] \notin H
    <3> SUFFICES ASSUME NEW k \in DOMAIN P[p], NEW i \in DOMAIN R, NEW j \in DOMAIN R,
                        i <= j, P[p][k] = R[i], Part(h, R[j]) = p, R[j] \in H
                 PROVE  FALSE
      OBVIOUS
    <3>1. CASE k \in DOMAIN q /\ P[p][k] = q[k]
      BY <2>1, <3>1 DEF InOrder
    <3>2. CASE P[p][k] = e
      <4>1. i = n + 1 /\ j < n + 1
        BY <2>4, <2>7, <3>2
      <4> QED
        BY <1>1, <4>1
    <3> QED
      BY <2>2, <3>1, <3>2
  <2> QED
    BY <2>3, <2>6, <2>8 DEF InOrder
<1> QED
  BY <1>6, <1>7, <1>8

\* and when the head of one is handled.
LEMMA HandledExtends ==
  ASSUME NEW R \in Seq(Events), \A i, j \in DOMAIN R : R[i] = R[j] => i = j,
         NEW n \in Nat, n <= Len(R), NEW H, NEW h, NEW Q \in [Partitions -> Seq(Events)],
         NEW p \in Partitions, Q[p] # <<>>,
         Arrived(Q, n, H, R, h), \A s \in Partitions : InOrder(Q[s], s, n, H, R, h),
         NEW P, P = [Q EXCEPT ![p] = Tail(Q[p])], NEW G, G = H \cup {Head(Q[p])}
  PROVE  Arrived(P, n, G, R, h) /\ \A s \in Partitions : InOrder(P[s], s, n, G, R, h)
<1> DEFINE q == Q[p]
           e == Head(q)
           N == Len(q)
<1>1. DOMAIN R = 1..Len(R) /\ Len(R) \in Nat /\ \A i \in 1..n : i \in DOMAIN R
  OBVIOUS
<1>2. q \in Seq(Events) /\ N \in Nat /\ DOMAIN q = 1..N /\ 1 \in DOMAIN q /\ q[1] = e
  OBVIOUS
<1>3. P[p] = Tail(q) /\ \A s \in Partitions : s # p => P[s] = Q[s]
  OBVIOUS
<1>4. DOMAIN P[p] = 1..(N - 1) /\ \A k \in DOMAIN P[p] : k + 1 \in DOMAIN q /\ P[p][k] = q[k + 1] /\ 1 < k + 1
  BY <1>2, <1>3
<1> HIDE DEF q, e, N
<1>5. G = H \cup {e} /\ InOrder(q, p, n, H, R, h)
  BY DEF q, e
<1>6. PICK a \in 1..n : e = R[a] /\ Part(h, R[a]) = p
  BY <1>2, <1>5 DEF InOrder
<1>7. a \in DOMAIN R /\ \A j \in DOMAIN R : R[j] = e => j = a
  BY <1>1, <1>6
<1>8. \A k \in DOMAIN q : k # 1 => k - 1 \in DOMAIN P[p] /\ P[p][k - 1] = q[k]
  BY <1>2, <1>4
<1>9. Arrived(P, n, G, R, h)
  <2>1. \A i \in 1..n : R[i] \in G \/ \E k \in DOMAIN P[Part(h, R[i])] : P[Part(h, R[i])][k] = R[i]
    <3> SUFFICES ASSUME NEW i \in 1..n, R[i] \notin G
                 PROVE  \E k \in DOMAIN P[Part(h, R[i])] : P[Part(h, R[i])][k] = R[i]
      OBVIOUS
    <3>1. PICK k \in DOMAIN Q[Part(h, R[i])] : Q[Part(h, R[i])][k] = R[i]
      BY <1>5 DEF Arrived
    <3>2. CASE Part(h, R[i]) = p
      <4>1. k \in DOMAIN q /\ q[k] = R[i] /\ k # 1
        BY <1>2, <1>5, <3>1, <3>2 DEF q
      <4> QED
        BY <1>8, <3>2, <4>1
    <3>3. CASE Part(h, R[i]) # p
      <4>1. P[Part(h, R[i])] = Q[Part(h, R[i])]
        BY <3>3
      <4> QED
        BY <3>1, <4>1
    <3> QED
      BY <3>2, <3>3
  <2>2. \A x \in G : \E i \in 1..n : x = R[i]
    BY <1>5, <1>6 DEF Arrived
  <2> QED
    BY <2>1, <2>2 DEF Arrived
<1>10. ASSUME NEW s \in Partitions, s # p PROVE InOrder(P[s], s, n, G, R, h)
  <2>1. InOrder(Q[s], s, n, H, R, h) /\ P[s] = Q[s]
    BY <1>3, <1>10
  <2>2. \A j \in DOMAIN R : Part(h, R[j]) = s => R[j] # e
    BY <1>6, <1>7, <1>10
  <2>3. \A j \in DOMAIN R : Part(h, R[j]) = s /\ R[j] \in G => R[j] \in H
    BY <1>5, <2>2
  <2> QED
    BY <2>1, <2>3 DEF InOrder
<1>11. InOrder(P[p], p, n, G, R, h)
  <2>1. \A k \in DOMAIN P[p] : \E i \in 1..n : P[p][k] = R[i] /\ Part(h, R[i]) = p
    BY <1>4, <1>5 DEF InOrder
  <2>2. \A k, m \in DOMAIN P[p], i, j \in DOMAIN R : k < m /\ P[p][k] = R[i] /\ P[p][m] = R[j] => i < j
    <3> SUFFICES ASSUME NEW k \in DOMAIN P[p], NEW m \in DOMAIN P[p], NEW i \in DOMAIN R, NEW j \in DOMAIN R,
                        k < m, P[p][k] = R[i], P[p][m] = R[j]
                 PROVE  i < j
      OBVIOUS
    <3>1. k + 1 \in DOMAIN q /\ m + 1 \in DOMAIN q /\ k + 1 < m + 1 /\ q[k + 1] = R[i] /\ q[m + 1] = R[j]
      BY <1>2, <1>4
    <3> QED
      BY <1>5, <3>1 DEF InOrder
  <2>3. \A k \in DOMAIN P[p], i, j \in DOMAIN R : i <= j /\ P[p][k] = R[i] /\ Part(h, R[j]) = p => R[j] \notin G
    <3> SUFFICES ASSUME NEW k \in DOMAIN P[p], NEW i \in DOMAIN R, NEW j \in DOMAIN R,
                        i <= j, P[p][k] = R[i], Part(h, R[j]) = p, R[j] \in G
                 PROVE  FALSE
      OBVIOUS
    <3>1. k + 1 \in DOMAIN q /\ 1 < k + 1 /\ q[k + 1] = R[i]
      BY <1>4
    <3>2. CASE R[j] \in H
      BY <1>5, <3>1, <3>2 DEF InOrder
    <3>3. CASE R[j] = e
      <4>1. j = a /\ q[1] = R[a]
        BY <1>2, <1>6, <1>7, <3>3
      <4>2. a < i
        BY <1>2, <1>5, <1>7, <3>1, <4>1 DEF InOrder
      <4> QED
        BY <1>1, <1>7, <4>1, <4>2
    <3> QED
      BY <1>5, <3>2, <3>3
  <2> QED
    BY <2>1, <2>2, <2>3 DEF InOrder
<1> QED
  BY <1>9, <1>10, <1>11

\* A request sends an event: nobody has seen it before.
LEMMA OrderItems ==
  ASSUME NoneIsDistinct, OrderInv, NEW r \in Requests, handleItems(r)
  PROVE  OrderInv'
<1>0. PICK e, n, T, s : e = Head(posting[r]) /\ n = Len(received) /\ T = Taken /\ s = Tail(posting[r])
  OBVIOUS
<1>1. /\ posting[r] # None /\ posting[r] # <<>> /\ subscriber' = Append(subscriber, e) /\ received' = Append(received, e)
      /\ posting' = [posting EXCEPT ![r] = s]
      /\ UNCHANGED <<groups, producing, hash, mq, handled>>
  BY <1>0 DEF handleItems
<1>2. /\ PipelineTypeOK' /\ PipelineTypeOK /\ subscriber \in Seq(Events) /\ DOMAIN posting = Requests
      /\ received \in Seq(Events)
  BY PipelineStep DEF AuditNext, OrderInv, PipelineTypeOK
<1>3. /\ posting[r] \in Seq(Events) /\ e \in Events /\ s \in Seq(Events)
      /\ 1 \in DOMAIN posting[r] /\ posting[r][1] = e /\ DOMAIN s \subseteq Nat \ {0}
      /\ \A k \in DOMAIN s : k + 1 \in DOMAIN posting[r] /\ s[k] = posting[r][k + 1]
  <2>1. posting[r] \in Seq(Events)
    BY <1>1, <1>2 DEF PipelineTypeOK
  <2> QED
    BY <1>0, <1>1, <2>1
<1>4. n \in Nat /\ DOMAIN received = 1..n /\ T \in 0..n /\ \A g \in groups : Sent(g) \in 0..T
  BY <1>0, CountFacts
<1>5. /\ received' \in Seq(Events) /\ DOMAIN received' = 1..(n + 1) /\ received'[n + 1] = e /\ Len(received') = n + 1
      /\ \A i \in 1..n : received'[i] = received[i]
  BY <1>0, <1>1, <1>2, <1>3
<1>6. Len(subscriber) = n - T /\ Len(subscriber) \in Nat
  BY <1>0, <1>2, <1>4 DEF Taken
<1>7. /\ DOMAIN subscriber = 1..(n - T) /\ DOMAIN subscriber' = 1..(n - T + 1) /\ Len(subscriber') = n - T + 1
      /\ subscriber'[n - T + 1] = e /\ \A k \in 1..(n - T) : subscriber'[k] = subscriber[k]
  BY <1>1, <1>2, <1>3, <1>6
<1>8. Taken' = T /\ Taken = T /\ \A g : Sent(g)' = Sent(g)
  <2>1. Taken' = T
    BY <1>4, <1>5, <1>7 DEF Taken
  <2> QED
    BY <1>0, <1>1, <2>1 DEF Sent
<1>9. ToSend(r) = posting[r] /\ ToSend(r)' = s /\ \A q \in Requests : q # r => ToSend(q)' = ToSend(q)
  BY <1>1, <1>2, <1>3 DEF ToSend, NoneIsDistinct
<1>10. \A i \in DOMAIN received : received[i] # e
  BY <1>3, <1>9 DEF OrderInv, ReceivedOnce
<1>11. ReceivedOnce'
  <2>1. \A i, j \in DOMAIN received' : received'[i] = received'[j] => i = j
    BY <1>4, <1>5, <1>10 DEF OrderInv, ReceivedOnce
  <2>2. \A k, m \in DOMAIN posting[r] : posting[r][k] = posting[r][m] => k = m
    BY <1>9 DEF OrderInv, ReceivedOnce
  <2>3. \A k \in DOMAIN s : s[k] # e
    <3>1. \A k \in DOMAIN s : k + 1 # 1
      BY <1>3
    <3> QED
      BY <1>3, <2>2, <3>1
  <2>4. ASSUME NEW q \in Requests PROVE \A k \in DOMAIN ToSend(q)' : ToSend(q)'[k] # e
    <3>1. q # r => \A k \in DOMAIN ToSend(q) : ToSend(q)[k] # e
      BY <1>3, <1>9 DEF OrderInv, ReceivedOnce
    <3> QED
      BY <1>9, <2>3, <3>1
  <2>5. ASSUME NEW q \in Requests, NEW k \in DOMAIN ToSend(q)'
        PROVE  \E m \in DOMAIN ToSend(q) : ToSend(q)'[k] = ToSend(q)[m]
    BY <1>3, <1>9
  <2>6. ASSUME NEW q \in Requests
        PROVE  /\ ToSend(q)' \in Seq(Events)
               /\ \A k, m \in DOMAIN ToSend(q)' : ToSend(q)'[k] = ToSend(q)'[m] => k = m
    <3>1. CASE q = r
      <4>1. ASSUME NEW k \in DOMAIN s, NEW m \in DOMAIN s, s[k] = s[m] PROVE k = m
        <5>1. k + 1 = m + 1
          BY <1>3, <2>2, <4>1
        <5> QED
          BY <1>3, <5>1
      <4> QED
        BY <1>3, <1>9, <3>1, <4>1
    <3>2. CASE q # r
      BY <1>9, <3>2 DEF OrderInv, ReceivedOnce
    <3> QED
      BY <3>1, <3>2
  <2>7. ASSUME NEW q \in Requests, NEW k \in DOMAIN ToSend(q)', NEW i \in DOMAIN received'
        PROVE  ToSend(q)'[k] # received'[i]
    <3>1. PICK m \in DOMAIN ToSend(q) : ToSend(q)'[k] = ToSend(q)[m]
      BY <2>5
    <3>2. CASE i \in DOMAIN received
      <4>1. ToSend(q)[m] # received[i]
        BY <3>2 DEF OrderInv, ReceivedOnce
      <4> QED
        BY <1>4, <1>5, <3>1, <3>2, <4>1
    <3>3. CASE i = n + 1
      BY <1>5, <2>4, <3>3
    <3> QED
      BY <1>4, <1>5, <3>2, <3>3
  <2>8. ASSUME NEW p \in Requests, NEW q \in Requests, p # q,
               NEW k \in DOMAIN ToSend(p)', NEW m \in DOMAIN ToSend(q)'
        PROVE  ToSend(p)'[k] # ToSend(q)'[m]
    <3>1. PICK a \in DOMAIN ToSend(p) : ToSend(p)'[k] = ToSend(p)[a]
      BY <2>5
    <3>2. PICK b \in DOMAIN ToSend(q) : ToSend(q)'[m] = ToSend(q)[b]
      BY <2>5
    <3> QED
      BY <2>8, <3>1, <3>2 DEF OrderInv, ReceivedOnce
  <2> QED
    BY <2>1, <2>6, <2>7, <2>8 DEF ReceivedOnce
<1>12. ProducedInOrder'
  <2>1. ASSUME NEW k \in DOMAIN subscriber' PROVE subscriber'[k] = received'[T + k]
    <3>1. CASE k \in 1..(n - T)
      <4>1. subscriber[k] = received[T + k] /\ T + k \in 1..n
        BY <1>4, <1>7, <1>8, <3>1 DEF OrderInv, ProducedInOrder
      <4> QED
        BY <1>5, <1>7, <3>1, <4>1
    <3>2. CASE k = n - T + 1
      <4>1. T + k = n + 1
        BY <1>4, <3>2
      <4> QED
        BY <1>5, <1>7, <3>2, <4>1
    <3> QED
      BY <1>4, <1>7, <3>1, <3>2
  <2>2. T >= 1 => received'[T] = received[T]
    BY <1>4, <1>5
  <2>3. ASSUME NEW w \in Workers, producing'[w] # None
        PROVE  /\ T >= 1 /\ producing'[w].event = received'[T]
               /\ producing'[w].partition = Part(hash', received'[T])
    <3>1. T >= 1 /\ producing[w].event = received[T] /\ producing[w].partition = Part(hash, received[T])
      BY <1>1, <1>8, <2>3 DEF OrderInv, ProducedInOrder
    <3> QED
      BY <1>1, <2>2, <3>1
  <2>4. T >= 0
    BY <1>4
  <2> QED
    BY <1>8, <2>1, <2>3, <2>4 DEF ProducedInOrder
<1>13. ASSUME NEW g \in groups
       PROVE  /\ Arrived(mq[g], Sent(g), handled[g], received', hash)
              /\ \A p \in Partitions : InOrder(mq[g][p], p, Sent(g), handled[g], received', hash)
  <2>1. Sent(g) \in Nat /\ Sent(g) <= Len(received)
    BY <1>0, <1>4
  <2>2. /\ Arrived(mq[g], Sent(g), handled[g], received, hash)
        /\ \A p \in Partitions : InOrder(mq[g][p], p, Sent(g), handled[g], received, hash)
    BY DEF OrderInv, QueuedInOrder, SentArrive
  <2> QED
    BY <1>1, <1>2, <1>3, <1>10, <2>1, <2>2, ReceivedExtends
<1>14. QueuedInOrder' /\ SentArrive'
  BY <1>1, <1>8, <1>13 DEF QueuedInOrder, SentArrive
<1>15. handled' \in [groups' -> SUBSET Events]
  BY <1>1 DEF OrderInv
<1> QED
  BY <1>2, <1>5, <1>11, <1>12, <1>14, <1>15 DEF OrderInv

\* The producer takes the next event: it has sent it to no group yet.
LEMMA OrderTake ==
  ASSUME OneProducer, ByObject, NoneIsDistinct, OrderInv, NEW w \in Workers, workerLoop(w)
  PROVE  OrderInv'
<1>0. PICK e, n, T, x : /\ e = Head(subscriber) /\ n = Len(received) /\ T = Taken
                        /\ x = [event |-> e, partition |-> Part(hash, e), left |-> groups]
  OBVIOUS
<1>1. /\ producing[w] = None /\ subscriber # <<>> /\ subscriber' = Tail(subscriber)
      /\ UNCHANGED <<posting, groups, hash, mq, received, handled>>
  BY DEF workerLoop
<1>2. /\ PipelineTypeOK' /\ PipelineTypeOK /\ subscriber \in Seq(Events) /\ DOMAIN producing = Workers
      /\ received \in Seq(Events)
  BY PipelineStep DEF AuditNext, OrderInv, PipelineTypeOK
<1>3. e \in Events /\ PartitionOf(e) = {Part(hash, e)}
  <2>1. e \in Events
    BY <1>0, <1>1, <1>2
  <2> QED
    BY <1>2, <2>1, PartitionsFacts
<1>4. producing' = [producing EXCEPT ![w] = x]
  BY <1>0, <1>3 DEF workerLoop
<1>5. \A v \in Workers : v = w /\ producing'[v] = x /\ producing[v] = None
  BY <1>1, <1>2, <1>4 DEF OneProducer
<1>6. x # None /\ x.event = e /\ x.partition = Part(hash, e) /\ x.left = groups
  BY <1>0 DEF NoneIsDistinct
<1>7. n \in Nat /\ DOMAIN received = 1..n /\ T \in 0..n
  BY <1>0, CountFacts
<1>8. Len(subscriber) = n - T /\ Len(subscriber) \in Nat
  BY <1>0, <1>2, <1>7 DEF Taken
<1>9. /\ DOMAIN subscriber = 1..(n - T) /\ 1 \in DOMAIN subscriber /\ subscriber[1] = e
      /\ Len(subscriber') = n - T - 1 /\ DOMAIN subscriber' = 1..(n - T - 1)
      /\ \A k \in 1..(n - T - 1) : subscriber'[k] = subscriber[k + 1]
  BY <1>0, <1>1, <1>2, <1>8
<1>10. Taken' = T + 1 /\ Taken = T /\ T + 1 \in Nat
  BY <1>0, <1>1, <1>7, <1>9 DEF Taken
<1>11. \A k \in DOMAIN subscriber : subscriber[k] = received[T + k]
  BY <1>10 DEF OrderInv, ProducedInOrder
<1>12. \A g \in groups : Sent(g)' = Sent(g)
  <2> SUFFICES ASSUME NEW g \in groups PROVE Sent(g)' = Sent(g)
    OBVIOUS
  <2>1. Sent(g) = T
    BY <1>5, <1>10 DEF Sent
  <2>2. \E v \in Workers : producing'[v] # None /\ g \in producing'[v].left
    BY <1>5, <1>6
  <2>3. Sent(g)' = Taken' - 1
    BY <2>2 DEF Sent
  <2> QED
    BY <1>7, <1>10, <2>1, <2>3
<1>13. ProducedInOrder'
  <2>1. ASSUME NEW k \in DOMAIN subscriber' PROVE subscriber'[k] = received'[(T + 1) + k]
    <3>0. k \in 1..(n - T - 1) /\ k + 1 \in 1..(n - T)
      BY <1>7, <1>9
    <3>1. k + 1 \in DOMAIN subscriber /\ subscriber'[k] = subscriber[k + 1]
      BY <1>9, <3>0
    <3>a. T + (k + 1) = (T + 1) + k
      BY <1>7, <3>0
    <3>2. subscriber[k + 1] = received[T + (k + 1)]
      BY <1>11, <3>1
    <3> QED
      BY <1>1, <3>1, <3>a, <3>2
  <2>2. e = received[T + 1]
    BY <1>9, <1>11
  <2>3. ASSUME NEW v \in Workers
        PROVE  /\ producing'[v].event = received'[T + 1]
               /\ producing'[v].partition = Part(hash', received'[T + 1])
    BY <1>1, <1>5, <1>6, <2>2
  <2>4. T + 1 >= 1 /\ T + 1 >= 0
    BY <1>7
  <2> QED
    BY <1>10, <2>1, <2>3, <2>4 DEF ProducedInOrder
<1>14. QueuedInOrder' /\ SentArrive'
  BY <1>1, <1>12 DEF OrderInv, QueuedInOrder, SentArrive
<1>15. ReceivedOnce'
  <2>1. \A r \in Requests : ToSend(r)' = ToSend(r)
    BY <1>1 DEF ToSend
  <2> QED
    BY <1>1, <2>1 DEF OrderInv, ReceivedOnce
<1>16. received' \in Seq(Events) /\ handled' \in [groups' -> SUBSET Events]
  BY <1>1 DEF OrderInv
<1> QED
  BY <1>2, <1>13, <1>14, <1>15, <1>16 DEF OrderInv

\* The producer sends its event to one more group.
LEMMA OrderSend ==
  ASSUME OneProducer, ByObject, NoneIsDistinct, OrderInv, NEW w \in Workers, Send(w)
  PROVE  OrderInv'
<1>0. PICK P : P = producing[w]
  OBVIOUS
<1>1. PICK g \in P.left :
        /\ mq' = [mq EXCEPT ![g][P.partition] = Append(mq[g][P.partition], P.event)]
        /\ producing' = [producing EXCEPT ![w] = IF P.left = {g} THEN None
             ELSE [event |-> P.event, partition |-> P.partition, left |-> P.left \ {g}]]
  BY <1>0 DEF Send
<1>2. P # None /\ UNCHANGED <<posting, groups, subscriber, hash, received, handled>>
  BY <1>0 DEF Send
<1>3. /\ PipelineTypeOK' /\ PipelineTypeOK /\ DOMAIN producing = Workers /\ received \in Seq(Events)
      /\ mq \in [groups -> [Partitions -> Seq(Events)]]
  BY PipelineStep DEF AuditNext, OrderInv, PipelineTypeOK
<1>4. P.left \subseteq groups /\ g \in groups /\ P.partition \in Partitions
  BY <1>0, <1>1, <1>2, <1>3 DEF PipelineTypeOK
<1>5. PICK y : y = IF P.left = {g} THEN None
                   ELSE [event |-> P.event, partition |-> P.partition, left |-> P.left \ {g}]
  OBVIOUS
<1>6. y # None => y.event = P.event /\ y.partition = P.partition /\ y.left = P.left \ {g}
  BY <1>5
<1>7. y = None <=> P.left = {g}
  BY <1>5 DEF NoneIsDistinct
<1>8. \A v \in Workers : v = w /\ producing[v] = P /\ producing'[v] = y
  BY <1>0, <1>1, <1>3, <1>5 DEF OneProducer
<1>9. Taken' = Taken /\ Taken >= 1 /\ P.event = received[Taken] /\ P.partition = Part(hash, received[Taken])
  BY <1>0, <1>2 DEF OrderInv, ProducedInOrder, Taken
<1>10. /\ Len(received) \in Nat /\ DOMAIN received = 1..Len(received)
       /\ Taken \in 0..Len(received) /\ \A f \in groups : Sent(f) \in 0..Taken
  BY CountFacts
<1>11. Sent(g) = Taken - 1 /\ Sent(g)' = Sent(g) + 1
  <2>1. \E v \in Workers : producing[v] # None /\ g \in producing[v].left
    BY <1>1, <1>2, <1>8
  <2>2. ~\E v \in Workers : producing'[v] # None /\ g \in producing'[v].left
    BY <1>6, <1>8
  <2>3. Sent(g) = Taken - 1
    BY <2>1 DEF Sent
  <2>4. Sent(g)' = Taken'
    BY <2>2 DEF Sent
  <2> QED
    BY <1>9, <1>10, <2>3, <2>4
<1>12. ASSUME NEW f \in groups, f # g PROVE Sent(f)' = Sent(f)
  <2>1. (\E v \in Workers : producing'[v] # None /\ f \in producing'[v].left)
          <=> (\E v \in Workers : producing[v] # None /\ f \in producing[v].left)
    <3>1. (y # None /\ f \in y.left) <=> f \in P.left
      BY <1>6, <1>7, <1>12
    <3> QED
      BY <1>2, <1>8, <3>1
  <2> QED
    BY <1>9, <2>1 DEF Sent
<1>13. ProducedInOrder'
  <2>1. \A v \in Workers : producing'[v] # None =>
          producing'[v].event = received[Taken] /\ producing'[v].partition = Part(hash, received[Taken])
    BY <1>6, <1>8, <1>9
  <2> QED
    BY <1>2, <1>9, <2>1 DEF OrderInv, ProducedInOrder
<1>14. mq'[g] = [mq[g] EXCEPT ![P.partition] = Append(mq[g][P.partition], P.event)]
  BY <1>1, <1>3, <1>4
<1>15. \A f \in groups : f # g => mq'[f] = mq[f]
  BY <1>1, <1>3
<1>16. /\ Arrived(mq'[g], Sent(g) + 1, handled[g], received, hash)
       /\ \A p \in Partitions : InOrder(mq'[g][p], p, Sent(g) + 1, handled[g], received, hash)
  <2>1. Sent(g) \in Nat /\ Sent(g) + 1 <= Len(received) /\ Sent(g) + 1 = Taken
    BY <1>4, <1>10, <1>11
  <2>2. /\ Arrived(mq[g], Sent(g), handled[g], received, hash)
        /\ \A p \in Partitions : InOrder(mq[g][p], p, Sent(g), handled[g], received, hash)
    BY <1>4 DEF OrderInv, QueuedInOrder, SentArrive
  <2>3. mq[g] \in [Partitions -> Seq(Events)]
    BY <1>3, <1>4
  <2>4. \A i, j \in DOMAIN received : received[i] = received[j] => i = j
    BY DEF OrderInv, ReceivedOnce
  <2>5. /\ Part(hash, received[Sent(g) + 1]) = P.partition
        /\ mq'[g] = [mq[g] EXCEPT ![P.partition] = Append(mq[g][P.partition], received[Sent(g) + 1])]
    BY <1>9, <1>14, <2>1
  <2>6. PICK N, Q, A, H : N = Sent(g) /\ Q = mq[g] /\ A = mq'[g] /\ H = handled[g]
    OBVIOUS
  <2>7. /\ N \in Nat /\ N + 1 <= Len(received) /\ Q \in [Partitions -> Seq(Events)]
        /\ Part(hash, received[N + 1]) = P.partition
        /\ Arrived(Q, N, H, received, hash) /\ \A p \in Partitions : InOrder(Q[p], p, N, H, received, hash)
        /\ A = [Q EXCEPT ![P.partition] = Append(Q[P.partition], received[N + 1])]
    BY <2>1, <2>2, <2>3, <2>5, <2>6
  <2>8. Arrived(A, N + 1, H, received, hash) /\ \A p \in Partitions : InOrder(A[p], p, N + 1, H, received, hash)
    BY <1>3, <1>4, <2>4, <2>7, SentExtends
  <2> QED
    BY <2>6, <2>8
<1>17. ASSUME NEW f \in groups
       PROVE  /\ Arrived(mq'[f], Sent(f)', handled[f], received, hash)
              /\ \A p \in Partitions : InOrder(mq'[f][p], p, Sent(f)', handled[f], received, hash)
  <2>1. CASE f = g
    <3>1. Sent(f)' = Sent(g) + 1
      BY <1>11, <2>1
    <3> QED
      BY <1>16, <2>1, <3>1
  <2>2. CASE f # g
    BY <1>12, <1>15, <2>2 DEF OrderInv, QueuedInOrder, SentArrive
  <2> QED
    BY <2>1, <2>2
<1>18. QueuedInOrder' /\ SentArrive'
  BY <1>2, <1>17 DEF QueuedInOrder, SentArrive
<1>19. ReceivedOnce'
  <2>1. \A r \in Requests : ToSend(r)' = ToSend(r)
    BY <1>2 DEF ToSend
  <2> QED
    BY <1>2, <2>1 DEF OrderInv, ReceivedOnce
<1>20. received' \in Seq(Events) /\ handled' \in [groups' -> SUBSET Events]
  BY <1>2 DEF OrderInv
<1> QED
  BY <1>3, <1>13, <1>18, <1>19, <1>20 DEF OrderInv

\* The goroutine of a partition handles its first event.
LEMMA OrderReceive ==
  ASSUME OrderInv, NEW g \in groups, NEW p \in Partitions, Receive(g, p)
  PROVE  OrderInv'
<1>0. PICK N, Q, H, A, G : N = Sent(g) /\ Q = mq[g] /\ H = handled[g] /\ A = mq'[g] /\ G = handled'[g]
  OBVIOUS
<1>1. /\ mq[g][p] # <<>> /\ mq' = [mq EXCEPT ![g][p] = Tail(mq[g][p])]
      /\ handled' = [handled EXCEPT ![g] = handled[g] \cup {Head(mq[g][p])}]
      /\ UNCHANGED <<posting, groups, subscriber, producing, hash, received>>
  BY DEF Receive
<1>2. /\ PipelineTypeOK' /\ received \in Seq(Events) /\ mq \in [groups -> [Partitions -> Seq(Events)]]
      /\ handled \in [groups -> SUBSET Events] /\ Head(mq[g][p]) \in Events
  BY ReceiveFacts DEF OrderInv, PipelineTypeOK
<1>3. A = [Q EXCEPT ![p] = Tail(Q[p])] /\ G = H \cup {Head(Q[p])} /\ Q \in [Partitions -> Seq(Events)] /\ Q[p] # <<>>
  BY <1>0, <1>1, <1>2
<1>4. \A f \in groups : f # g => mq'[f] = mq[f] /\ handled'[f] = handled[f]
  BY <1>1, <1>2
<1>5. \A f \in groups : Sent(f)' = Sent(f)
  BY <1>1 DEF Sent, Taken
<1>6. N \in Nat /\ N <= Len(received)
  <2>1. Len(received) \in Nat /\ Taken \in 0..Len(received) /\ N \in 0..Taken
    BY <1>0, CountFacts
  <2> QED
    BY <2>1
<1>7. Arrived(Q, N, H, received, hash) /\ \A s \in Partitions : InOrder(Q[s], s, N, H, received, hash)
  BY <1>0 DEF OrderInv, QueuedInOrder, SentArrive
<1>8. \A i, j \in DOMAIN received : received[i] = received[j] => i = j
  BY DEF OrderInv, ReceivedOnce
<1>9. Arrived(A, N, G, received, hash) /\ \A s \in Partitions : InOrder(A[s], s, N, G, received, hash)
  BY <1>2, <1>3, <1>6, <1>7, <1>8, HandledExtends
<1>10. ASSUME NEW f \in groups
       PROVE  /\ Arrived(mq'[f], Sent(f), handled'[f], received, hash)
              /\ \A s \in Partitions : InOrder(mq'[f][s], s, Sent(f), handled'[f], received, hash)
  <2>1. CASE f = g
    BY <1>0, <1>9, <2>1
  <2>2. CASE f # g
    BY <1>4, <2>2 DEF OrderInv, QueuedInOrder, SentArrive
  <2> QED
    BY <2>1, <2>2
<1>11. QueuedInOrder' /\ SentArrive'
  BY <1>1, <1>5, <1>10 DEF QueuedInOrder, SentArrive
<1>12. ReceivedOnce'
  <2>1. \A r \in Requests : ToSend(r)' = ToSend(r)
    BY <1>1 DEF ToSend
  <2> QED
    BY <1>1, <2>1 DEF OrderInv, ReceivedOnce
<1>13. ProducedInOrder'
  BY <1>1 DEF OrderInv, ProducedInOrder, Taken
<1>14. received' \in Seq(Events) /\ handled' \in [groups' -> SUBSET Events]
  BY <1>1, <1>2
<1> QED
  BY <1>2, <1>11, <1>12, <1>13, <1>14 DEF OrderInv

LEMMA OrderStep ==
  ASSUME OneProducer, ByObject, NoneIsDistinct, OrderInv, [Next]_vars
  PROVE  OrderInv'
<1>1. ASSUME UNCHANGED <<posting, groups, subscriber, producing, hash, mq, received, handled>> PROVE OrderInv'
  <2>1. PipelineTypeOK'
    BY <1>1 DEF OrderInv, PipelineTypeOK
  <2>2. \A r \in Requests : ToSend(r)' = ToSend(r)
    BY <1>1 DEF ToSend
  <2>3. ReceivedOnce'
    BY <1>1, <2>2 DEF OrderInv, ReceivedOnce
  <2>4. ProducedInOrder' /\ QueuedInOrder' /\ SentArrive'
    BY <1>1 DEF OrderInv, ProducedInOrder, QueuedInOrder, SentArrive, Taken, Sent
  <2> QED
    BY <1>1, <2>1, <2>3, <2>4 DEF OrderInv
<1>2. CASE AuditNext
  <2>1. ASSUME setConfig PROVE OrderInv'
    BY <1>1, <2>1 DEF setConfig
  <2> QED
    BY <1>2, <2>1, OrderRequest, OrderItems, OrderTake, OrderSend DEF AuditNext
<1>3. CASE UNCHANGED auditVars
  BY <1>1, <1>3 DEF auditVars
<1>4. ASSUME NEW p \in Partitions, handleMessage(p) \/ handleMetrics(p) PROVE OrderInv'
  <2>1. \E g \in groups : Receive(g, p)
    BY <1>4 DEF handleMessage, handleMetrics
  <2> QED
    BY <2>1, OrderReceive
<1> QED
  BY <1>2, <1>3, <1>4 DEF Next, vars

\* local.go, "partition events of the same object to the same worker": with one
\* producer worker and events partitioned by object or by cluster, every group
\* handles the events of an object in the order in which the webhook took them,
\* for every number of requests, events, partitions and groups, and whatever
\* the hash function.  Events are sent once each.
THEOREM ObjectsAreOrdered ==
  ASSUME OneProducer, ByObject, DistinctEvents, NoneIsDistinct
  PROVE  Spec => []OrderPerObject
<1>1. Init => OrderInv
  BY OrderInit
<1>2. OrderInv /\ [Next]_vars => OrderInv'
  BY OrderStep
<1>3. OrderInv => OrderPerObject
  BY OrderFollows
<1> QED
  BY <1>1, <1>2, <1>3, PTL DEF Spec

-----------------------------------------------------------------------------
(* The metrics say what the configuration says *)

\* A set of numbers that is not empty has a first one.
LEMMA FirstNumber ==
  ASSUME NEW T \in SUBSET Nat, T # {}
  PROVE  \E x \in T : \A y \in T : x <= y
<1> DEFINE R == OpToRel(<, Nat)
<1>1. \A x, y \in Nat : <<x, y>> \in R <=> x < y
  BY DEF OpToRel
<1>2. IsWellFoundedOn(R, Nat)
  BY NatLessThanWellFounded, Zenon
<1> HIDE DEF R
<1>3. PICK x \in T : \A y \in T : ~(<<y, x>> \in R)
  BY <1>2, WFMin, Zenon
<1>4. ASSUME NEW y \in T PROVE x <= y
  <2>1. x \in Nat /\ y \in Nat /\ ~(<<y, x>> \in R)
    BY <1>3
  <2>2. ~(y < x)
    BY <1>1, <2>1
  <2> QED
    BY <2>1, <2>2
<1> QED
  BY <1>4

\* A set of positions that is not empty has a last one.
LEMMA LastPosition ==
  ASSUME NEW n \in Nat, NEW S \in SUBSET (1..n), S # {}
  PROVE  Max(S) \in S
<1> DEFINE T == {n - x : x \in S}
<1>1. \A x \in S : x \in Nat /\ n - x \in Nat
  OBVIOUS
<1>2. T \in SUBSET Nat /\ T # {}
  BY <1>1
<1>3. PICK t \in T : \A y \in T : t <= y
  <2> HIDE DEF T
  <2> QED
    BY <1>2, FirstNumber
<1>4. PICK x \in S : t = n - x
  OBVIOUS
<1>5. ASSUME NEW y \in S PROVE x >= y
  <2>1. n - y \in T /\ n - y \in Nat /\ t \in Nat
    BY <1>1, <1>2
  <2>2. t <= n - y
    BY <1>3, <2>1
  <2> QED
    BY <1>1, <1>4, <2>1, <2>2
<1>6. \E m \in S : \A y \in S : m >= y
  BY <1>5
<1> QED
  BY <1>6 DEF Max

\* A sequence that lists a finite set lists all of it.
LEMMA ListsAll ==
  ASSUME NEW S, IsFiniteSet(S), NEW f \in SetToSeqs(S)
  PROVE  /\ f \in Seq(S) /\ Len(f) \in Nat /\ DOMAIN f = 1..Len(f)
         /\ \A x \in S : \E i \in 1..Len(f) : f[i] = x
<1>1. PICK n \in Nat : n = Cardinality(S)
  BY FS_CardinalityType
<1>2. f \in [1..n -> S] /\ \A i, j \in 1..n : i # j => f[i] # f[j]
  BY <1>1 DEF SetToSeqs
<1>3. f \in Injection(1..n, S)
  BY <1>2 DEF Injection, IsInjective
<1>4. Cardinality(1..n) = n
  <2>1. Cardinality(1..n) = IF 1 > n THEN 0 ELSE n - 1 + 1
    BY FS_Interval
  <2> QED
    BY <2>1
<1>5. f \in Surjection(1..n, S)
  BY <1>1, <1>3, <1>4, FS_Injection
<1>6. \A x \in S : \E i \in 1..n : f[i] = x
  BY <1>5 DEF Surjection
<1>7. f \in Seq(S) /\ Len(f) = n
  BY <1>2
<1> QED
  BY <1>2, <1>6, <1>7

\* The loop of indexTagProviders: the values of tagNames.
NamesUpTo(order, k, g) ==
  /\ g \in [0..k -> Seq(TagNames)] /\ g[0] = <<>>
  /\ \A n \in 1..k : g[n] = g[n - 1] \o TagProviders[order[n]]

Orders == Seq(DOMAIN TagProviders)

LEMMA ProviderTypes ==
  ASSUME NEW order \in Orders
  PROVE  /\ Len(order) \in Nat /\ DOMAIN order = 1..Len(order)
         /\ \A n \in 1..Len(order) : order[n] \in DOMAIN TagProviders /\ TagProviders[order[n]] \in Seq(TagNames)
  BY KelemetrixAssumption DEF Orders

LEMMA NamesExist ==
  ASSUME NEW order \in Orders
  PROVE  \E g : NamesUpTo(order, Len(order), g)
<1> DEFINE T == {k \in 0..Len(order) : ~\E g : NamesUpTo(order, k, g)}
<1>0. Len(order) \in Nat /\ \A n \in 1..Len(order) : TagProviders[order[n]] \in Seq(TagNames)
  BY ProviderTypes
<1>1. SUFFICES ASSUME T # {} PROVE FALSE
  <2>1. Len(order) \in 0..Len(order)
    BY <1>0
  <2> QED
    BY <2>1
<1>2. T \in SUBSET Nat
  BY <1>0
<1>3. PICK k \in T : \A y \in T : k <= y
  <2> HIDE DEF T
  <2> QED
    BY <1>1, <1>2, FirstNumber
<1>4. k \in Nat /\ k <= Len(order)
  BY <1>0
<1>5. CASE k = 0
  <2>1. NamesUpTo(order, 0, [n \in 0..0 |-> <<>>])
    BY DEF NamesUpTo
  <2> QED
    BY <1>5, <2>1
<1>6. CASE k # 0
  <2>1. k - 1 \in Nat /\ k - 1 \in 0..Len(order) /\ k - 1 < k /\ k \in 1..Len(order)
    BY <1>0, <1>4, <1>6
  <2>2. k - 1 \notin T
    BY <1>3, <1>4, <2>1
  <2>3. PICK g : NamesUpTo(order, k - 1, g)
    BY <2>1, <2>2
  <2> DEFINE h == [n \in 0..k |-> IF n = k THEN g[k - 1] \o TagProviders[order[k]] ELSE g[n]]
  <2>4. g \in [0..(k - 1) -> Seq(TagNames)] /\ g[0] = <<>> /\ \A n \in 1..(k - 1) : g[n] = g[n - 1] \o TagProviders[order[n]]
    BY <2>3 DEF NamesUpTo
  <2>5. g[k - 1] \o TagProviders[order[k]] \in Seq(TagNames)
    <3>1. g[k - 1] \in Seq(TagNames)
      BY <2>1, <2>4
    <3>2. TagProviders[order[k]] \in Seq(TagNames)
      BY <1>0, <2>1
    <3> QED
      BY <3>1, <3>2
  <2>6. \A n \in 0..k : n # k => n \in 0..(k - 1)
    BY <1>4
  <2>7. h \in [0..k -> Seq(TagNames)] /\ h[0] = <<>>
    BY <1>4, <1>6, <2>4, <2>5, <2>6
  <2>8. ASSUME NEW n \in 1..k PROVE h[n] = h[n - 1] \o TagProviders[order[n]]
    <3>1. n \in 0..k /\ n - 1 \in 0..k /\ n - 1 # k
      BY <1>4
    <3>2. CASE n = k
      BY <3>1, <3>2
    <3>3. CASE n # k
      <4>1. n \in 1..(k - 1)
        BY <1>4, <3>3
      <4> QED
        BY <2>4, <3>1, <3>3, <4>1
    <3> QED
      BY <3>2, <3>3
  <2> HIDE DEF h
  <2>9. NamesUpTo(order, k, h)
    BY <2>7, <2>8 DEF NamesUpTo
  <2> QED
    BY <2>9
<1> QED
  BY <1>5, <1>6

LEMMA NamesSound ==
  ASSUME NEW order \in Orders
  PROVE  NamesUpTo(order, Len(order), AppendedNames(order))
<1> DEFINE body(g) == [n \in 0..Len(order) |-> IF n = 0 THEN <<>> ELSE g[n - 1] \o TagProviders[order[n]]]
<1>0. Len(order) \in Nat
  BY ProviderTypes
<1>1. PICK g : NamesUpTo(order, Len(order), g)
  BY NamesExist
<1>2. g = body(g)
  <2>1. g = [n \in 0..Len(order) |-> g[n]]
    BY <1>1 DEF NamesUpTo
  <2>2. \A n \in 0..Len(order) : g[n] = IF n = 0 THEN <<>> ELSE g[n - 1] \o TagProviders[order[n]]
    <3>1. \A n \in 0..Len(order) : n = 0 \/ n \in 1..Len(order)
      BY <1>0
    <3> QED
      BY <1>1, <3>1 DEF NamesUpTo
  <2> QED
    BY <2>1, <2>2
<1>3. AppendedNames(order) = CHOOSE t : t = body(t)
  BY DEF AppendedNames
<1>4. AppendedNames(order) = body(AppendedNames(order))
  <2> HIDE DEF body
  <2> QED
    BY <1>2, <1>3
<1>5. PICK t : t = AppendedNames(order) /\ t = body(t)
  <2> HIDE DEF body
  <2> QED
    BY <1>4
<1>6. DOMAIN t = 0..Len(order) /\ \A n \in 0..Len(order) : t[n] = IF n = 0 THEN <<>> ELSE t[n - 1] \o TagProviders[order[n]]
  BY <1>5
<1>7. t[0] = <<>> /\ \A n \in 1..Len(order) : t[n] = t[n - 1] \o TagProviders[order[n]]
  BY <1>0, <1>6
<1>8. \A n \in 0..Len(order) : t[n] \in Seq(TagNames)
  <2> DEFINE K == {n \in 0..Len(order) : t[n] \notin Seq(TagNames)}
  <2>1. SUFFICES ASSUME K # {} PROVE FALSE
    OBVIOUS
  <2>2. K \in SUBSET Nat
    BY <1>0
  <2>3. PICK k \in K : \A y \in K : k <= y
    <3> HIDE DEF K
    <3> QED
      BY <2>1, <2>2, FirstNumber
  <2>4. k \in Nat /\ k # 0 /\ k \in 1..Len(order)
    <3>1. k \in Nat /\ k <= Len(order)
      BY <1>0
    <3>2. k # 0
      <4>1. <<>> \in Seq(TagNames) /\ t[k] \notin Seq(TagNames)
        OBVIOUS
      <4> QED
        BY <1>7, <4>1
    <3> QED
      BY <1>0, <3>1, <3>2
  <2>5. k - 1 \in 0..Len(order) /\ ~(k <= k - 1)
    BY <1>0, <2>4
  <2>6. t[k - 1] \in Seq(TagNames)
    BY <2>3, <2>5
  <2>7. TagProviders[order[k]] \in Seq(TagNames)
    BY <2>4, ProviderTypes
  <2>8. t[k - 1] \o TagProviders[order[k]] \in Seq(TagNames)
    BY <2>6, <2>7
  <2> QED
    BY <1>7, <2>4, <2>8
<1>9. t \in [0..Len(order) -> Seq(TagNames)]
  BY <1>5, <1>6, <1>8
<1> QED
  BY <1>5, <1>7, <1>9 DEF NamesUpTo

\* The names of a provider stay where they are appended, and every position is of
\* some provider.
Sliced(order, g, k) ==
  /\ \A i \in 1..k : \A j \in 1..Len(TagProviders[order[i]]) :
       /\ Len(g[i - 1]) \in Nat /\ Len(g[i - 1]) + j \in 1..Len(g[k])
       /\ g[k][Len(g[i - 1]) + j] = TagProviders[order[i]][j]
  /\ \A x \in 1..Len(g[k]) : \E i \in 1..k : \E j \in 1..Len(TagProviders[order[i]]) : x = Len(g[i - 1]) + j

LEMMA Slices ==
  ASSUME NEW order \in Orders, NEW g, NamesUpTo(order, Len(order), g), NEW k \in 0..Len(order)
  PROVE  Sliced(order, g, k)
<1> DEFINE names(i) == TagProviders[order[i]]
           Kept(n) == \A i \in 1..n : \A j \in 1..Len(names(i)) :
                        /\ Len(g[i - 1]) \in Nat /\ Len(g[i - 1]) + j \in 1..Len(g[n])
                        /\ g[n][Len(g[i - 1]) + j] = names(i)[j]
           Covered(n) == \A x \in 1..Len(g[n]) : \E i \in 1..n : \E j \in 1..Len(names(i)) : x = Len(g[i - 1]) + j
           K == {n \in 0..Len(order) : ~(Kept(n) /\ Covered(n))}
<1>0. Len(order) \in Nat /\ \A n \in 1..Len(order) : names(n) \in Seq(TagNames)
  BY ProviderTypes
<1>1. /\ \A n \in 0..Len(order) : g[n] \in Seq(TagNames)
      /\ g[0] = <<>> /\ \A n \in 1..Len(order) : g[n] = g[n - 1] \o names(n)
  BY DEF NamesUpTo
<1>2. \A n \in 0..Len(order) : Len(g[n]) \in Nat
  BY <1>1
<1>3. SUFFICES ASSUME K # {} PROVE FALSE
  BY DEF Sliced
<1>4. K \in SUBSET Nat
  BY <1>0
<1>5. PICK n \in K : \A y \in K : n <= y
  <2> HIDE DEF K
  <2> QED
    BY <1>3, <1>4, FirstNumber
<1>6. n \in Nat /\ n \in 0..Len(order) /\ ~(Kept(n) /\ Covered(n))
  BY <1>0
<1>7. CASE n = 0
  <2>1. Len(g[0]) = 0
    BY <1>1
  <2>2. Kept(0) /\ Covered(0)
    BY <2>1
  <2> HIDE DEF Kept, Covered
  <2> QED
    BY <1>6, <1>7, <2>2
<1>8. CASE n # 0
  <2>1. n - 1 \in 0..Len(order) /\ ~(n <= n - 1) /\ n \in 1..Len(order) /\ n - 1 \in Nat
    BY <1>0, <1>6, <1>8
  <2>2. Kept(n - 1) /\ Covered(n - 1)
    <3> HIDE DEF Kept, Covered
    <3> QED
      BY <1>5, <2>1
  <2>3. PICK a \in Seq(TagNames) : a = g[n - 1]
    BY <1>1, <2>1
  <2>4. PICK b \in Seq(TagNames) : b = names(n)
    BY <1>0, <2>1
  <2>5. g[n] = a \o b
    BY <1>1, <2>1, <2>3, <2>4
  <2>6. /\ Len(a) \in Nat /\ Len(b) \in Nat /\ Len(g[n]) = Len(a) + Len(b)
        /\ \A x \in 1..Len(a) : g[n][x] = a[x]
        /\ \A j \in 1..Len(b) : g[n][Len(a) + j] = b[j]
    <3>1. Len(a \o b) = Len(a) + Len(b) /\ Len(a) \in Nat /\ Len(b) \in Nat
      OBVIOUS
    <3>2. \A x \in 1..Len(a) : (a \o b)[x] = a[x]
      BY <3>1
    <3>3. \A j \in 1..Len(b) : (a \o b)[Len(a) + j] = b[j]
      BY <3>1
    <3> QED
      BY <2>5, <3>1, <3>2, <3>3
  <2>7. Kept(n)
    <3> SUFFICES ASSUME NEW i \in 1..n, NEW j \in 1..Len(names(i))
                 PROVE  /\ Len(g[i - 1]) \in Nat /\ Len(g[i - 1]) + j \in 1..Len(g[n])
                        /\ g[n][Len(g[i - 1]) + j] = names(i)[j]
      OBVIOUS
    <3> HIDE DEF names
    <3>1. CASE i = n
      <4>1. j \in 1..Len(b) /\ g[i - 1] = a /\ names(i) = b
        BY <2>3, <2>4, <3>1
      <4>2. Len(a) + j \in 1..Len(g[n])
        BY <2>6, <4>1
      <4> QED
        BY <2>6, <4>1, <4>2
    <3>2. CASE i # n
      <4>1. i \in 1..(n - 1)
        BY <1>6, <3>2
      <4>2. Len(g[i - 1]) \in Nat /\ Len(g[i - 1]) + j \in 1..Len(a) /\ a[Len(g[i - 1]) + j] = names(i)[j]
        BY <2>2, <2>3, <4>1
      <4>3. PICK x : x = Len(g[i - 1]) + j
        OBVIOUS
      <4>4. x \in 1..Len(a) /\ x \in 1..Len(g[n])
        BY <2>6, <4>2, <4>3
      <4> QED
        BY <2>6, <4>2, <4>3, <4>4
    <3> QED
      BY <3>1, <3>2
  <2>8. Covered(n)
    <3> SUFFICES ASSUME NEW x \in 1..Len(g[n])
                 PROVE  \E i \in 1..n : \E j \in 1..Len(names(i)) : x = Len(g[i - 1]) + j
      OBVIOUS
    <3> HIDE DEF names
    <3>1. CASE x <= Len(a)
      <4>1. x \in 1..Len(g[n - 1])
        BY <2>3, <2>6, <3>1
      <4>2. PICK i \in 1..(n - 1) : \E j \in 1..Len(names(i)) : x = Len(g[i - 1]) + j
        BY <2>2, <4>1
      <4>3. i \in 1..n
        BY <1>6
      <4> QED
        BY <4>2, <4>3
    <3>2. CASE x > Len(a)
      <4>1. PICK j \in 1..Len(b) : x = Len(a) + j
        <5>1. x - Len(a) \in 1..Len(b) /\ x = Len(a) + (x - Len(a))
          BY <2>6, <3>2
        <5> QED
          BY <5>1
      <4>2. n \in 1..n
        BY <1>6, <1>8
      <4> QED
        BY <2>3, <2>4, <4>1, <4>2
    <3> QED
      BY <2>6, <3>1, <3>2
  <2> HIDE DEF Kept, Covered
  <2> QED
    BY <1>6, <2>7, <2>8
<1> QED
  BY <1>7, <1>8

RequiredProviders == {TagProviderNameIndex[t] : t \in RequiredTags}

\* The provider that a tag is taken from has it.
LEMMA ProviderOfTag ==
  ASSUME NEW t \in TagNames
  PROVE  /\ TagProviderNameIndex[t] \in DOMAIN TagProviders
         /\ t \in Range(TagProviders[TagProviderNameIndex[t]])
<1> DEFINE S == {i \in DOMAIN TagProviders : t \in Range(TagProviders[i])}
<1>1. PICK n \in Nat : n = Len(TagProviders) /\ DOMAIN TagProviders = 1..n
  BY KelemetrixAssumption
<1>2. S \in SUBSET (1..n) /\ S # {}
  BY <1>1 DEF TagNames
<1>3. Max(S) \in S
  <2> HIDE DEF S
  <2> QED
    BY <1>2, LastPosition
<1>4. TagProviderNameIndex[t] = Max(S)
  BY DEF TagProviderNameIndex
<1> QED
  BY <1>3, <1>4

LEMMA OrderOfProviders ==
  ASSUME RequiredTags \subseteq TagNames, NEW order \in SetToSeqs(RequiredProviders)
  PROVE  /\ order \in Orders
         /\ \A t \in RequiredTags : \E i \in 1..Len(order) : t \in Range(TagProviders[order[i]])
<1>1. PICK n \in Nat : n = Len(TagProviders) /\ DOMAIN TagProviders = 1..n
  BY KelemetrixAssumption
<1>2. RequiredProviders \subseteq 1..n
  BY <1>1, ProviderOfTag DEF RequiredProviders
<1>3. IsFiniteSet(1..n)
  BY FS_Interval
<1>4. IsFiniteSet(RequiredProviders)
  BY <1>2, <1>3, FS_Subset
<1>5. order \in Seq(RequiredProviders) /\ \A x \in RequiredProviders : \E i \in 1..Len(order) : order[i] = x
  BY <1>4, ListsAll
<1>6. order \in Orders
  <2>1. Len(order) \in Nat /\ order \in [1..Len(order) -> RequiredProviders]
    BY <1>5
  <2>2. order \in [1..Len(order) -> DOMAIN TagProviders]
    BY <1>1, <1>2, <2>1
  <2> QED
    BY <2>1, <2>2 DEF Orders
<1>7. ASSUME NEW t \in RequiredTags PROVE \E i \in 1..Len(order) : t \in Range(TagProviders[order[i]])
  <2>1. TagProviderNameIndex[t] \in RequiredProviders
    BY DEF RequiredProviders
  <2>2. PICK i \in 1..Len(order) : order[i] = TagProviderNameIndex[t]
    BY <1>5, <2>1
  <2> QED
    BY <2>2, ProviderOfTag
<1> QED
  BY <1>6, <1>7

\* Every tag that the configuration names has an index, at which tagNames has it.
LEMMA TagIndex ==
  ASSUME RequiredTags \subseteq TagNames, NEW order \in SetToSeqs(RequiredProviders),
         NEW ix, ix = indexTagProviders(order), NEW t \in RequiredTags
  PROVE  ix.nameToIndex[t] \in DOMAIN ix.names /\ ix.names[ix.nameToIndex[t]] = t
<1>1. order \in Orders /\ \A u \in RequiredTags : \E i \in 1..Len(order) : u \in Range(TagProviders[order[i]])
  BY OrderOfProviders
<1>2. PICK g : g = AppendedNames(order)
  OBVIOUS
<1>3. NamesUpTo(order, Len(order), g)
  BY <1>1, <1>2, NamesSound
<1>4. Len(order) \in Nat /\ Len(order) \in 0..Len(order)
  BY <1>1, ProviderTypes
<1>5. PICK names \in Seq(TagNames) : names = g[Len(order)]
  BY <1>3, <1>4 DEF NamesUpTo
<1>6. PICK i \in 1..Len(order) : t \in Range(TagProviders[order[i]])
  BY <1>1
<1>7. TagProviders[order[i]] \in Seq(TagNames)
  BY <1>1, <1>6, ProviderTypes
<1>8. PICK j \in 1..Len(TagProviders[order[i]]) : TagProviders[order[i]][j] = t
  BY <1>6, <1>7 DEF Range
<1>9. Len(g[i - 1]) + j \in 1..Len(names) /\ names[Len(g[i - 1]) + j] = t
  <2>1. \A a \in 1..Len(order) : \A b \in 1..Len(TagProviders[order[a]]) :
          /\ Len(g[a - 1]) + b \in 1..Len(g[Len(order)])
          /\ g[Len(order)][Len(g[a - 1]) + b] = TagProviders[order[a]][b]
    <3>1. Sliced(order, g, Len(order))
      BY <1>1, <1>3, <1>4, Slices, Zenon
    <3> QED
      BY <3>1 DEF Sliced
  <2> QED
    BY <1>5, <1>6, <1>8, <2>1
<1>10. PICK n \in Nat : n = Len(names) /\ DOMAIN names = 1..n
  BY <1>5
<1> DEFINE S == {k \in DOMAIN names : names[k] = t}
<1>11. S \in SUBSET (1..n) /\ S # {}
  BY <1>9, <1>10
<1>12. Max(S) \in S
  <2> HIDE DEF S
  <2> QED
    BY <1>11, LastPosition
<1>13. t \in Range(names)
  BY <1>9, <1>10 DEF Range
<1>14. ix.names = names /\ ix.nameToIndex = [u \in Range(names) |-> Max({k \in DOMAIN names : names[k] = u})]
  BY <1>2, <1>5 DEF indexTagProviders
<1> QED
  BY <1>12, <1>13, <1>14

\* Whatever provider's slice a position is in, the provider has the name of the
\* position there: slices do not overlap.
LEMMA SliceIsNamed ==
  ASSUME NEW order \in Orders, NEW ix, ix = indexTagProviders(order), NEW k \in DOMAIN ix.names
  PROVE  /\ \E x \in Range(ix.providers) : x.startIndex < k /\ k <= x.endIndex
         /\ \A x \in Range(ix.providers) : x.startIndex < k /\ k <= x.endIndex =>
              TagProviders[x.provider][k - x.startIndex] = ix.names[k]
<1>1. PICK g : g = AppendedNames(order)
  OBVIOUS
<1>2. NamesUpTo(order, Len(order), g)
  BY <1>1, NamesSound
<1>3. /\ Len(order) \in Nat /\ Len(order) \in 0..Len(order) /\ DOMAIN order = 1..Len(order)
      /\ \A n \in 1..Len(order) : TagProviders[order[n]] \in Seq(TagNames)
  BY ProviderTypes
<1>4. PICK names \in Seq(TagNames) : names = g[Len(order)]
  BY <1>2, <1>3 DEF NamesUpTo
<1> DEFINE X(i) == [provider |-> order[i], startIndex |-> Len(g[i - 1]),
                    endIndex |-> Len(g[i - 1]) + Len(TagProviders[order[i]])]
<1>5. ix.names = names /\ ix.providers = [i \in DOMAIN order |-> X(i)]
  BY <1>1, <1>4 DEF indexTagProviders
<1>6. Range(ix.providers) = {X(i) : i \in 1..Len(order)}
  <2> HIDE DEF X
  <2>1. DOMAIN ix.providers = 1..Len(order) /\ \A i \in 1..Len(order) : ix.providers[i] = X(i)
    BY <1>3, <1>5
  <2> QED
    BY <2>1 DEF Range
<1>7. k \in 1..Len(names) /\ k \in Nat
  BY <1>4, <1>5
<1>8. /\ \A i \in 1..Len(order) : \A j \in 1..Len(TagProviders[order[i]]) :
           /\ Len(g[i - 1]) \in Nat /\ Len(g[i - 1]) + j \in 1..Len(names)
           /\ names[Len(g[i - 1]) + j] = TagProviders[order[i]][j]
      /\ \A y \in 1..Len(names) : \E i \in 1..Len(order) : \E j \in 1..Len(TagProviders[order[i]]) : y = Len(g[i - 1]) + j
  <2>1. /\ \A i \in 1..Len(order) : \A j \in 1..Len(TagProviders[order[i]]) :
             /\ Len(g[i - 1]) \in Nat /\ Len(g[i - 1]) + j \in 1..Len(g[Len(order)])
             /\ g[Len(order)][Len(g[i - 1]) + j] = TagProviders[order[i]][j]
        /\ \A y \in 1..Len(g[Len(order)]) :
             \E i \in 1..Len(order) : \E j \in 1..Len(TagProviders[order[i]]) : y = Len(g[i - 1]) + j
    <3>1. Sliced(order, g, Len(order))
      BY <1>2, <1>3, Slices, Zenon
    <3> QED
      BY <3>1 DEF Sliced
  <2> QED
    BY <1>4, <2>1
<1>9. \A i \in 1..Len(order) : Len(g[i - 1]) \in Nat /\ Len(TagProviders[order[i]]) \in Nat
  <2>1. \A i \in 1..Len(order) : i - 1 \in 0..Len(order)
    BY <1>3
  <2> QED
    BY <1>2, <1>3, <2>1 DEF NamesUpTo
<1>10. PICK i \in 1..Len(order) : \E j \in 1..Len(TagProviders[order[i]]) : k = Len(g[i - 1]) + j
  BY <1>7, <1>8
<1>11. X(i).startIndex < k /\ k <= X(i).endIndex
  <2>1. PICK j \in 1..Len(TagProviders[order[i]]) : k = Len(g[i - 1]) + j
    BY <1>10
  <2>2. PICK a \in Nat, b \in Nat : a = Len(g[i - 1]) /\ b = Len(TagProviders[order[i]])
    BY <1>9
  <2>3. a < a + j /\ a + j <= a + b
    BY <2>2
  <2> QED
    BY <2>1, <2>2, <2>3
<1>12. ASSUME NEW x \in Range(ix.providers), x.startIndex < k, k <= x.endIndex
       PROVE  TagProviders[x.provider][k - x.startIndex] = ix.names[k]
  <2>1. PICK n \in 1..Len(order) : x = X(n)
    BY <1>6
  <2>2. PICK a \in Nat, b \in Nat : a = Len(g[n - 1]) /\ b = Len(TagProviders[order[n]])
    BY <1>9
  <2>3. x.provider = order[n] /\ x.startIndex = a /\ x.endIndex = a + b
    BY <2>1, <2>2
  <2>4. k - a \in 1..b /\ a + (k - a) = k
    <3>1. k \in Nat /\ a < k /\ k <= a + b
      BY <1>7, <1>12, <2>3
    <3>2. a \in Nat /\ b \in Nat
      BY <2>2
    <3> QED
      BY <3>1, <3>2
  <2>5. names[a + (k - a)] = TagProviders[order[n]][k - a]
    BY <1>8, <2>2, <2>4
  <2> QED
    BY <1>5, <2>3, <2>4, <2>5
<1> QED
  <2> HIDE DEF X
  <2> QED
    BY <1>6, <1>10, <1>11, <1>12

\* Every quantifier that the configuration names has an index, at which it is.
LEMMA QuantifierIndex ==
  ASSUME RequiredQuantifiers \subseteq Quantifiers, NEW order \in SetToSeqs(RequiredQuantifiers),
         NEW ix, ix = indexQuantifiers(order), NEW q \in RequiredQuantifiers
  PROVE  ix.nameToIndex[q] \in DOMAIN ix.quantifiers /\ ix.quantifiers[ix.nameToIndex[q]] = q
<1>1. IsFiniteSet(RequiredQuantifiers)
  BY KelemetrixAssumption, FS_Subset
<1>2. DOMAIN order = 1..Len(order) /\ \A x \in RequiredQuantifiers : \E i \in 1..Len(order) : order[i] = x
  BY <1>1, ListsAll
<1>3. PICK i \in DOMAIN order : order[i] = q
  BY <1>2
<1>4. q \in Range(order)
  BY <1>3 DEF Range
<1>5. ix.quantifiers = order /\ ix.nameToIndex[q] = CHOOSE j \in DOMAIN order : order[j] = q
  BY <1>4 DEF indexQuantifiers
<1> QED
  BY <1>3, <1>5

\* What Start leaves: the indices of some order of the providers and of the
\* quantifiers that the configuration names, all of them registered.
IndexSound ==
  prepared # Unprepared =>
    /\ RequiredTags \subseteq TagNames /\ RequiredQuantifiers \subseteq Quantifiers
    /\ \E tagOrder \in SetToSeqs(RequiredProviders), quantOrder \in SetToSeqs(RequiredQuantifiers) :
         prepared = [tags |-> indexTagProviders(tagOrder), quantities |-> indexQuantifiers(quantOrder)]

\* The array of tag values has the value of each tag at its index.
LEMMA ValueOfTag ==
  ASSUME IndexSound, prepared # Unprepared, NEW e, NEW t \in RequiredTags
  PROVE  TagValues(e)[prepared.tags.nameToIndex[t]] = TagValue(e, t)
<1>1. RequiredTags \subseteq TagNames
  BY DEF IndexSound
<1>2. PICK order \in SetToSeqs(RequiredProviders) : prepared.tags = indexTagProviders(order)
  BY DEF IndexSound
<1>3. PICK ix : ix = prepared.tags
  OBVIOUS
<1>4. ix = indexTagProviders(order) /\ order \in Orders
  BY <1>1, <1>2, <1>3, OrderOfProviders
<1>5. PICK k : k = ix.nameToIndex[t]
  OBVIOUS
<1>6. k \in DOMAIN ix.names /\ ix.names[k] = t
  BY <1>1, <1>4, <1>5, TagIndex
<1>7. PICK x : x = CHOOSE y \in Range(ix.providers) : y.startIndex < k /\ k <= y.endIndex
  OBVIOUS
<1>8. /\ \E y \in Range(ix.providers) : y.startIndex < k /\ k <= y.endIndex
      /\ \A y \in Range(ix.providers) : y.startIndex < k /\ k <= y.endIndex =>
           TagProviders[y.provider][k - y.startIndex] = ix.names[k]
  BY <1>4, <1>6, SliceIsNamed
<1>9. TagProviders[x.provider][k - x.startIndex] = t
  BY <1>6, <1>7, <1>8
<1>10. TagValues(e)[k] = TagValue(e, TagProviders[x.provider][k - x.startIndex])
  BY <1>3, <1>6, <1>7 DEF TagValues
<1> QED
  BY <1>3, <1>5, <1>9, <1>10

\* The array of quantities that HandleMessage fills.
Quantities(e) ==
  [i \in DOMAIN prepared.quantities.quantifiers |-> Quantity(e, prepared.quantities.quantifiers[i])]

LEMMA ValueOfQuantifier ==
  ASSUME IndexSound, prepared # Unprepared, NEW e, NEW q \in RequiredQuantifiers
  PROVE  Quantities(e)[prepared.quantities.nameToIndex[q]] = Quantity(e, q)
<1>1. RequiredQuantifiers \subseteq Quantifiers
  BY DEF IndexSound
<1>2. PICK order \in SetToSeqs(RequiredQuantifiers) : prepared.quantities = indexQuantifiers(order)
  BY DEF IndexSound
<1>3. PICK ix : ix = prepared.quantities
  OBVIOUS
<1>4. PICK k : k = ix.nameToIndex[q]
  OBVIOUS
<1>5. k \in DOMAIN ix.quantifiers /\ ix.quantifiers[k] = q
  BY <1>1, <1>2, <1>3, <1>4, QuantifierIndex
<1>6. Quantities(e)[k] = Quantity(e, ix.quantifiers[k])
  BY <1>3, <1>5 DEF Quantities
<1> QED
  BY <1>3, <1>4, <1>5, <1>6

\* A filter on tags admits what its names say, negated filters too.
LEMMA TagFilters ==
  ASSUME IndexSound, prepared # Unprepared, NEW e, NEW f, f.tag \in RequiredTags
  PROVE  testTag(f, TagValues(e)) <=>
           IF f.negate THEN f.oneOf # {TagValue(e, f.tag)} /\ f.oneOf # {} ELSE TagValue(e, f.tag) \in f.oneOf
<1>1. PICK v : v = TagValue(e, f.tag)
  OBVIOUS
<1>2. TagValues(e)[prepared.tags.nameToIndex[f.tag]] = v
  BY <1>1, ValueOfTag
<1>3. testTag(f, TagValues(e)) <=> \E choice \in f.oneOf : IF f.negate THEN choice # v ELSE choice = v
  BY <1>2 DEF testTag
<1>4. (\E choice \in f.oneOf : choice # v) <=> f.oneOf # {v} /\ f.oneOf # {}
  OBVIOUS
<1> QED
  BY <1>1, <1>3, <1>4

LEMMA QuantityFilters ==
  ASSUME IndexSound, prepared # Unprepared, NEW e \in Events, NEW f, f.quantity \in RequiredQuantifiers,
         f.operator \in {">", "<", ">=", "<="}, f.threshold \in Int
  PROVE  testQuantity(f, Quantities(e)) <=> Admits(f, Quantity(e, f.quantity).value)
<1>1. PICK v : v = Quantity(e, f.quantity).value
  OBVIOUS
<1>2. v \in Int
  BY <1>1, QuantityAssumption DEF IndexSound
<1>3. Quantities(e)[prepared.quantities.nameToIndex[f.quantity]].value = v
  BY <1>1, ValueOfQuantifier
<1>4. PICK u : u = f.threshold
  OBVIOUS
<1>5. u \in Int /\ (v >= u <=> ~(v < u)) /\ (v <= u <=> ~(v > u))
  <2>1. u \in Int
    BY <1>4
  <2> QED
    BY <1>2, <2>1
<1>6. CASE f.operator = ">"
  BY <1>1, <1>3, <1>6 DEF testQuantity, Admits
<1>7. CASE f.operator = "<"
  BY <1>1, <1>3, <1>7 DEF testQuantity, Admits
<1>8. CASE f.operator = ">="
  <2>1. testQuantity(f, Quantities(e)) <=> v >= u
    BY <1>3, <1>4, <1>8 DEF testQuantity
  <2>2. Admits(f, v) <=> ~(v < u)
    BY <1>4, <1>8 DEF Admits
  <2> QED
    BY <1>1, <1>5, <2>1, <2>2
<1>9. CASE f.operator = "<="
  <2>1. testQuantity(f, Quantities(e)) <=> v <= u
    BY <1>3, <1>4, <1>9 DEF testQuantity
  <2>2. Admits(f, v) <=> ~(v > u)
    BY <1>4, <1>9 DEF Admits
  <2> QED
    BY <1>1, <1>5, <2>1, <2>2
<1> QED
  BY <1>6, <1>7, <1>8, <1>9

Report(m, e) ==
  [metric |-> m.name, message |-> e, quantity |-> Quantity(e, m.quantifier).value,
   tags |-> [i \in DOMAIN m.tags |-> TagValue(e, m.tags[i])]]

\* One metric reports what the configuration says of a message.
LEMMA HandleReports ==
  ASSUME IndexSound, prepared # Unprepared, NEW e \in Events, NEW m \in Metrics
  PROVE  handle(m, e, TagValues(e), Quantities(e)) = IF Reports(m, e) THEN {Report(m, e)} ELSE {}
<1>1. m.quantifier \in RequiredQuantifiers /\ \A f \in m.quantityFilters : f.quantity \in RequiredQuantifiers
  BY DEF RequiredQuantifiers
<1>2. (\A i \in DOMAIN m.tags : m.tags[i] \in RequiredTags) /\ \A f \in m.tagFilters : f.tag \in RequiredTags
  BY DEF RequiredTags, Range
<1>3. PICK q : q = Quantity(e, m.quantifier)
  OBVIOUS
<1>4. Quantities(e)[prepared.quantities.nameToIndex[m.quantifier]] = q
  BY <1>1, <1>3, ValueOfQuantifier
<1>5. PICK t : t = [i \in DOMAIN m.tags |-> TagValues(e)[prepared.tags.nameToIndex[m.tags[i]]]]
  OBVIOUS
<1>6. t = [i \in DOMAIN m.tags |-> TagValue(e, m.tags[i])]
  <2>1. \A i \in DOMAIN m.tags : TagValues(e)[prepared.tags.nameToIndex[m.tags[i]]] = TagValue(e, m.tags[i])
    BY <1>2, ValueOfTag
  <2> QED
    BY <1>5, <2>1
<1>7. PICK c \in BOOLEAN : c <=> \A f \in m.tagFilters : testTag(f, TagValues(e))
  OBVIOUS
<1>8. PICK d \in BOOLEAN : d <=> \A f \in m.quantityFilters : testQuantity(f, Quantities(e))
  OBVIOUS
<1>9. handle(m, e, TagValues(e), Quantities(e)) =
        {[metric |-> m.name, message |-> e, quantity |-> q.value, tags |-> t] : x \in {y \in {q} : y.ok /\ c /\ d}}
  BY <1>4, <1>5, <1>7, <1>8 DEF handle
<1>10. Report(m, e) = [metric |-> m.name, message |-> e, quantity |-> q.value, tags |-> t]
  BY <1>3, <1>6 DEF Report
<1>11. c <=> \A f \in m.tagFilters :
               IF f.negate THEN f.oneOf # {TagValue(e, f.tag)} /\ f.oneOf # {} ELSE TagValue(e, f.tag) \in f.oneOf
  BY <1>2, <1>7, TagFilters
<1>12. d <=> \A f \in m.quantityFilters : Admits(f, Quantity(e, f.quantity).value)
  BY <1>1, <1>8, QuantityFilters, KelemetrixAssumption
<1>13. Reports(m, e) <=> q.ok /\ c /\ d
  BY <1>3, <1>11, <1>12 DEF Reports
<1> QED
  BY <1>9, <1>10, <1>13

LEMMA HandleIsExpected ==
  ASSUME IndexSound, prepared # Unprepared, NEW e \in Events
  PROVE  HandleMessage(e) = Expected(e)
<1>1. HandleMessage(e) = UNION {handle(m, e, TagValues(e), Quantities(e)) : m \in Metrics}
  BY DEF HandleMessage, Quantities
<1>2. \A m \in Metrics : handle(m, e, TagValues(e), Quantities(e)) = IF Reports(m, e) THEN {Report(m, e)} ELSE {}
  BY HandleReports
<1>3. Expected(e) = {Report(m, e) : m \in {x \in Metrics : Reports(x, e)}}
  BY DEF Expected, Report
<1> QED
  BY <1>1, <1>2, <1>3

\* The inductive invariant for MetricsMatchConfig.
MetricsInv == FetchInv /\ IndexSound /\ DOMAIN handled = groups /\ MetricsMatchConfig

LEMMA MetricsInit == Init => MetricsInv
<1> SUFFICES ASSUME Init PROVE MetricsInv
  OBVIOUS
<1>1. FetchInv
  BY FetchInit
<1>2. prepared = Unprepared /\ emitted = {} /\ handled = [g \in groups |-> {}]
  BY DEF Init, AuditInit, KelemetrixInit
<1>3. "kelemetrix" \in groups => handled["kelemetrix"] = {}
  BY <1>2
<1> QED
  BY <1>1, <1>2, <1>3 DEF MetricsInv, IndexSound, MetricsMatchConfig

LEMMA MetricsStep ==
  ASSUME MetricsInv, [Next]_vars
  PROVE  MetricsInv'
<1>1. FetchInv'
  BY FetchStep DEF MetricsInv
<1>2. ASSUME UNCHANGED <<groups, handled, prepared, emitted>> PROVE MetricsInv'
  BY <1>1, <1>2 DEF MetricsInv, IndexSound, MetricsMatchConfig
<1>3. CASE AuditNext /\ UNCHANGED <<kelemetrixVars, linkVars>>
  BY <1>2, <1>3 DEF AuditNext, handleRequest, handleItems, workerLoop, Send, setConfig, kelemetrixVars
<1>4. CASE "kelemetrix" \in groups /\ PrepareTagsQuantifiers /\ UNCHANGED <<auditVars, linkVars>>
  <2>1. UNCHANGED <<groups, handled, emitted>>
    BY <1>4 DEF auditVars, PrepareTagsQuantifiers
  <2>2. DOMAIN TagProviderNameIndex = TagNames
    BY DEF TagProviderNameIndex
  <2>3. IndexSound'
    BY <1>4, <2>2 DEF PrepareTagsQuantifiers, IndexSound, RequiredProviders
  <2> QED
    BY <1>1, <2>1, <2>3 DEF MetricsInv, MetricsMatchConfig
<1>5. ASSUME NEW p \in Partitions, handleMessage(p) PROVE MetricsInv'
  <2>1. /\ "audit" \in groups /\ UNCHANGED <<groups, prepared, emitted>>
        /\ handled' = [handled EXCEPT !["audit"] = @ \cup {Head(mq["audit"][p])}]
    BY <1>5 DEF handleMessage, Receive, kelemetrixVars
  <2>2. DOMAIN handled' = groups /\ handled'["kelemetrix"] = handled["kelemetrix"]
    BY <2>1 DEF MetricsInv
  <2> QED
    BY <1>1, <2>1, <2>2 DEF MetricsInv, IndexSound, MetricsMatchConfig
<1>6. ASSUME NEW p \in Partitions, handleMetrics(p) PROVE MetricsInv'
  <2>1. PICK e : e = Head(mq["kelemetrix"][p])
    OBVIOUS
  <2>2. /\ "kelemetrix" \in groups /\ UNCHANGED <<groups, prepared>> /\ prepared # Unprepared
        /\ handled' = [handled EXCEPT !["kelemetrix"] = @ \cup {e}]
        /\ emitted' = emitted \cup HandleMessage(e)
    BY <1>6, <2>1 DEF handleMetrics, Receive, handleMessageRaw
  <2>3. e \in Events
    BY <1>6, <2>1, ReceiveFacts DEF handleMetrics, MetricsInv, FetchInv
  <2>4. HandleMessage(e) = Expected(e)
    BY <2>2, <2>3, HandleIsExpected DEF MetricsInv
  <2>5. DOMAIN handled' = groups /\ handled'["kelemetrix"] = handled["kelemetrix"] \cup {e}
    BY <2>2 DEF MetricsInv
  <2>6. emitted = UNION {Expected(x) : x \in handled["kelemetrix"]}
    BY <2>2 DEF MetricsInv, MetricsMatchConfig
  <2>7. emitted' = UNION {Expected(x) : x \in handled'["kelemetrix"]}
    BY <2>2, <2>4, <2>5, <2>6
  <2>8. MetricsMatchConfig'
    BY <2>7 DEF MetricsMatchConfig
  <2> QED
    BY <1>1, <2>2, <2>5, <2>8 DEF MetricsInv, IndexSound
<1>7. CASE LinkNext /\ UNCHANGED <<auditVars, kelemetrixVars>>
  BY <1>2, <1>7 DEF auditVars, kelemetrixVars
<1>8. CASE UNCHANGED vars
  BY <1>2, <1>8 DEF vars, auditVars, kelemetrixVars
<1> QED
  BY <1>3, <1>4, <1>5, <1>6, <1>7, <1>8 DEF Next

\* consumer.go: what the kelemetrix consumer has reported is exactly what the
\* configuration says, by name, of the messages it handled, for every registry
\* of providers and quantifiers, every configuration whose names are registered,
\* every order in which Start walks its maps, and every interleaving of the
\* messages with Start.
THEOREM MetricsAreExact == Spec => []MetricsMatchConfig
<1>1. Init => MetricsInv
  BY MetricsInit
<1>2. MetricsInv /\ [Next]_vars => MetricsInv'
  BY MetricsStep
<1>3. MetricsInv => MetricsMatchConfig
  BY DEF MetricsInv
<1> QED
  BY <1>1, <1>2, <1>3, PTL DEF Spec
=============================================================================
