------------------------- MODULE Aggregator_proofs --------------------------
(* Proofs about the aggregator, for any number of callers, objects, windows *)
(* and retries.                                                             *)
EXTENDS Aggregator, TLAPS

USE KeysAssumption, AggregatorAssumption

LEMMA NoCallType == NoCall \in Call
  BY DEF NoCall, AnyKey, Call, Ops

LEMMA KeyOfType ==
  ASSUME object \in [Clients -> Objects], time \in [Clients -> Times]
  PROVE  \A c \in Clients : KeyOf(c) \in Keys
  BY DEF KeyOf

LEMMA InitInv == AggInit => AggInv
<1> SUFFICES ASSUME AggInit PROVE AggInv
  OBVIOUS
<1> USE DEF AggInit, Init, CallsInit
<1>1. AggTypeOK
  BY NoCallType DEF AggTypeOK, TypeOK, CallsTypeOK, Entry, Invalid, Answer, Response, Kinds, PCs
<1>2. CallMatchesCaller
  BY DEF CallMatchesCaller, NoCall
<1>3. EntriesRecorded
  BY KeyOfType DEF EntriesRecorded, IsInitialized, Invalid
<1>4. AnswersRecorded
  BY DEF AnswersRecorded, NoCall, Answer
<1>5. LivesRecorded /\ ResultMatchesCaller /\ ResultWasCached /\ StoredOnce /\ LinkJobs
  BY DEF LivesRecorded, ResultMatchesCaller, ResultWasCached, StoredOnce, LinkJobs
<1> QED
  BY <1>1, <1>2, <1>3, <1>4, <1>5 DEF AggInv

\* Facts every step uses: the types, and that a caller keeps its key.
LEMMA Basics ==
  ASSUME AggInv, UNCHANGED <<object, time>>
  PROVE  /\ AggTypeOK /\ TypeOK /\ CallsTypeOK
         /\ \A d \in Clients : KeyOf(d) \in Keys /\ KeyOf(d)' = KeyOf(d)
         /\ \A d \in Clients : expiries[KeyOf(d)] \in Nat /\ from[d] \in Nat
  BY KeyOfType DEF AggInv, AggTypeOK, TypeOK, KeyOf

\* A recorded span stays recorded, for every wider range of lives.
LEMMA WitnessKept ==
  ASSUME cached \subseteq [key : Keys, life : Nat, span : Clients],
         cached \subseteq cached',
         NEW k, NEW s, NEW lo \in Nat, NEW hi \in Nat, NEW hj \in Nat, hi <= hj,
         Witness(k, s, lo, hi)
  PROVE  Witness(k, s, lo, hj)'
  BY DEF Witness

-----------------------------------------------------------------------------
(* Steps of a caller that leave the cache alone.                            *)
LEMMA QuietEntries ==
  ASSUME AggInv,
         UNCHANGED <<cacheVars, object, time, expiries, from, cached>>
  PROVE  EntriesRecorded'
  BY Basics DEF AggInv, EntriesRecorded, cacheVars, callVars, Witness, Idle

LEMMA QuietAnswers ==
  ASSUME AggInv, NEW c \in Clients, Idle(c),
         \A d \in Clients : d # c => pc'[d] = pc[d],
         pc'[c] \notin {"fetch", "set"},
         UNCHANGED <<cacheVars, object, time, expiries, from, cached>>
  PROVE  AnswersRecorded'
<1>0. UNCHANGED <<call, resp, expiries, from, cached>>
  BY DEF cacheVars, callVars
<1> SUFFICES ASSUME NEW d \in Clients
             PROVE  /\ (pc'[d] = "fetch" /\ call'[d].op = "none" /\ resp'[d].kind = "entry"
                         /\ resp'[d].val # 0) =>
                         Witness(KeyOf(d), resp[d].val, from[d], expiries[KeyOf(d)])'
                    /\ (call'[d].op = "stored" \/ (pc'[d] = "set" /\ call'[d].op = "none"
                         /\ resp'[d].kind = "ok")) =>
                         Witness(KeyOf(d), d, from[d], expiries[KeyOf(d)])'
  BY DEF AnswersRecorded, Idle
<1>1. CASE d = c
  BY <1>0, <1>1 DEF Idle
<1>2. CASE d # c
  BY <1>0, <1>2, Basics DEF AggInv, AnswersRecorded, Idle, Witness
<1> QED
  BY <1>1, <1>2

LEMMA FetchedInv == ASSUME AggInv, NEW c \in Clients, Fetched(c) PROVE AggInv'
<1> USE DEF Fetched, HaveSpan, Goto, AggInv
<1>0. UNCHANGED <<object, time, expiries, from, cached, call, late, resp, entry, seen>>
  BY DEF cacheVars, callVars
<1>1. Witness(KeyOf(c), resp[c].val, from[c], expiries[KeyOf(c)])
  BY DEF AnswersRecorded
<1>2. resp[c].val \in Clients
  BY <1>1 DEF Witness, AggTypeOK
<1>3. AggTypeOK'
  BY <1>0, <1>2, Basics DEF AggTypeOK, TypeOK, CallsTypeOK, cacheVars, callVars, PCs
<1>4. CallMatchesCaller'
  BY <1>0, Basics DEF CallMatchesCaller, AggTypeOK, Idle
<1>5. EntriesRecorded'
  BY <1>0, QuietEntries
<1>6. AnswersRecorded'
  <2>1. Idle(c) /\ pc'[c] \notin {"fetch", "set"} /\ \A d \in Clients : d # c => pc'[d] = pc[d]
    BY DEF AggTypeOK, TypeOK, CallsTypeOK, Call, Ops, CallMatchesCaller, Idle
  <2> QED
    BY <2>1, QuietAnswers DEF historyVars
<1>7. LivesRecorded'
  BY <1>0, Basics DEF LivesRecorded, AggTypeOK
<1>8. ResultMatchesCaller' /\ StoredOnce'
  BY <1>0 DEF ResultMatchesCaller, StoredOnce, AggTypeOK, Ended
<1>9. ResultWasCached'
  BY <1>0, <1>1, Basics DEF ResultWasCached, AggTypeOK, Witness
<1>10. LinkJobs'
  BY <1>0 DEF LinkJobs, LivesRecorded, AggTypeOK
<1> QED
  BY <1>3, <1>4, <1>5, <1>6, <1>7, <1>8, <1>9, <1>10

LEMMA ReservedInv == ASSUME AggInv, NEW c \in Clients, Reserved(c) PROVE AggInv'
<1> USE DEF Reserved, Goto, AggInv
<1>0. UNCHANGED <<object, time, expiries, from, cached, call, late, resp, entry, seen>>
  BY DEF cacheVars, callVars, historyVars
<1>1. AggTypeOK'
  BY <1>0, Basics DEF AggTypeOK, TypeOK, CallsTypeOK, Response, cacheVars, callVars, historyVars, PCs
<1>2. CallMatchesCaller'
  BY <1>0, Basics DEF CallMatchesCaller, AggTypeOK, Idle
<1>3. EntriesRecorded'
  BY <1>0, QuietEntries
<1>4. AnswersRecorded'
  <2>1. Idle(c) /\ pc'[c] \notin {"fetch", "set"} /\ \A d \in Clients : d # c => pc'[d] = pc[d]
    BY DEF AggTypeOK, TypeOK, CallsTypeOK, Call, Ops, CallMatchesCaller, Idle
  <2> QED
    BY <2>1, QuietAnswers DEF historyVars
<1>5. LivesRecorded'
  BY <1>0, Basics DEF LivesRecorded, AggTypeOK
<1>6. ResultMatchesCaller' /\ StoredOnce'
  BY <1>0 DEF ResultMatchesCaller, StoredOnce, AggTypeOK, Ended
<1>7. ResultWasCached'
  BY <1>0, Basics DEF ResultWasCached, AggTypeOK, historyVars
<1>8. LinkJobs'
  BY <1>0 DEF LinkJobs, LivesRecorded, AggTypeOK
<1> QED
  BY <1>1, <1>2, <1>3, <1>4, <1>5, <1>6, <1>7, <1>8

\* The caller moves on and nothing else changes but the set of created spans.
LEMMA MoveInv ==
  ASSUME AggInv, NEW c \in Clients, NEW label \in PCs, Goto(c, label),
         UNCHANGED <<cacheVars, object, time, attempts, uid, result, jobs, historyVars>>,
         \/ /\ pc[c] = "create" /\ label = "inject"
            /\ created' = created \cup {c}
         \/ /\ pc[c] = "event" /\ label = "done"
            /\ UNCHANGED created
         \/ /\ pc[c] \notin {"idle"} \cup Ended
            /\ label \in {"failed", "crashed"}
            /\ Idle(c)
            /\ UNCHANGED created
  PROVE  AggInv'
<1> USE DEF Goto, AggInv
<1>0. UNCHANGED <<object, time, expiries, from, to, cached, call, late, resp, entry, lastUid, seen>>
  BY DEF cacheVars, callVars, historyVars
<1>1. AggTypeOK'
  BY <1>0, Basics DEF AggTypeOK, TypeOK, CallsTypeOK
<1>2. CallMatchesCaller'
  BY <1>0, Basics DEF CallMatchesCaller, AggTypeOK, Idle, Ended
<1>3. EntriesRecorded'
  BY <1>0, QuietEntries DEF historyVars
<1>4. AnswersRecorded'
  <2>1. Idle(c) /\ pc'[c] \notin {"fetch", "set"} /\ \A d \in Clients : d # c => pc'[d] = pc[d]
    BY DEF AggTypeOK, TypeOK, CallsTypeOK, Call, Ops, CallMatchesCaller, Idle
  <2> QED
    BY <2>1, QuietAnswers DEF historyVars
<1>5. LivesRecorded'
  BY <1>0, Basics DEF LivesRecorded, AggTypeOK
<1>6. ResultMatchesCaller' /\ StoredOnce'
  BY <1>0 DEF ResultMatchesCaller, StoredOnce, AggTypeOK, Ended
<1>7. ResultWasCached'
  BY <1>0, Basics DEF ResultWasCached, AggTypeOK
<1>8. LinkJobs'
  BY <1>0 DEF LinkJobs, LivesRecorded, AggTypeOK
<1> QED
  BY <1>1, <1>2, <1>3, <1>4, <1>5, <1>6, <1>7, <1>8

LEMMA FetchErrorInv == ASSUME AggInv, NEW c \in Clients, FetchError(c) PROVE AggInv'
  BY MoveInv DEF FetchError, PCs, Ended

LEMMA CreatePseudoSpanInv ==
  ASSUME AggInv, NEW c \in Clients, CreatePseudoSpan(c) PROVE AggInv'
  BY MoveInv DEF CreatePseudoSpan, PCs

LEMMA StoreErrorInv == ASSUME AggInv, NEW c \in Clients, StoreError(c) PROVE AggInv'
  BY MoveInv DEF StoreError, PCs, Ended

LEMMA CreateEventSpanInv ==
  ASSUME AggInv, NEW c \in Clients, CreateEventSpan(c) PROVE AggInv'
  BY MoveInv DEF CreateEventSpan, PCs

LEMMA TracerErrorInv == ASSUME AggInv, NEW c \in Clients, TracerError(c) PROVE AggInv'
<1>1. Idle(c)
  <2>1. call[c].op \in Ops
    BY DEF AggInv, AggTypeOK, TypeOK, CallsTypeOK, Call
  <2> QED
    BY <2>1 DEF AggInv, CallMatchesCaller, TracerError, Idle, Ops
<1> QED
  BY <1>1, MoveInv DEF TracerError, PCs, Ended

LEMMA StoredInv == ASSUME AggInv, NEW c \in Clients, Stored(c) PROVE AggInv'
<1> USE DEF Stored, HaveSpan, Goto, AggInv
<1>0. UNCHANGED <<object, time, expiries, from, cached, call, late, resp, entry, seen>>
  BY DEF cacheVars, callVars
<1>1. Witness(KeyOf(c), c, from[c], expiries[KeyOf(c)])
  BY DEF AnswersRecorded
<1>2. AggTypeOK'
  <2>1. TypeOK'
    BY <1>0, Basics DEF TypeOK, CallsTypeOK, cacheVars, callVars
  <2>2. pc' \in [Clients -> PCs] /\ result' \in [Clients -> {0} \cup Clients] /\ to' \in [Clients -> Nat]
    BY <1>0, Basics DEF AggTypeOK, PCs
  <2> QED
    BY <1>0, <2>1, <2>2 DEF AggTypeOK
<1>3. CallMatchesCaller'
  <2>1. \A d \in Clients : pc'[d] = IF d = c THEN "publish" ELSE pc[d]
    BY Basics DEF AggTypeOK
  <2>2. call[c].op = "none" /\ late[c].op # "SetReserved"
    BY DEF CallMatchesCaller, Idle
  <2> QED
    BY <1>0, <2>1, <2>2, Basics DEF CallMatchesCaller
<1>4. EntriesRecorded'
  BY <1>0, QuietEntries
<1>5. AnswersRecorded'
  <2>1. Idle(c) /\ pc'[c] \notin {"fetch", "set"} /\ \A d \in Clients : d # c => pc'[d] = pc[d]
    BY DEF AggTypeOK, TypeOK, CallsTypeOK, Call, Ops, CallMatchesCaller, Idle
  <2> QED
    BY <2>1, QuietAnswers DEF historyVars
<1>6. LivesRecorded'
  BY <1>0, Basics DEF LivesRecorded, AggTypeOK
<1>7. ResultMatchesCaller' /\ StoredOnce'
  BY <1>0 DEF ResultMatchesCaller, StoredOnce, AggTypeOK, Ended
<1>8. ResultWasCached'
  BY <1>0, <1>1, Basics DEF ResultWasCached, AggTypeOK, Witness
<1>9. LinkJobs'
  BY <1>0 DEF LinkJobs, LivesRecorded, AggTypeOK
<1> QED
  BY <1>2, <1>3, <1>4, <1>5, <1>6, <1>7, <1>8, <1>9

LEMMA PublishInv == ASSUME AggInv, NEW c \in Clients, Publish(c) PROVE AggInv'
<1> USE DEF Publish, Goto, AggInv
<1>0. UNCHANGED <<object, time, expiries, from, to, cached, call, late, resp, entry, seen>>
  BY DEF cacheVars, callVars, historyVars
<1>1. AggTypeOK'
  BY <1>0, Basics DEF AggTypeOK, TypeOK, CallsTypeOK, cacheVars, callVars, PCs
<1>2. CallMatchesCaller'
  BY <1>0, Basics DEF CallMatchesCaller, AggTypeOK, Idle
<1>3. EntriesRecorded'
  BY <1>0, QuietEntries DEF historyVars
<1>4. AnswersRecorded'
  <2>1. Idle(c) /\ pc'[c] \notin {"fetch", "set"} /\ \A d \in Clients : d # c => pc'[d] = pc[d]
    BY DEF AggTypeOK, TypeOK, CallsTypeOK, Call, Ops, CallMatchesCaller, Idle
  <2> QED
    BY <2>1, QuietAnswers DEF historyVars
<1>5. LivesRecorded'
  BY <1>0, Basics DEF LivesRecorded, AggTypeOK
<1>6. ResultMatchesCaller' /\ StoredOnce'
  BY <1>0 DEF ResultMatchesCaller, StoredOnce, AggTypeOK, Ended
<1>7. ResultWasCached'
  BY <1>0, Basics DEF ResultWasCached, AggTypeOK
<1>8. LinkJobs'
  <2>1. \E h \in cached : h.span = c
    BY DEF ResultMatchesCaller, ResultWasCached, AggTypeOK
  <2> QED
    BY <1>0, <2>1 DEF LinkJobs, LivesRecorded, AggTypeOK, ResultMatchesCaller
<1> QED
  BY <1>1, <1>2, <1>3, <1>4, <1>5, <1>6, <1>7, <1>8

-----------------------------------------------------------------------------
(* Steps of a caller that enter an operation of the cache.                  *)
LEMMA SendInv == ASSUME AggInv, NEW c \in Clients, Send(c) PROVE AggInv'
<1> USE DEF AggInv, Send, CallFetchOrReserve, Enter, Goto
<1>0. UNCHANGED <<object, time, cached, expiries>>
  OBVIOUS
<1>1. AggTypeOK'
  <2>1. CallsTypeOK'
    BY <1>0, Basics DEF AggTypeOK, TypeOK, CallsTypeOK, Call, Ops, Answer, Response, Kinds
  <2> QED
    BY <1>0, <2>1, Basics DEF AggTypeOK, TypeOK, PCs
<1>2. CallMatchesCaller'
  BY <1>0, Basics DEF CallMatchesCaller, AggTypeOK, TypeOK, CallsTypeOK, Idle
<1>3. EntriesRecorded'
  BY <1>0, Basics DEF EntriesRecorded, AggTypeOK, TypeOK, CallsTypeOK, Idle, Witness
<1>4. AnswersRecorded'
  BY <1>0, Basics DEF AnswersRecorded, AggTypeOK, TypeOK, CallsTypeOK, Idle, Witness, Answer
<1>5. LivesRecorded'
  BY <1>0, Basics DEF LivesRecorded, AggTypeOK, TypeOK, CallsTypeOK
<1>6. ResultMatchesCaller' /\ StoredOnce'
  BY <1>0, Basics DEF ResultMatchesCaller, StoredOnce, AggTypeOK, Ended
<1>7. ResultWasCached'
  BY <1>0, Basics DEF ResultWasCached, ResultMatchesCaller, AggTypeOK, Ended
<1>8. LinkJobs'
  BY <1>0 DEF LinkJobs, AggTypeOK
<1> QED
  BY <1>1, <1>2, <1>3, <1>4, <1>5, <1>6, <1>7, <1>8

LEMMA RetryInv == ASSUME AggInv, NEW c \in Clients, Retry(c) PROVE AggInv'
<1> USE DEF AggInv, Retry, CallFetchOrReserve, Enter
<1>0. UNCHANGED <<object, time, cached, expiries, from, to>>
  BY DEF historyVars
<1>1. AggTypeOK'
  <2>1. CallsTypeOK'
    BY <1>0, Basics DEF AggTypeOK, TypeOK, CallsTypeOK, Call, Ops, Answer, Response, Kinds
  <2> QED
    BY <1>0, <2>1, Basics DEF AggTypeOK, TypeOK
<1>2. CallMatchesCaller'
  BY <1>0, Basics DEF CallMatchesCaller, AggTypeOK, TypeOK, CallsTypeOK, Idle
<1>3. EntriesRecorded'
  BY <1>0, Basics DEF EntriesRecorded, AggTypeOK, TypeOK, CallsTypeOK, Idle, Witness
<1>4. AnswersRecorded'
  BY <1>0, Basics DEF AnswersRecorded, AggTypeOK, TypeOK, CallsTypeOK, Idle, Witness, Answer
<1>5. LivesRecorded'
  BY <1>0, Basics DEF LivesRecorded, AggTypeOK, TypeOK, CallsTypeOK
<1>6. ResultMatchesCaller' /\ StoredOnce'
  BY <1>0, Basics DEF ResultMatchesCaller, StoredOnce, AggTypeOK, Ended
<1>7. ResultWasCached'
  BY <1>0, Basics DEF ResultWasCached, AggTypeOK
<1>8. LinkJobs'
  BY <1>0 DEF LinkJobs, AggTypeOK
<1> QED
  BY <1>1, <1>2, <1>3, <1>4, <1>5, <1>6, <1>7, <1>8

LEMMA SetReservedInv == ASSUME AggInv, NEW c \in Clients, SetReserved(c) PROVE AggInv'
<1> USE DEF AggInv, SetReserved, CallSetReserved, Enter, Goto
<1>0. UNCHANGED <<object, time, cached, expiries, from, to>>
  BY DEF historyVars
<1>1. AggTypeOK'
  <2>1. CallsTypeOK'
    BY <1>0, Basics DEF AggTypeOK, TypeOK, CallsTypeOK, Call, Ops, Answer, Response, Kinds
  <2> QED
    BY <1>0, <2>1, Basics DEF AggTypeOK, TypeOK, PCs
<1>2. CallMatchesCaller'
  BY <1>0, Basics DEF CallMatchesCaller, AggTypeOK, TypeOK, CallsTypeOK, Idle
<1>3. EntriesRecorded'
  BY <1>0, Basics DEF EntriesRecorded, AggTypeOK, TypeOK, CallsTypeOK, Idle, Witness
<1>4. AnswersRecorded'
  BY <1>0, Basics DEF AnswersRecorded, AggTypeOK, TypeOK, CallsTypeOK, Idle, Witness, Answer
<1>5. LivesRecorded'
  BY <1>0, Basics DEF LivesRecorded, AggTypeOK, TypeOK, CallsTypeOK
<1>6. ResultMatchesCaller' /\ StoredOnce'
  BY <1>0, Basics DEF ResultMatchesCaller, StoredOnce, AggTypeOK, Ended
<1>7. ResultWasCached'
  BY <1>0, Basics DEF ResultWasCached, AggTypeOK
<1>8. LinkJobs'
  BY <1>0 DEF LinkJobs, AggTypeOK, LivesRecorded
<1> QED
  BY <1>1, <1>2, <1>3, <1>4, <1>5, <1>6, <1>7, <1>8

-----------------------------------------------------------------------------
(* Steps that end a call to the cache, the crash of a caller included.      *)
LEMMA LeaveInv ==
  ASSUME AggInv, NEW c \in Clients, NEW r \in Response, Leave(c, r),
         UNCHANGED <<entry, lastUid, object, time, attempts, uid, created, result, jobs, historyVars>>,
         pc' = pc \/ Goto(c, "crashed"),
         \/ UNCHANGED late
         \/ /\ call[c].op \in {"FetchOrReserve", "SetReserved"}
            /\ late' = [late EXCEPT ![c] = call[c]]
            /\ r.kind = "failure",
         (pc[c] = "fetch" /\ r.kind = "entry" /\ r.val # 0) =>
           Witness(KeyOf(c), r.val, from[c], expiries[KeyOf(c)]),
         (pc[c] = "set" /\ r.kind = "ok") =>
           Witness(KeyOf(c), c, from[c], expiries[KeyOf(c)])
  PROVE  AggInv'
<1> USE DEF Leave, Goto, AggInv
<1>0. UNCHANGED <<object, time, expiries, from, to, cached, entry>>
  BY DEF historyVars
<1>1. AggTypeOK'
  <2>1. CallsTypeOK' /\ late' \in [Clients -> Call]
    BY NoCallType, Basics, <1>0 DEF AggTypeOK, TypeOK, CallsTypeOK
  <2> QED
    BY <1>0, <2>1, Basics DEF AggTypeOK, TypeOK, PCs
<1>2. CallMatchesCaller'
  <2> SUFFICES ASSUME NEW d \in Clients
               PROVE (/\ call[d].op \in {"FetchOrReserve", "reserved"} => pc[d] = "fetch"
                      /\ call[d].op \in {"SetReserved", "stored"} =>
                           pc[d] = "set" /\ call[d].val = d /\ late[d].op # "SetReserved"
                      /\ call[d].op # "none" => call[d].key = KeyOf(d)
                      /\ call[d].op # "Fetch"
                      /\ late[d].op \in {"none", "FetchOrReserve", "SetReserved"}
                      /\ late[d].op = "SetReserved" =>
                           /\ late[d].val = d
                           /\ late[d].key = KeyOf(d)
                           /\ pc[d] \in {"set", "failed", "crashed"}
                           /\ pc[d] = "set" => resp[d].kind = "failure"
                      /\ pc[d] \in {"inject", "set", "publish"} => d \in created
                      /\ late[d].op = "SetReserved" => d \in created)'
    BY DEF CallMatchesCaller
  <2>1. CASE d = c
    BY <1>0, <2>1, Basics DEF CallMatchesCaller, AggTypeOK, TypeOK, CallsTypeOK, Idle, NoCall, Call, Ops
  <2>2. CASE d # c
    BY <1>0, <2>2, Basics DEF CallMatchesCaller, AggTypeOK, TypeOK, CallsTypeOK
  <2> QED
    BY <2>1, <2>2
<1>3. EntriesRecorded'
  BY <1>0, Basics DEF EntriesRecorded, AggTypeOK, TypeOK, CallsTypeOK, Idle, Witness, NoCall
<1>4. AnswersRecorded'
  <2> SUFFICES ASSUME NEW d \in Clients
               PROVE  (/\ (pc[d] = "fetch" /\ Idle(d) /\ resp[d].kind = "entry" /\ resp[d].val # 0) =>
                            Witness(KeyOf(d), resp[d].val, from[d], expiries[KeyOf(d)])
                       /\ (call[d].op = "stored" \/ (pc[d] = "set" /\ Idle(d) /\ resp[d].kind = "ok")) =>
                            Witness(KeyOf(d), d, from[d], expiries[KeyOf(d)]))'
    BY DEF AnswersRecorded
  <2>1. CASE d = c
    BY <1>0, <2>1, Basics DEF AggTypeOK, TypeOK, CallsTypeOK, Idle, NoCall, Witness
  <2>2. CASE d # c
    BY <1>0, <2>2, Basics DEF AnswersRecorded, AggTypeOK, TypeOK, CallsTypeOK, Idle, Witness
  <2> QED
    BY <2>1, <2>2
<1>5. LivesRecorded'
  <2> SUFFICES ASSUME NEW h \in cached
               PROVE  (/\ h.key = KeyOf(h.span)
                       /\ h.span \in created
                       /\ h.life <= expiries[h.key]
                       /\ h.life = expiries[h.key] => IsInitialized(entry[h.key])
                       /\ pc[h.span] \in {"set", "publish", "event", "done", "failed", "crashed"}
                       /\ call[h.span].op # "SetReserved"
                       /\ late[h.span].op # "SetReserved")'
    BY <1>0 DEF LivesRecorded
  <2>1. h.span \in Clients
    BY DEF AggTypeOK
  <2> QED
    BY <1>0, <2>1, Basics DEF LivesRecorded, AggTypeOK, TypeOK, CallsTypeOK, NoCall
<1>6. ResultMatchesCaller' /\ StoredOnce'
  BY <1>0, Basics DEF ResultMatchesCaller, StoredOnce, AggTypeOK, Ended
<1>7. ResultWasCached'
  BY <1>0, Basics DEF ResultWasCached, AggTypeOK
<1>8. LinkJobs'
  BY <1>0 DEF LinkJobs, AggTypeOK
<1> QED
  BY <1>1, <1>2, <1>3, <1>4, <1>5, <1>6, <1>7, <1>8

LEMMA FailInv ==
  ASSUME AggInv, NEW c \in Clients, Fail(c) \/ FailLate(c),
         UNCHANGED <<object, time, attempts, uid, created, result, jobs, historyVars>>,
         pc' = pc \/ Goto(c, "crashed")
  PROVE  AggInv'
<1>1. /\ Answer("failure") \in Response
      /\ Answer("failure").kind = "failure"
  BY DEF Answer, Response, Kinds
<1>2. Leave(c, Answer("failure")) /\ UNCHANGED <<entry, lastUid>>
  BY DEF Fail, FailLate
<1>3. \/ UNCHANGED late
      \/ call[c].op \in {"FetchOrReserve", "SetReserved"} /\ late' = [late EXCEPT ![c] = call[c]]
  BY DEF Fail, FailLate
<1> QED
  BY <1>1, <1>2, <1>3, LeaveInv

LEMMA CrashInv == ASSUME AggInv, NEW c \in Clients, Crash(c) PROVE AggInv'
<1>1. CASE Idle(c) /\ UNCHANGED cacheVars
  BY <1>1, MoveInv DEF Crash, PCs
<1>2. CASE Fail(c) \/ FailLate(c)
  BY <1>2, FailInv DEF Crash
<1> QED
  BY <1>1, <1>2 DEF Crash

LEMMA CacheReturnInv == ASSUME AggInv, NEW c \in Clients, CacheReturn(c) PROVE AggInv'
<1>0. UNCHANGED <<pc, object, time, attempts, uid, created, result, jobs, historyVars>>
  BY DEF CacheReturn, callerVars
<1>1. CASE Fail(c) \/ FailLate(c)
  BY <1>0, <1>1, FailInv
<1>2. ASSUME NEW r \in Answers(c), Return(c, r) PROVE AggInv'
  <2>1. r \in Response
    BY <1>2 DEF Answers, EntryAnswer, Answer, Response, Kinds, Entry,
                AggInv, AggTypeOK, TypeOK, CallsTypeOK
  <2>2. Leave(c, r) /\ UNCHANGED <<entry, lastUid, late>>
    BY <1>2 DEF Return
  <2>3. (pc[c] = "fetch" /\ r.kind = "entry" /\ r.val # 0) =>
           Witness(KeyOf(c), r.val, from[c], expiries[KeyOf(c)])
    <3> SUFFICES ASSUME pc[c] = "fetch", r.kind = "entry", r.val # 0
                 PROVE  Witness(KeyOf(c), r.val, from[c], expiries[KeyOf(c)])
      OBVIOUS
    <3>1. \E e \in seen[c] : IsInitialized(e) /\ r.val = e.val
      BY <1>2 DEF Return, FetchOrReserveAnswer, FetchAnswer, SetReservedAnswer, EntryAnswer,
                  Answer, AggInv, CallMatchesCaller
    <3> QED
      BY <2>2, <3>1 DEF AggInv, EntriesRecorded, Leave
  <2>4. (pc[c] = "set" /\ r.kind = "ok") =>
           Witness(KeyOf(c), c, from[c], expiries[KeyOf(c)])
    <3> SUFFICES ASSUME pc[c] = "set", r.kind = "ok"
                 PROVE  Witness(KeyOf(c), c, from[c], expiries[KeyOf(c)])
      OBVIOUS
    <3>1. call[c].op = "stored"
      BY <1>2 DEF Return, FetchOrReserveAnswer, FetchAnswer, SetReservedAnswer, EntryAnswer, Answer
    <3> QED
      BY <3>1 DEF AggInv, AnswersRecorded
  <2> QED
    BY <1>0, <2>1, <2>2, <2>3, <2>4, LeaveInv
<1> QED
  BY <1>1, <1>2 DEF CacheReturn

-----------------------------------------------------------------------------
(* Steps of the store.                                                      *)
LEMMA UnchangedAnswers ==
  ASSUME AggInv, UNCHANGED <<object, time, from, cached, pc, resp>>,
         \A d \in Clients : call'[d].op = call[d].op,
         \A d \in Clients : expiries'[KeyOf(d)] \in Nat /\ expiries[KeyOf(d)] <= expiries'[KeyOf(d)]
  PROVE  AnswersRecorded'
<1> SUFFICES ASSUME NEW d \in Clients
             PROVE  (/\ (pc[d] = "fetch" /\ Idle(d) /\ resp[d].kind = "entry" /\ resp[d].val # 0) =>
                          Witness(KeyOf(d), resp[d].val, from[d], expiries[KeyOf(d)])
                     /\ (call[d].op = "stored" \/ (pc[d] = "set" /\ Idle(d) /\ resp[d].kind = "ok")) =>
                          Witness(KeyOf(d), d, from[d], expiries[KeyOf(d)]))'
  BY DEF AnswersRecorded
<1>1. ASSUME NEW x, Witness(KeyOf(d), x, from[d], expiries[KeyOf(d)])
      PROVE  \E h \in cached' : /\ h.key = KeyOf(d)' /\ h.span = x
                                /\ from'[d] <= h.life /\ h.life <= expiries'[KeyOf(d)']
  <2>1. PICK h \in cached : /\ h.key = KeyOf(d) /\ h.span = x
                            /\ from[d] <= h.life /\ h.life <= expiries[KeyOf(d)]
    BY <1>1 DEF Witness
  <2>2. h.life \in Nat /\ expiries[KeyOf(d)] \in Nat /\ KeyOf(d)' = KeyOf(d)
    BY Basics DEF AggTypeOK
  <2>3. h.life <= expiries'[KeyOf(d)]
    BY <2>1, <2>2
  <2> QED
    BY <2>1, <2>2, <2>3
<1>2. (pc[d] = "fetch" /\ Idle(d) /\ resp[d].kind = "entry" /\ resp[d].val # 0)' =>
          Witness(KeyOf(d), resp[d].val, from[d], expiries[KeyOf(d)])'
  BY <1>1 DEF AggInv, AnswersRecorded, Idle, Witness
<1>3. (call[d].op = "stored" \/ (pc[d] = "set" /\ Idle(d) /\ resp[d].kind = "ok"))' =>
          Witness(KeyOf(d), d, from[d], expiries[KeyOf(d)])'
  <2> SUFFICES ASSUME (call[d].op = "stored" \/ (pc[d] = "set" /\ Idle(d) /\ resp[d].kind = "ok"))'
               PROVE  Witness(KeyOf(d), d, from[d], expiries[KeyOf(d)])'
    OBVIOUS
  <2>1. Witness(KeyOf(d), d, from[d], expiries[KeyOf(d)])
    BY DEF AggInv, AnswersRecorded, Idle
  <2> QED
    BY <1>1, <2>1 DEF Witness
<1> QED
  BY <1>2, <1>3

LEMMA CacheLateDropInv == ASSUME AggInv, NEW c \in Clients, CacheLateDrop(c) PROVE AggInv'
<1> USE DEF AggInv, CacheLateDrop, LateDrop, Settle
<1>0. UNCHANGED <<object, time, expiries, from, to, cached, entry, call, resp, seen, pc, created,
                  result, jobs, lastUid, attempts, uid>>
  BY DEF historyVars, callerVars, callVars
<1>1. AggTypeOK'
  BY <1>0, NoCallType DEF AggTypeOK, TypeOK, CallsTypeOK
<1>2. CallMatchesCaller'
  BY <1>0, Basics DEF CallMatchesCaller, AggTypeOK, TypeOK, NoCall
<1>3. EntriesRecorded' /\ AnswersRecorded'
  <2>1. EntriesRecorded'
    BY <1>0, Basics DEF EntriesRecorded, Idle, Witness
  <2>2. AnswersRecorded'
    BY <1>0, Basics, UnchangedAnswers
  <2> QED
    BY <2>1, <2>2
<1>4. LivesRecorded'
  BY <1>0, Basics DEF LivesRecorded, AggTypeOK, TypeOK, NoCall
<1>5. ResultMatchesCaller' /\ StoredOnce' /\ ResultWasCached' /\ LinkJobs'
  BY <1>0, Basics DEF ResultMatchesCaller, StoredOnce, ResultWasCached, LinkJobs
<1> QED
  BY <1>1, <1>2, <1>3, <1>4, <1>5

LEMMA CacheReserveInv == ASSUME AggInv, NEW c \in Clients, CacheReserve(c) PROVE AggInv'
<1> USE DEF AggInv
<1>0. UNCHANGED <<object, time, expiries, from, to, cached, resp, pc, created, result, jobs,
                  attempts, uid>>
  BY DEF CacheReserve, Reserve, LateReserve, historyVars, callerVars
<1>1. PICK k \in Keys : ReserveKey(k, lastUid + 1)
  <2>1. call[c].key \in Keys /\ late[c].key \in Keys
    BY DEF AggTypeOK, TypeOK, CallsTypeOK, Call
  <2> QED
    BY <2>1 DEF CacheReserve, Reserve, LateReserve
<1>2. \/ /\ call[c].op = "FetchOrReserve"
         /\ call' = [call EXCEPT ![c] = [op |-> "reserved", key |-> @.key, uid |-> lastUid + 1, val |-> 0]]
         /\ UNCHANGED late
      \/ /\ late[c].op = "FetchOrReserve"
         /\ late' = [late EXCEPT ![c] = NoCall]
         /\ UNCHANGED call
  BY DEF CacheReserve, Reserve, LateReserve, Settle
<1>3. /\ entry' = [entry EXCEPT ![k] = [uid |-> lastUid + 1, val |-> 0]]
      /\ entry[k] = Invalid
      /\ lastUid' = lastUid + 1
  BY <1>1 DEF ReserveKey
<1>4. /\ entry'[k] = [uid |-> lastUid + 1, val |-> 0]
      /\ seen' = [d \in Clients |->
                    IF call[d].op # "none" /\ call[d].key = k THEN seen[d] \cup {entry'[k]} ELSE seen[d]]
  BY <1>1 DEF ReserveKey, Observe, AggTypeOK, TypeOK
<1>5. AggTypeOK'
  <2>1. call' \in [Clients -> Call] /\ late' \in [Clients -> Call]
    BY <1>2, NoCallType DEF AggTypeOK, TypeOK, CallsTypeOK, Call, Ops
  <2>2. seen' \in [Clients -> SUBSET Entry]
    BY <1>4 DEF AggTypeOK, TypeOK, CallsTypeOK, Entry
  <2>3. entry' \in [Keys -> Entry] /\ lastUid' \in Nat
    BY <1>3 DEF AggTypeOK, TypeOK, Entry
  <2> QED
    BY <1>0, <2>1, <2>2, <2>3 DEF AggTypeOK, TypeOK, CallsTypeOK
<1>6. CallMatchesCaller'
  BY <1>0, <1>2, Basics DEF CallMatchesCaller, AggTypeOK, TypeOK, CallsTypeOK, NoCall, Call
<1>7. EntriesRecorded'
  <2>1. \A j \in Keys : IsInitialized(entry'[j]) => entry'[j] = entry[j]
    BY <1>3 DEF IsInitialized, AggTypeOK, TypeOK
  <2>2. \A d \in Clients : \A e \in seen'[d] : IsInitialized(e) => e \in seen[d]
    BY <1>4 DEF IsInitialized, AggTypeOK, TypeOK, CallsTypeOK
  <2>3. \A d \in Clients : Idle(d)' = Idle(d)
    BY <1>2 DEF Idle, AggTypeOK, TypeOK, CallsTypeOK, Call
  <2>4. \A j \in Keys : IsInitialized(entry'[j]) =>
            Witness(j, entry[j].val, expiries[j], expiries[j])'
    BY <1>0, <2>1 DEF EntriesRecorded, Witness
  <2>5. \A d \in Clients : \A e \in seen'[d] : (~Idle(d)' /\ IsInitialized(e)) =>
            Witness(KeyOf(d), e.val, from[d], expiries[KeyOf(d)])'
    <3> SUFFICES ASSUME NEW d \in Clients, NEW e \in seen'[d], ~Idle(d)', IsInitialized(e)
                 PROVE  Witness(KeyOf(d), e.val, from[d], expiries[KeyOf(d)])'
      OBVIOUS
    <3>1. Witness(KeyOf(d), e.val, from[d], expiries[KeyOf(d)])
      BY <2>2, <2>3 DEF EntriesRecorded
    <3>2. KeyOf(d)' = KeyOf(d)
      BY <1>0, Basics
    <3> QED
      BY <1>0, <3>1, <3>2 DEF Witness
  <2>6. \A d \in Clients : (from[d] <= expiries[KeyOf(d)])'
    BY <1>0, Basics DEF EntriesRecorded
  <2> QED
    BY <2>4, <2>5, <2>6 DEF EntriesRecorded
<1>8. AnswersRecorded'
  BY <1>0, <1>2, Basics DEF AnswersRecorded, AggTypeOK, TypeOK, CallsTypeOK, Call, Idle, Witness
<1>9. LivesRecorded'
  <2> SUFFICES ASSUME NEW h \in cached
               PROVE  (/\ h.key = KeyOf(h.span)
                       /\ h.span \in created
                       /\ h.life <= expiries[h.key]
                       /\ h.life = expiries[h.key] => IsInitialized(entry[h.key])
                       /\ pc[h.span] \in {"set", "publish", "event", "done", "failed", "crashed"}
                       /\ call[h.span].op # "SetReserved"
                       /\ late[h.span].op # "SetReserved")'
    BY <1>0 DEF LivesRecorded
  <2>1. h.span \in Clients /\ h.key \in Keys
    BY DEF AggTypeOK
  <2>2. (h.life = expiries[h.key] => IsInitialized(entry[h.key]))'
    BY <1>0, <1>3, <2>1 DEF LivesRecorded, IsInitialized, Invalid, AggTypeOK, TypeOK
  <2>3. (call[h.span].op # "SetReserved" /\ late[h.span].op # "SetReserved")'
    BY <1>2, <2>1 DEF LivesRecorded, AggTypeOK, TypeOK, CallsTypeOK, Call, NoCall
  <2> QED
    BY <1>0, <2>1, <2>2, <2>3, Basics DEF LivesRecorded
<1>10. ResultMatchesCaller' /\ StoredOnce' /\ ResultWasCached' /\ LinkJobs'
  BY <1>0, Basics DEF ResultMatchesCaller, StoredOnce, ResultWasCached, LinkJobs
<1> QED
  BY <1>5, <1>6, <1>7, <1>8, <1>9, <1>10

LEMMA CacheExpireInv == ASSUME AggInv, NEW k \in Keys, CacheExpire(k) PROVE AggInv'
<1> USE DEF AggInv
<1>0. UNCHANGED <<object, time, from, to, cached, call, late, resp, pc, created, result, jobs,
                  attempts, uid, lastUid>>
  BY DEF CacheExpire, Expire, callerVars
<1>1. /\ entry' = [entry EXCEPT ![k] = Invalid]
      /\ expiries' = [expiries EXCEPT ![k] = @ + 1]
      /\ seen' = [d \in Clients |->
                    IF call[d].op # "none" /\ call[d].key = k THEN seen[d] \cup {Invalid} ELSE seen[d]]
  BY DEF CacheExpire, Expire, Observe
<1>2. \A j \in Keys : expiries[j] \in Nat /\ expiries'[j] \in Nat /\ expiries[j] <= expiries'[j]
  BY <1>1 DEF AggTypeOK
<1>3. AggTypeOK'
  BY <1>0, <1>1 DEF AggTypeOK, TypeOK, CallsTypeOK, Invalid, Entry
<1>4. CallMatchesCaller'
  BY <1>0, Basics DEF CallMatchesCaller
<1>5. \A d \in Clients : \A x : Witness(KeyOf(d), x, from[d], expiries[KeyOf(d)]) =>
          Witness(KeyOf(d), x, from[d], expiries[KeyOf(d)])'
  BY <1>0, <1>2, Basics DEF Witness, AggTypeOK
<1>6. EntriesRecorded'
  <2>1. \A j \in Keys : IsInitialized(entry'[j]) =>
            Witness(j, entry[j].val, expiries[j], expiries[j])'
    BY <1>0, <1>1 DEF EntriesRecorded, IsInitialized, Invalid, AggTypeOK, TypeOK, Witness
  <2>2. \A d \in Clients : from'[d] <= expiries'[KeyOf(d)]
    BY <1>0, <1>2, Basics DEF EntriesRecorded
  <2>3. \A d \in Clients : \A e \in seen'[d] : IsInitialized(e) => e \in seen[d]
    BY <1>1 DEF IsInitialized, Invalid, AggTypeOK, TypeOK, CallsTypeOK
  <2>4. \A d \in Clients : \A e \in seen'[d] : (~Idle(d)' /\ IsInitialized(e)) =>
            Witness(KeyOf(d), e.val, from[d], expiries[KeyOf(d)])'
    BY <1>0, <1>5, <2>3 DEF EntriesRecorded, Idle
  <2> QED
    BY <1>0, <2>1, <2>2, <2>4, Basics DEF EntriesRecorded, Witness
<1>7. AnswersRecorded'
  BY <1>0, <1>2, Basics, UnchangedAnswers
<1>8. LivesRecorded'
  <2> SUFFICES ASSUME NEW h \in cached
               PROVE  (/\ h.key = KeyOf(h.span)
                       /\ h.span \in created
                       /\ h.life <= expiries[h.key]
                       /\ h.life = expiries[h.key] => IsInitialized(entry[h.key])
                       /\ pc[h.span] \in {"set", "publish", "event", "done", "failed", "crashed"}
                       /\ call[h.span].op # "SetReserved"
                       /\ late[h.span].op # "SetReserved")'
    BY <1>0 DEF LivesRecorded
  <2>1. h.span \in Clients /\ h.key \in Keys /\ h.life \in Nat
    BY DEF AggTypeOK
  <2>2. h.life <= expiries[h.key] /\ (h.life = expiries[h.key] => IsInitialized(entry[h.key]))
    BY DEF LivesRecorded
  <2>3. (h.life <= expiries[h.key] /\ (h.life = expiries[h.key] => IsInitialized(entry[h.key])))'
    BY <1>1, <1>2, <2>1, <2>2 DEF AggTypeOK, TypeOK
  <2> QED
    BY <1>0, <2>1, <2>3, Basics DEF LivesRecorded
<1>9. ResultMatchesCaller' /\ StoredOnce' /\ ResultWasCached' /\ LinkJobs'
  BY <1>0, Basics DEF ResultMatchesCaller, StoredOnce, ResultWasCached, LinkJobs
<1> QED
  BY <1>3, <1>4, <1>6, <1>7, <1>8, <1>9

LEMMA CacheStoreInv == ASSUME AggInv, NEW c \in Clients, CacheStore(c) PROVE AggInv'
<1> USE DEF AggInv
<1>0. UNCHANGED <<object, time, expiries, from, to, resp, pc, created, result, jobs,
                  attempts, uid, lastUid>>
  BY DEF CacheStore, Store, LateStore, InitializeKey, callerVars
<1> DEFINE k == KeyOf(c)
           new == [key |-> k, life |-> expiries[k], span |-> c]
<1>1. /\ k \in Keys /\ expiries[k] \in Nat /\ c \in created /\ c # 0
      /\ from[c] \in Nat /\ from[c] <= expiries[k]
      /\ pc[c] \in {"set", "failed", "crashed"}
  BY <1>0, Basics DEF CacheStore, Store, LateStore, CallMatchesCaller, EntriesRecorded
<1>2. /\ entry[k].val = 0
      /\ entry[k].uid \in Nat
      /\ entry' = [entry EXCEPT ![k] = [uid |-> entry[k].uid, val |-> c]]
      /\ seen' = [d \in Clients |->
                    IF call[d].op # "none" /\ call[d].key = k THEN seen[d] \cup {entry'[k]} ELSE seen[d]]
      /\ cached' = cached \cup {new}
  <2>1. \E u : InitializeKey(k, u, c)
    BY DEF CacheStore, Store, LateStore, CallMatchesCaller
  <2>2. entry[k] \in Entry
    BY <1>1 DEF AggTypeOK, TypeOK
  <2>3. \/ call[c].key = k /\ call[c].val = c /\ Record(call[c].key, call[c].val)
        \/ late[c].key = k /\ late[c].val = c /\ Record(late[c].key, late[c].val)
    BY DEF CacheStore, Store, LateStore, CallMatchesCaller
  <2> QED
    BY <2>1, <2>2, <2>3 DEF InitializeKey, Observe, Entry, Record
<1>3. \/ /\ call[c].op = "SetReserved"
         /\ call' = [call EXCEPT ![c] = [op |-> "stored", key |-> call[c].key,
                                         uid |-> call[c].uid, val |-> call[c].val]]
         /\ UNCHANGED late
      \/ /\ late[c].op = "SetReserved"
         /\ late' = [late EXCEPT ![c] = NoCall]
         /\ UNCHANGED call
  BY DEF CacheStore, Store, LateStore, Settle
<1>4. /\ entry'[k].val = c
      /\ entry'[k] \in Entry
      /\ \A j \in Keys : j # k => entry'[j] = entry[j]
  BY <1>1, <1>2 DEF AggTypeOK, TypeOK, Entry
<1>5. \A h \in cached : h.span # c /\ ~(h.key = k /\ h.life = expiries[k])
  BY <1>2, <1>3 DEF LivesRecorded, IsInitialized
<1>6. AggTypeOK'
  <2>1. call' \in [Clients -> Call] /\ late' \in [Clients -> Call]
    BY <1>3, NoCallType DEF AggTypeOK, TypeOK, CallsTypeOK, Call, Ops
  <2>2. seen' \in [Clients -> SUBSET Entry]
    BY <1>2, <1>4 DEF AggTypeOK, TypeOK, CallsTypeOK
  <2>3. entry' \in [Keys -> Entry]
    BY <1>1, <1>2 DEF AggTypeOK, TypeOK, Entry
  <2>4. cached' \subseteq [key : Keys, life : Nat, span : Clients]
    BY <1>1, <1>2 DEF AggTypeOK
  <2> QED
    BY <1>0, <2>1, <2>2, <2>3, <2>4 DEF AggTypeOK, TypeOK, CallsTypeOK
<1>7. CallMatchesCaller'
  BY <1>0, <1>3, Basics DEF CallMatchesCaller, AggTypeOK, TypeOK, CallsTypeOK, NoCall, Call
<1>8. /\ cached \subseteq cached'
      /\ \A d \in Clients : \A x : Witness(KeyOf(d), x, from[d], expiries[KeyOf(d)]) =>
            Witness(KeyOf(d), x, from[d], expiries[KeyOf(d)])'
  BY <1>0, <1>2, Basics DEF Witness
<1>9. \A d \in Clients : KeyOf(d) = k => Witness(KeyOf(d), c, from[d], expiries[KeyOf(d)])'
  <2> SUFFICES ASSUME NEW d \in Clients, KeyOf(d) = k
               PROVE  Witness(KeyOf(d), c, from[d], expiries[KeyOf(d)])'
    OBVIOUS
  <2>1. from[d] <= expiries[k] /\ KeyOf(d)' = k
    BY <1>0, Basics DEF EntriesRecorded
  <2>2. new \in cached' /\ new.key = k /\ new.span = c /\ new.life = expiries[k]
    BY <1>2
  <2> QED
    BY <1>0, <1>1, <2>1, <2>2 DEF Witness
<1>10. EntriesRecorded'
  <2>1. \A j \in Keys : IsInitialized(entry'[j]) =>
            Witness(j, entry[j].val, expiries[j], expiries[j])'
    <3> SUFFICES ASSUME NEW j \in Keys, IsInitialized(entry'[j])
                 PROVE  Witness(j, entry[j].val, expiries[j], expiries[j])'
      OBVIOUS
    <3>1. CASE j = k
      <4>1. new \in cached' /\ new.key = k /\ new.span = c /\ new.life = expiries[k]
        BY <1>2
      <4> QED
        BY <1>0, <1>1, <1>4, <3>1, <4>1 DEF Witness
    <3>2. CASE j # k
      BY <1>0, <1>4, <1>8, <3>2 DEF EntriesRecorded, Witness
    <3> QED
      BY <3>1, <3>2
  <2>2. \A d \in Clients : \A e \in seen'[d] : (~Idle(d)' /\ IsInitialized(e)) =>
            Witness(KeyOf(d), e.val, from[d], expiries[KeyOf(d)])'
    <3> SUFFICES ASSUME NEW d \in Clients, NEW e \in seen'[d], ~Idle(d)', IsInitialized(e)
                 PROVE  Witness(KeyOf(d), e.val, from[d], expiries[KeyOf(d)])'
      OBVIOUS
    <3>1. ~Idle(d)
      BY <1>3 DEF Idle, AggTypeOK, TypeOK, CallsTypeOK, Call
    <3>2. CASE e \in seen[d]
      BY <1>8, <3>1, <3>2 DEF EntriesRecorded
    <3>3. CASE e \notin seen[d]
      <4>1. e = entry'[k] /\ call[d].key = k
        BY <1>2, <3>3
      <4>2. KeyOf(d) = k
        BY <3>1, <4>1 DEF CallMatchesCaller, Idle
      <4> QED
        BY <1>4, <1>9, <4>1, <4>2
    <3> QED
      BY <3>2, <3>3
  <2> QED
    BY <1>0, <2>1, <2>2, Basics DEF EntriesRecorded
<1>11. AnswersRecorded'
  <2> SUFFICES ASSUME NEW d \in Clients
               PROVE  (/\ (pc[d] = "fetch" /\ Idle(d) /\ resp[d].kind = "entry" /\ resp[d].val # 0) =>
                            Witness(KeyOf(d), resp[d].val, from[d], expiries[KeyOf(d)])
                       /\ (call[d].op = "stored" \/ (pc[d] = "set" /\ Idle(d) /\ resp[d].kind = "ok")) =>
                            Witness(KeyOf(d), d, from[d], expiries[KeyOf(d)]))'
    BY DEF AnswersRecorded
  <2>1. CASE d = c
    BY <1>0, <1>3, <1>8, <1>9, <2>1 DEF AnswersRecorded, Idle, Witness, CallMatchesCaller
  <2>2. CASE d # c
    <3>1. call'[d] = call[d]
      BY <1>3, <2>2 DEF AggTypeOK, TypeOK, CallsTypeOK
    <3>2. ASSUME NEW x, Witness(KeyOf(d), x, from[d], expiries[KeyOf(d)])
          PROVE  \E h \in cached' : /\ h.key = KeyOf(d)' /\ h.span = x
                                    /\ from'[d] <= h.life /\ h.life <= expiries'[KeyOf(d)']
      BY <1>8, <3>2 DEF Witness
    <3>3. (pc[d] = "fetch" /\ Idle(d) /\ resp[d].kind = "entry" /\ resp[d].val # 0)' =>
            Witness(KeyOf(d), resp[d].val, from[d], expiries[KeyOf(d)])
      BY <1>0, <3>1 DEF AnswersRecorded, Idle
    <3>4. (call[d].op = "stored" \/ (pc[d] = "set" /\ Idle(d) /\ resp[d].kind = "ok"))' =>
            Witness(KeyOf(d), d, from[d], expiries[KeyOf(d)])
      BY <1>0, <3>1 DEF AnswersRecorded, Idle
    <3>5. (pc[d] = "fetch" /\ Idle(d) /\ resp[d].kind = "entry" /\ resp[d].val # 0)' =>
            Witness(KeyOf(d), resp[d].val, from[d], expiries[KeyOf(d)])'
      BY <1>0, <3>2, <3>3 DEF Witness
    <3>6. (call[d].op = "stored" \/ (pc[d] = "set" /\ Idle(d) /\ resp[d].kind = "ok"))' =>
            Witness(KeyOf(d), d, from[d], expiries[KeyOf(d)])'
      BY <3>2, <3>4 DEF Witness
    <3> QED
      BY <3>5, <3>6
  <2> QED
    BY <2>1, <2>2
<1>12. LivesRecorded'
  <2> SUFFICES ASSUME NEW h \in cached'
               PROVE  (/\ h.key = KeyOf(h.span)
                       /\ h.span \in created
                       /\ h.life <= expiries[h.key]
                       /\ h.life = expiries[h.key] => IsInitialized(entry[h.key])
                       /\ pc[h.span] \in {"set", "publish", "event", "done", "failed", "crashed"}
                       /\ call[h.span].op # "SetReserved"
                       /\ late[h.span].op # "SetReserved")'
    BY DEF LivesRecorded
  <2>1. CASE h \in cached
    <3>1. h.span \in Clients /\ h.key \in Keys /\ h.span # c
      BY <1>5, <2>1 DEF AggTypeOK
    <3>2. call'[h.span] = call[h.span] /\ late'[h.span] = late[h.span]
      BY <1>3, <3>1 DEF AggTypeOK, TypeOK, CallsTypeOK
    <3>3. IsInitialized(entry[h.key]) => IsInitialized(entry'[h.key])
      BY <1>1, <1>4, <3>1 DEF IsInitialized
    <3> QED
      BY <1>0, <2>1, <3>1, <3>2, <3>3, Basics DEF LivesRecorded
  <2>2. CASE h = new
    <3>1. call'[c].op # "SetReserved" /\ late'[c].op # "SetReserved"
      BY <1>3 DEF CallMatchesCaller, AggTypeOK, TypeOK, CallsTypeOK, Call, NoCall
    <3>2. h.key = k /\ h.span = c /\ h.life = expiries[k]
      BY <2>2
    <3>3. KeyOf(c)' = k /\ IsInitialized(entry'[k])
      BY <1>0, <1>1, <1>4, Basics DEF IsInitialized
    <3> QED
      BY <1>0, <1>1, <3>1, <3>2, <3>3
  <2> QED
    BY <1>2, <2>1, <2>2
<1>13. ResultMatchesCaller' /\ StoredOnce'
  BY <1>0, <1>1, <1>2, <1>5 DEF ResultMatchesCaller, StoredOnce
<1>14. ResultWasCached'
  BY <1>0, <1>8, Basics DEF ResultWasCached
<1>15. LinkJobs'
  BY <1>0, <1>1, <1>2 DEF LinkJobs
<1> QED
  BY <1>6, <1>7, <1>10, <1>11, <1>12, <1>13, <1>14, <1>15

-----------------------------------------------------------------------------
LEMMA NextInv == AggInv /\ [AggNext]_vars => AggInv'
<1> SUFFICES ASSUME AggInv, [AggNext]_vars PROVE AggInv'
  OBVIOUS
<1>1. ASSUME NEW c \in Clients, Send(c) \/ Crash(c) PROVE AggInv'
  BY <1>1, SendInv, CrashInv
<1>2. ASSUME NEW c \in Clients, CallerStep(c) PROVE AggInv'
  BY <1>2, FetchedInv, ReservedInv, RetryInv, FetchErrorInv, CreatePseudoSpanInv, SetReservedInv,
     StoredInv, StoreErrorInv, PublishInv, CreateEventSpanInv, TracerErrorInv DEF CallerStep
<1>3. ASSUME NEW c \in Clients, CacheStep(c) PROVE AggInv'
  BY <1>3, CacheReserveInv, CacheStoreInv, CacheReturnInv, CacheLateDropInv DEF CacheStep
<1>4. ASSUME NEW k \in Keys, CacheExpire(k) PROVE AggInv'
  BY <1>4, CacheExpireInv
<1>5. CASE UNCHANGED vars
  <2> USE <1>5 DEF vars, cacheVars, callVars, callerVars, historyVars, AggInv
  <2>1. AggTypeOK' /\ CallMatchesCaller'
    BY Basics DEF AggTypeOK, TypeOK, CallsTypeOK, CallMatchesCaller
  <2>2. EntriesRecorded'
    BY QuietEntries
  <2>3. AnswersRecorded'
    BY Basics, UnchangedAnswers
  <2>4. LivesRecorded'
    BY Basics DEF LivesRecorded, AggTypeOK
  <2>5. ResultMatchesCaller' /\ StoredOnce' /\ LinkJobs'
    BY Basics DEF ResultMatchesCaller, StoredOnce, LinkJobs
  <2>6. ResultWasCached'
    BY Basics DEF ResultWasCached
  <2> QED
    BY <2>1, <2>2, <2>3, <2>4, <2>5, <2>6
<1> QED
  BY <1>1, <1>2, <1>3, <1>4, <1>5 DEF AggNext

\* The inductive invariant holds in every reachable state, whatever expires,
\* fails, crashes or arrives late.
THEOREM AggregatorInvariant == AggSpec => []AggInv
  BY InitInv, NextInv, PTL DEF AggSpec

\* Send, EnsureObjectSpan and GetOrCreatePseudoSpan keep their state well typed.
THEOREM TypeCorrect == AggSpec => []AggTypeOK
<1>1. AggInv => AggTypeOK
  BY DEF AggInv
<1> QED
  BY <1>1, AggregatorInvariant, PTL

\* GetOrCreatePseudoSpan only returns spans the cache held under the key of the
\* call, at some moment between the beginning of the call and its answer.
THEOREM ReturnedSpansWereCached == AggSpec => []ResultWasCached
<1>1. AggInv => ResultWasCached
  BY DEF AggInv
<1> QED
  BY <1>1, AggregatorInvariant, PTL

\* Concurrent callers of GetOrCreatePseudoSpan get the same span for the same
\* key as long as the entry does not expire in between.
THEOREM Agreement == AggSpec => []AgreeWithinLife
<1>1. AggInv => AgreeWithinLife
  <2> SUFFICES ASSUME AggInv, NEW c \in Clients, NEW d \in Clients,
                      result[c] # 0, result[d] # 0, KeyOf(c) = KeyOf(d), result[c] # result[d]
               PROVE  to[c] > from[d] \/ to[d] > from[c]
    BY DEF AgreeWithinLife
  <2>1. PICK h \in cached : h.key = KeyOf(c) /\ h.span = result[c] /\ from[c] <= h.life /\ h.life <= to[c]
    BY DEF AggInv, ResultWasCached
  <2>2. PICK i \in cached : i.key = KeyOf(d) /\ i.span = result[d] /\ from[d] <= i.life /\ i.life <= to[d]
    BY DEF AggInv, ResultWasCached
  <2>3. h.life # i.life
    BY <2>1, <2>2 DEF AggInv, StoredOnce
  <2>4. h.life \in Nat /\ i.life \in Nat /\ from[c] \in Nat /\ from[d] \in Nat /\ to[c] \in Nat /\ to[d] \in Nat
    BY DEF AggInv, AggTypeOK
  <2> QED
    BY <2>1, <2>2, <2>3, <2>4
<1> QED
  BY <1>1, AggregatorInvariant, PTL

\* A link job is published once per stored span, by its creator, and is lost
\* only with the creator.
THEOREM LinkJobsPublished == AggSpec => [](StoredOnce /\ LinkJobs)
<1>1. AggInv => StoredOnce /\ LinkJobs
  BY DEF AggInv
<1> QED
  BY <1>1, AggregatorInvariant, PTL

\* Quotient and remainder.
LEMMA Division ==
  ASSUME NEW a \in Nat, NEW n \in Nat \ {0}
  PROVE  /\ a \div n \in Nat /\ a % n \in Nat /\ a % n < n
         /\ a = n * (a \div n) + (a % n)
  BY SMT

\* Multiplication keeps the order.
LEMMA Products ==
  ASSUME NEW a \in Nat, NEW b \in Nat, NEW n \in Nat, a <= b
  PROVE  a * n \in Nat /\ b * n \in Nat /\ a * n <= b * n
  BY SMT

\* Two times of one window: the second is covered by the span that starts for the
\* first.
LEMMA SameWindow ==
  ASSUME NEW t \in Times, NEW u \in Times, Unix(t) \div SpanTtl = Unix(u) \div SpanTtl
  PROVE  StartTime(t) < u + Second /\ u < FinishTime(t)
<1> DEFINE S == Second
           W == SpanTtl
           x == Unix(t)
           y == Unix(u)
           q == x \div W
<1>1. t \in Nat /\ u \in Nat /\ S \in Nat \ {0} /\ W \in Nat \ {0}
  BY AggregatorAssumption
<1>2. /\ x \in Nat /\ t % S \in Nat /\ t % S < S /\ t = S * x + (t % S)
      /\ y \in Nat /\ u % S \in Nat /\ u % S < S /\ u = S * y + (u % S)
  BY <1>1, Division DEF Unix
<1> HIDE DEF x, y
<1>3. /\ q \in Nat /\ x % W \in Nat /\ x % W < W /\ x = W * q + (x % W)
      /\ y % W \in Nat /\ y % W < W /\ y = W * q + (y % W)
  BY <1>1, <1>2, Division DEF x, y
<1>4. StartTime(t) = t - (x % W) * S /\ FinishTime(t) = StartTime(t) + W * S
  BY DEF StartTime, FinishTime, x
<1> HIDE DEF q, S, W
<1>5. StartTime(t) = (W * q) * S + (t % S)
  <2>1. PICK r \in Nat : r = x % W
    BY <1>3
  <2>2. PICK w \in Nat : w = W * q
    BY <1>1, <1>3
  <2>3. S * x = w * S + r * S
    BY <1>1, <1>2, <1>3, <2>1, <2>2
  <2>4. w * S \in Nat /\ r * S \in Nat
    BY <1>1, <2>1, <2>2
  <2> QED
    BY <1>2, <1>4, <2>1, <2>2, <2>3, <2>4
<1>6. u = (W * q) * S + (y % W) * S + (u % S)
  <2>1. PICK r \in Nat : r = y % W
    BY <1>3
  <2>2. PICK w \in Nat : w = W * q
    BY <1>1, <1>3
  <2>3. S * y = w * S + r * S
    BY <1>1, <1>2, <1>3, <2>1, <2>2
  <2> QED
    BY <1>2, <2>1, <2>2, <2>3
<1>7. (y % W) * S + S <= W * S /\ (y % W) * S \in Nat
  <2>1. PICK r \in Nat : r = y % W
    BY <1>3
  <2>2. r + 1 <= W
    BY <1>1, <1>3, <2>1
  <2>3. (r + 1) * S <= W * S
    <3>1. r + 1 \in Nat /\ W \in Nat /\ S \in Nat
      BY <1>1, <2>1
    <3> QED
      BY <2>2, <3>1, Products
  <2>4. (r + 1) * S = r * S + S
    BY <1>1, <2>1
  <2> QED
    BY <1>1, <2>1, <2>3, <2>4
<1>8. PICK a \in Nat : a = (W * q) * S
  BY <1>1, <1>3
<1>9. PICK b \in Nat : b = (y % W) * S
  BY <1>7
<1>10. PICK c \in Nat : c = W * S
  BY <1>1
<1> QED
  BY <1>1, <1>2, <1>4, <1>5, <1>6, <1>7, <1>8, <1>9, <1>10 DEF S, W

\* The span that EnsureObjectSpan returns covers the time of the event, although
\* CreatePseudoSpan computed its start for another event of the window, in seconds
\* by a remainder, and expiringSpanCacheKey the window by a division.
THEOREM SpansCoverEvents == AggSpec => []SpanCoversEvent
<1>1. AggInv => SpanCoversEvent
  <2> SUFFICES ASSUME AggInv, NEW c \in Clients, result[c] # 0
               PROVE  StartTime(time[result[c]]) < time[c] + Second /\ time[c] < FinishTime(time[result[c]])
    BY DEF SpanCoversEvent
  <2>1. PICK h \in cached : h.key = KeyOf(c) /\ h.span = result[c]
    BY DEF AggInv, ResultWasCached
  <2>2. KeyOf(result[c]) = KeyOf(c)
    BY <2>1 DEF AggInv, LivesRecorded
  <2>3. result[c] \in Clients /\ time[result[c]] \in Times /\ time[c] \in Times
    BY DEF AggInv, AggTypeOK
  <2>4. Unix(time[result[c]]) \div SpanTtl = Unix(time[c]) \div SpanTtl
    BY <2>2 DEF KeyOf, CacheKey
  <2> QED
    BY <2>3, <2>4, SameWindow
<1> QED
  BY <1>1, AggregatorInvariant, PTL
=============================================================================
