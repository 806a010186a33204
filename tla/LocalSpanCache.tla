--------------------------- MODULE LocalSpanCache ---------------------------
(***************************************************************************)
(* spancache/local: the in-memory span cache.  A map, guarded by           *)
(* entriesLock, holds pointers to entries that have a lock of their own.   *)
(* An operation takes the pointer under the first lock and uses the entry  *)
(* under the second, and Trim may unlink the entry in between.             *)
(***************************************************************************)
EXTENDS SpanCacheCalls, FiniteSets, FiniteSetsExt

CONSTANTS
  ReserveTtl,    \* ttl argument of FetchOrReserve
  SpanTtl,       \* ttl argument of SetReserved
  Vals,          \* values clients store
  MaxUid,        \* bound: uids handed out
  MaxTime        \* bound: clock ticks

ASSUME LocalAssumption ==
  /\ ReserveTtl \in Nat /\ SpanTtl \in Nat
  /\ MaxUid \in Nat /\ MaxTime \in Nat
  /\ Vals \subseteq Nat \ {0}
  /\ IsFiniteSet(Clients)

VARIABLES
  now,           \* cache.Clock
  uids,          \* number of uids drawn so far; randUid never repeats one
  entries,       \* entries[k]: pointer to the entry of key k, 0 for nil
  heap,          \* heap[p]: the entry behind pointer p
  ptr,           \* ptr[c]: the pointer a running call holds, 0 before it has one
  expiry,        \* expiry[c]: deadline computed on entry to FetchOrReserve
  trim           \* keys Trim still has to visit, and the one it is deleting

localVars == <<now, uids, entries, heap, ptr, expiry, trim, callVars>>

\* A pointer is the uid its entry was created with.
Ptrs == 1..MaxUid
Nil == 0
NoEntry == [val |-> 0, expiry |-> 0, uid |-> 0]
NotTrimming == [on |-> FALSE, todo |-> {}, victim |-> {}]

Init ==
  /\ CallsInit
  /\ now = 0
  /\ uids = 0
  /\ entries = [k \in Keys |-> Nil]
  /\ heap = [p \in Ptrs |-> NoEntry]
  /\ ptr = [c \in Clients |-> Nil]
  /\ expiry = [c \in Clients |-> 0]
  /\ trim = NotTrimming

\* ent.expiry.Before(cache.Clock.Now())
Expired(p) == heap[p].expiry < now

\* SetReserved refuses an entry that is initialized or has expired.
NotReserved_expiryIgnored(p) == heap[p].val # 0
NotReserved(p) == heap[p].val # 0 \/ Expired(p)

\* What the map says of key k, in the terms of the contract.
EntryOf(k, es, h) ==
  IF es[k] = Nil THEN Invalid ELSE [uid |-> es[k], val |-> h[es[k]].val]
AbsEntry == [k \in Keys |-> EntryOf(k, entries, heap)]

-----------------------------------------------------------------------------
\* The clock value is read before any lock is taken.
FetchOrReserve(c, k) ==
  /\ Enter(c, "FetchOrReserve", k, 0, 0, AbsEntry[k])
  /\ expiry' = [expiry EXCEPT ![c] = now + ReserveTtl]
  /\ UNCHANGED <<now, uids, entries, heap, ptr, trim>>

Fetch(c, k) ==
  /\ Enter(c, "Fetch", k, 0, 0, AbsEntry[k])
  /\ UNCHANGED <<now, uids, entries, heap, ptr, expiry, trim>>

SetReserved(c, k, u, v) ==
  /\ Enter(c, "SetReserved", k, u, v, AbsEntry[k])
  /\ UNCHANGED <<now, uids, entries, heap, ptr, expiry, trim>>

EntriesUnlocked == ~trim.on

\* Returning drops the pointer and the deadline with the stack frame.
Finish(c, r) ==
  /\ Leave(c, r)
  /\ ptr' = [ptr EXCEPT ![c] = Nil]
  /\ expiry' = [expiry EXCEPT ![c] = 0]

\* randUid reports an error of the entropy source.
RandFailure(c) ==
  /\ \/ call[c].op = "FetchOrReserve" /\ ptr[c] = Nil /\ EntriesUnlocked
        /\ entries[call[c].key] = Nil
     \/ call[c].op = "SetReserved" /\ ptr[c] # Nil
        /\ ~NotReserved(ptr[c]) /\ heap[ptr[c]].uid = call[c].uid
  /\ Finish(c, Answer("failure"))
  /\ UNCHANGED <<now, uids, entries, heap, trim>>

getOrInsertEntry(c) ==
  LET k == call[c].key
      u == uids + 1
  IN
  /\ call[c].op = "FetchOrReserve"
  /\ ptr[c] = Nil
  /\ EntriesUnlocked
  /\ \/ /\ entries[k] # Nil
        /\ ptr' = [ptr EXCEPT ![c] = entries[k]]
        /\ UNCHANGED <<uids, entries, heap, call, seen>>
     \/ /\ entries[k] = Nil
        /\ uids' = u
        /\ entries' = [entries EXCEPT ![k] = u]
        /\ heap' = [heap EXCEPT ![u] = [val |-> 0, expiry |-> expiry[c], uid |-> u]]
        /\ ptr' = [ptr EXCEPT ![c] = u]
        /\ call' = [call EXCEPT ![c] = [op |-> "reserved", key |-> @.key, uid |-> u, val |-> 0]]
        /\ Observe(k, EntryOf(k, entries', heap'))
  /\ UNCHANGED <<now, expiry, trim, resp>>

\* The rest of FetchOrReserve, under the lock of the entry; "reserved" is
\* isInsert.
readEntry(c) ==
  LET ent == heap[ptr[c]] IN
  /\ call[c].op \in {"FetchOrReserve", "reserved"}
  /\ ptr[c] # Nil
  /\ Finish(c, IF ent.val # 0 \/ call[c].op = "reserved"
                 THEN EntryAnswer(ent.uid, ent.val)
                 ELSE Answer("ErrAlreadyReserved"))
  /\ UNCHANGED <<now, uids, entries, heap, trim>>

getEntry(c) ==
  LET p == entries[call[c].key] IN
  /\ call[c].op \in {"Fetch", "SetReserved"}
  /\ ptr[c] = Nil
  /\ EntriesUnlocked
  /\ \/ /\ p # Nil
        /\ ptr' = [ptr EXCEPT ![c] = p]
        /\ UNCHANGED <<expiry, callVars>>
     \/ /\ p = Nil
        /\ Finish(c, Answer(IF call[c].op = "Fetch" THEN "absent" ELSE "ErrInvalidKey"))
  /\ UNCHANGED <<now, uids, entries, heap, trim>>

fetchEntry(c) ==
  LET ent == heap[ptr[c]] IN
  /\ call[c].op = "Fetch"
  /\ ptr[c] # Nil
  /\ Finish(c, EntryAnswer(ent.uid, ent.val))
  /\ UNCHANGED <<now, uids, entries, heap, trim>>

\* The rest of SetReserved, under the lock of the entry.
setEntry(c) ==
  LET p == ptr[c] IN
  /\ call[c].op = "SetReserved"
  /\ p # Nil
  /\ \/ /\ NotReserved(p)
        /\ Finish(c, Answer("ErrInvalidKey"))
        /\ UNCHANGED <<uids, heap>>
     \/ /\ ~NotReserved(p)
        /\ heap[p].uid # call[c].uid
        /\ Finish(c, Answer("ErrUidMismatch"))
        /\ UNCHANGED <<uids, heap>>
     \/ /\ ~NotReserved(p)
        /\ heap[p].uid = call[c].uid
        /\ uids' = uids + 1
        /\ heap' = [heap EXCEPT ![p] =
                      [val |-> call[c].val, expiry |-> now + SpanTtl, uid |-> uids + 1]]
        /\ call' = [call EXCEPT ![c].op = "stored"]
        /\ IF entries[call[c].key] = p
             THEN Observe(call[c].key, EntryOf(call[c].key, entries, heap'))
             ELSE UNCHANGED seen
        /\ UNCHANGED <<ptr, expiry, resp>>
  /\ UNCHANGED <<now, entries, trim>>

\* SetReserved has nothing left to do but return.
setReturn(c) ==
  /\ call[c].op = "stored"
  /\ Finish(c, Answer("ok"))
  /\ UNCHANGED <<now, uids, entries, heap, trim>>

-----------------------------------------------------------------------------
\* Trim holds entriesLock for the whole iteration, but takes the lock of an
\* entry only to look at its expiry.
Trim_onlyInitialized ==
  /\ ~trim.on
  /\ trim' = [on |-> TRUE, todo |-> {k \in Keys : AbsEntry[k].val # 0}, victim |-> {}]
  /\ UNCHANGED <<now, uids, entries, heap, ptr, expiry, callVars>>

Trim ==
  /\ ~trim.on
  /\ trim' = [on |-> TRUE, todo |-> {k \in Keys : entries[k] # Nil}, victim |-> {}]
  /\ UNCHANGED <<now, uids, entries, heap, ptr, expiry, callVars>>

trimCheck(k) ==
  /\ k \in trim.todo
  /\ trim.victim = {}
  /\ trim' = [trim EXCEPT !.todo = @ \ {k},
                          !.victim = IF Expired(entries[k]) THEN {k} ELSE {}]
  /\ UNCHANGED <<now, uids, entries, heap, ptr, expiry, callVars>>

trimDelete ==
  /\ \E k \in trim.victim :
       /\ entries' = [entries EXCEPT ![k] = Nil]
       /\ Observe(k, Invalid)
  /\ trim' = [trim EXCEPT !.victim = {}]
  /\ UNCHANGED <<now, uids, heap, ptr, expiry, call, resp>>

trimEnd ==
  /\ trim.on
  /\ trim.todo = {}
  /\ trim.victim = {}
  /\ trim' = NotTrimming
  /\ UNCHANGED <<now, uids, entries, heap, ptr, expiry, callVars>>

Tick ==
  /\ now < MaxTime
  /\ now' = now + 1
  /\ UNCHANGED <<uids, entries, heap, ptr, expiry, trim, callVars>>

\* Bound: every running call may draw one more uid.
UidsLeft == uids + Cardinality({c \in Clients : ~Idle(c)}) < MaxUid

\* A client stores with the uid of the entry it was last given.
ClientCalls(c) ==
  /\ UidsLeft
  /\ \/ \E k \in Keys : FetchOrReserve(c, k) \/ Fetch(c, k)
     \/ \E k \in Keys, v \in Vals :
          resp[c].kind = "entry" /\ SetReserved(c, k, resp[c].uid, v)

Step(c) ==
  \/ getOrInsertEntry(c) \/ readEntry(c) \/ getEntry(c) \/ fetchEntry(c)
  \/ setEntry(c) \/ setReturn(c) \/ RandFailure(c)

TrimStep == trimDelete \/ trimEnd \/ \E k \in Keys : trimCheck(k)

Next ==
  \/ \E c \in Clients : ClientCalls(c) \/ Step(c)
  \/ Trim
  \/ TrimStep
  \/ Tick

Spec == Init /\ [][Next]_localVars

\* A goroutine inside the cache keeps running and sync.Mutex does not starve
\* a waiter; the goroutine of Start calls Trim again and again.
Fairness ==
  /\ \A c \in Clients : SF_localVars(Step(c))
  /\ WF_localVars(Trim)
  /\ WF_localVars(TrimStep)

FairSpec == Spec /\ Fairness

-----------------------------------------------------------------------------
\* Types of the state of the local cache.
TypeOK ==
  /\ CallsTypeOK
  /\ now \in 0..MaxTime
  /\ uids \in 0..MaxUid
  /\ entries \in [Keys -> {Nil} \cup Ptrs]
  /\ heap \in [Ptrs -> [val : {0} \cup Vals, expiry : Nat, uid : 0..MaxUid]]
  /\ ptr \in [Clients -> {Nil} \cup Ptrs]
  /\ expiry \in [Clients -> Nat]
  /\ trim \in [on : BOOLEAN, todo : SUBSET Keys, victim : SUBSET Keys]

Allocated == {p \in Ptrs : heap[p].uid # 0}

\* The local cache implements the contract, answers included: taking the
\* pointer under one lock and using it under another never shows a client a
\* state its key did not have during the call, and never stores into an entry
\* that Trim has unlinked.
Contract ==
  INSTANCE SpanCache WITH
    entry <- AbsEntry,
    lastUid <- IF Allocated = {} THEN 0 ELSE Max(Allocated),
    late <- [c \in Clients |-> NoCall]
ImplementsContract == Contract!Spec

\* An entry that is no longer in the map has expired and so stays expired:
\* SetReserved, which refuses expired entries, cannot revive what Trim is
\* unlinking between its look at the expiry and its delete.
UnlinkedIsExpired ==
  \A p \in Allocated : (\A k \in Keys : entries[k] # p) => Expired(p)

\* Every call returns, whatever Trim does with entriesLock.
CallsReturn == \A c \in Clients : ~Idle(c) ~> Idle(c)

\* An entry that nobody completes does not occupy its key for ever.
ExpiredIsTrimmed ==
  \A k \in Keys : (entries[k] # Nil /\ Expired(entries[k])) ~> entries[k] = Nil

\* "FetchOrReserve reserves an entry if it is invalid": a reservation that had
\* expired when the call began does not make FetchOrReserve report
\* ErrAlreadyReserved.
ExpiredReservationIsInvalid ==
  [][\A c \in Clients :
       /\ call[c].op = "FetchOrReserve"
       /\ resp'[c] = Answer("ErrAlreadyReserved")
       => heap[ptr[c]].expiry >= expiry[c] - ReserveTtl]_localVars

\* "Returns nil if the entry does not exist or has expired": Fetch does not go
\* on with an entry that has expired when it finds it.
ExpiredIsNotFetched ==
  [][\A c \in Clients :
       call[c].op = "Fetch" /\ ptr[c] = Nil /\ ptr'[c] # Nil => ~Expired(ptr'[c])]_localVars
=============================================================================
