----------------------- MODULE LocalSpanCache_proofs ------------------------
(***************************************************************************)
(* The local span cache implements the contract of spancache.Cache, for    *)
(* any number of keys and of goroutines.  The heart of the matter is that  *)
(* a call which took its pointer under entriesLock may use it after Trim   *)
(* has unlinked the entry: what makes that harmless is that an unlinked    *)
(* entry is an expired one, and that SetReserved refuses those.            *)
(***************************************************************************)
EXTENDS LocalSpanCache, FiniteSetTheorems, WellFoundedInduction, TLAPS

\* The calls that may still draw a uid.
Drawing == {c \in Clients : call[c].op \in {"FetchOrReserve", "Fetch", "SetReserved"}}

UidsBounded == uids + Cardinality(Drawing) <= MaxUid

\* An entry that is reserved still has the uid it was created with, which is
\* its pointer.
HeapSound == \A p \in Allocated : p <= uids /\ (heap[p].val = 0 => heap[p].uid = p)

\* An entry is in the map under one key at most.
EntriesSound ==
  /\ \A k \in Keys : entries[k] # Nil => entries[k] \in Allocated
  /\ \A j, k \in Keys : entries[k] # Nil /\ entries[j] = entries[k] => j = k

\* The pointer of a running call is that of an entry its key had during the
\* call, in the state in which the entry is now.
PointerSound(c) ==
  /\ ptr[c] \in Allocated
  /\ \A k \in Keys : entries[k] = ptr[c] => k = call[c].key
  /\ [uid |-> ptr[c], val |-> heap[ptr[c]].val] \in seen[c]
CallsSound ==
  \A c \in Clients :
    /\ ptr[c] # Nil => PointerSound(c)
    /\ Idle(c) => ptr[c] = Nil
    /\ call[c].op = "stored" => ptr[c] # Nil
    /\ call[c].op = "reserved" => ptr[c] # Nil /\ call[c].uid = ptr[c]
    /\ call[c].op = "SetReserved" => call[c].val \in Vals

\* The state of its key is among those that a running call could observe.
SeenIsCurrent == \A c \in Clients : ~Idle(c) => AbsEntry[call[c].key] \in seen[c]

\* Trim has the map to itself: what it is about to visit stays there, and what
\* it found expired stays expired.
TrimSound ==
  /\ ~trim.on => trim.todo = {} /\ trim.victim = {}
  /\ \A k \in trim.todo : entries[k] # Nil /\ k \notin trim.victim
  /\ \A k \in trim.victim : entries[k] # Nil /\ Expired(entries[k])

\* The inductive invariant.
LocalInv ==
  /\ TypeOK
  /\ UidsBounded
  /\ HeapSound
  /\ EntriesSound
  /\ CallsSound
  /\ SeenIsCurrent
  /\ UnlinkedIsExpired
  /\ TrimSound

-----------------------------------------------------------------------------
(* Lemmas *)

LEMMA NoCallIsCall == NoCall \in Call /\ NoCall.op = "none"
  BY KeysAssumption DEF NoCall, AnyKey, Call, Ops

\* Changing the call of one client changes the number of those that may draw
\* a uid by one at most.
LEMMA DrawingCounts ==
  ASSUME NEW c \in Clients, \A d \in Clients \ {c} : call'[d] = call[d]
  PROVE  /\ Cardinality(Drawing) \in Nat /\ Cardinality(Drawing') \in Nat
         /\ c \in Drawing' => Cardinality(Drawing') <= Cardinality(Drawing) + 1
         /\ c \notin Drawing' => Cardinality(Drawing') <= Cardinality(Drawing)
         /\ c \in Drawing /\ c \notin Drawing' => Cardinality(Drawing') = Cardinality(Drawing) - 1
         /\ c \in Drawing => Cardinality(Drawing) > 0
<1>1. Drawing \subseteq Clients /\ Drawing' \subseteq Clients
  BY DEF Drawing
<1>2. \A d \in Clients \ {c} : d \in Drawing' <=> d \in Drawing
  BY DEF Drawing
<1> HIDE DEF Drawing
<1>3. IsFiniteSet(Drawing) /\ IsFiniteSet(Drawing')
  BY <1>1, LocalAssumption, FS_Subset
<1>4. Cardinality(Drawing) \in Nat /\ Cardinality(Drawing') \in Nat
  BY <1>3, FS_CardinalityType
<1>5. c \in Drawing => Cardinality(Drawing) > 0
  BY <1>3, <1>4, FS_EmptySet
<1>6. CASE c \in Drawing'
  <2>1. Drawing' \subseteq Drawing \cup {c}
    BY <1>1, <1>2
  <2>2. /\ IsFiniteSet(Drawing \cup {c})
        /\ Cardinality(Drawing \cup {c}) = IF c \in Drawing THEN Cardinality(Drawing) ELSE Cardinality(Drawing) + 1
    BY <1>3, FS_AddElement
  <2>3. Cardinality(Drawing') <= Cardinality(Drawing \cup {c})
    BY <2>1, <2>2, FS_Subset
  <2> QED
    BY <1>4, <1>5, <1>6, <2>2, <2>3
<1>7. CASE c \notin Drawing' /\ c \in Drawing
  <2>1. Drawing' = Drawing \ {c}
    BY <1>1, <1>2, <1>7
  <2>2. Cardinality(Drawing') = Cardinality(Drawing) - 1
    BY <1>3, <1>7, <2>1, FS_RemoveElement
  <2> QED
    BY <1>4, <1>5, <1>7, <2>2
<1>8. CASE c \notin Drawing' /\ c \notin Drawing
  <2>1. Drawing' = Drawing
    BY <1>1, <1>2, <1>8
  <2> QED
    BY <1>4, <1>8, <2>1
<1> QED
  BY <1>6, <1>7, <1>8

\* What Observe adds to what running calls have seen.
LEMMA SeenGrows ==
  ASSUME CallsTypeOK, NEW k \in Keys, NEW e \in Entry, Observe(k, e)
  PROVE  /\ seen' \in [Clients -> SUBSET Entry]
         /\ \A c \in Clients : seen[c] \subseteq seen'[c]
         /\ \A c \in Clients : ~Idle(c) /\ call[c].key = k => e \in seen'[c]
  BY DEF CallsTypeOK, Observe, Idle

\* The types, one by one.
LEMMA Types ==
  ASSUME LocalInv
  PROVE  /\ call \in [Clients -> Call] /\ resp \in [Clients -> Response] /\ seen \in [Clients -> SUBSET Entry]
         /\ now \in Nat /\ now <= MaxTime /\ uids \in Nat /\ uids <= MaxUid
         /\ MaxUid \in Nat /\ MaxTime \in Nat /\ ReserveTtl \in Nat /\ SpanTtl \in Nat
         /\ entries \in [Keys -> {Nil} \cup Ptrs]
         /\ heap \in [Ptrs -> [val : {0} \cup Vals, expiry : Nat, uid : 0..MaxUid]]
         /\ ptr \in [Clients -> {Nil} \cup Ptrs]
         /\ expiry \in [Clients -> Nat]
         /\ trim \in [on : BOOLEAN, todo : SUBSET Keys, victim : SUBSET Keys]
         /\ Allocated \subseteq Ptrs /\ Nil \notin Ptrs
         /\ \A p \in Allocated : p # Nil /\ p \in Nat
         /\ \A p \in Ptrs : heap[p].val \in Nat /\ heap[p].expiry \in Nat /\ heap[p].uid \in Nat
         /\ Vals \subseteq Nat /\ 0 \notin Vals
<1>0. TypeOK /\ CallsTypeOK
  BY DEF LocalInv, TypeOK
<1>1. Allocated \subseteq Ptrs /\ Nil \notin Ptrs /\ \A p \in Ptrs : p # Nil /\ p \in Nat
  BY LocalAssumption DEF Allocated, Ptrs, Nil
<1>2. \A p \in Ptrs : heap[p].val \in Nat /\ heap[p].expiry \in Nat /\ heap[p].uid \in Nat
  <2> SUFFICES ASSUME NEW p \in Ptrs PROVE heap[p].val \in Nat /\ heap[p].expiry \in Nat /\ heap[p].uid \in Nat
    OBVIOUS
  <2>1. heap[p] \in [val : {0} \cup Vals, expiry : Nat, uid : 0..MaxUid]
    BY <1>0 DEF TypeOK
  <2>2. heap[p].val \in {0} \cup Vals /\ heap[p].expiry \in Nat /\ heap[p].uid \in 0..MaxUid
    BY <2>1
  <2>3. {0} \cup Vals \subseteq Nat /\ 0..MaxUid \subseteq Nat
    BY LocalAssumption
  <2> QED
    BY <2>2, <2>3, Zenon
<1>3. now \in Nat /\ now <= MaxTime /\ uids \in Nat /\ uids <= MaxUid
  BY <1>0, LocalAssumption DEF TypeOK
<1> QED
  BY <1>0, <1>1, <1>2, <1>3, LocalAssumption DEF TypeOK, CallsTypeOK

\* The state of a key as the contract has it.
LEMMA AbsTypes ==
  ASSUME LocalInv, NEW k \in Keys
  PROVE  /\ AbsEntry[k] \in Entry
         /\ entries[k] = Nil => AbsEntry[k] = Invalid
         /\ entries[k] # Nil => AbsEntry[k] = [uid |-> entries[k], val |-> heap[entries[k]].val]
<1>1. AbsEntry[k] = EntryOf(k, entries, heap)
  BY DEF AbsEntry
<1>2. entries[k] # Nil => entries[k] \in Ptrs /\ entries[k] \in Nat /\ heap[entries[k]].val \in Nat
  BY Types DEF Ptrs
<1> QED
  BY <1>1, <1>2 DEF EntryOf, Invalid, Entry

\* There is a uid left for every call that may draw one.
LEMMA UidLeft ==
  ASSUME LocalInv, NEW c \in Drawing
  PROVE  /\ uids + 1 \in 1..MaxUid /\ uids + 1 \in 0..MaxUid /\ uids + 1 \in Ptrs /\ uids + 1 # Nil
         /\ uids + 1 \in Nat /\ uids + 1 <= MaxUid
<1>1. Drawing \subseteq Clients
  BY DEF Drawing
<1>2. IsFiniteSet(Drawing)
  BY <1>1, LocalAssumption, FS_Subset
<1>3. Cardinality(Drawing) \in Nat /\ Cardinality(Drawing) # 0
  BY <1>2, FS_CardinalityType, FS_EmptySet
<1>4. uids + Cardinality(Drawing) <= MaxUid /\ uids \in Nat /\ MaxUid \in Nat
  BY Types DEF LocalInv, UidsBounded
<1> HIDE DEF Drawing
<1>5. uids + 1 <= MaxUid
  BY <1>3, <1>4
<1> QED
  BY <1>4, <1>5 DEF Ptrs, Nil

\* Nothing but the calls has changed, and the call of c is over or did not
\* exist: the others are as sound as they were.
LEMMA FinishInv ==
  ASSUME LocalInv, NEW c \in Clients, NEW r \in Response, Finish(c, r),
         UNCHANGED <<now, uids, entries, heap, trim>>
  PROVE  LocalInv'
<1>0. /\ call' = [call EXCEPT ![c] = NoCall] /\ resp' = [resp EXCEPT ![c] = r]
      /\ seen' = [seen EXCEPT ![c] = {}] /\ ptr' = [ptr EXCEPT ![c] = Nil] /\ expiry' = [expiry EXCEPT ![c] = 0]
  BY DEF Finish, Leave
<1>1. /\ call' \in [Clients -> Call] /\ resp' \in [Clients -> Response] /\ seen' \in [Clients -> SUBSET Entry]
      /\ ptr' \in [Clients -> {Nil} \cup Ptrs] /\ expiry' \in [Clients -> Nat]
  BY <1>0, Types, NoCallIsCall
<1>2. \A d \in Clients \ {c} : call'[d] = call[d] /\ seen'[d] = seen[d] /\ ptr'[d] = ptr[d]
  BY <1>0, Types
<1>3. call'[c].op = "none" /\ ptr'[c] = Nil
  BY <1>0, Types, NoCallIsCall
<1>4. TypeOK'
  BY <1>1 DEF LocalInv, TypeOK, CallsTypeOK
<1>5. UidsBounded'
  <2>1. c \notin Drawing'
    BY <1>3 DEF Drawing
  <2>2. Cardinality(Drawing') <= Cardinality(Drawing) /\ Cardinality(Drawing) \in Nat /\ Cardinality(Drawing') \in Nat
    BY <1>2, <2>1, DrawingCounts
  <2> QED
    BY <2>2, Types DEF LocalInv, UidsBounded
<1>6. CallsSound'
  <2> SUFFICES ASSUME NEW d \in Clients
               PROVE  (/\ ptr[d] # Nil => PointerSound(d)
                       /\ Idle(d) => ptr[d] = Nil
                       /\ call[d].op = "stored" => ptr[d] # Nil
                       /\ call[d].op = "reserved" => ptr[d] # Nil /\ call[d].uid = ptr[d]
                       /\ call[d].op = "SetReserved" => call[d].val \in Vals)'
    BY DEF CallsSound
  <2>1. CASE d = c
    BY <1>3, <2>1 DEF Idle
  <2>2. CASE d # c
    BY <1>2, <2>2 DEF LocalInv, CallsSound, PointerSound, Idle, Allocated
  <2> QED
    BY <2>1, <2>2
<1>7. SeenIsCurrent'
  BY <1>2, <1>3 DEF LocalInv, SeenIsCurrent, Idle, AbsEntry
<1> QED
  BY <1>4, <1>5, <1>6, <1>7
  DEF LocalInv, HeapSound, EntriesSound, Allocated, UnlinkedIsExpired, Expired, TrimSound

LEMMA EnterInv ==
  ASSUME LocalInv, NEW c \in Clients, NEW op \in {"FetchOrReserve", "Fetch", "SetReserved"}, NEW k \in Keys,
         NEW u \in Nat, NEW v \in Nat, op = "SetReserved" => v \in Vals, UidsLeft,
         Enter(c, op, k, u, v, AbsEntry[k]), expiry' \in [Clients -> Nat],
         UNCHANGED <<now, uids, entries, heap, ptr, trim>>
  PROVE  LocalInv'
<1> DEFINE q == [op |-> op, key |-> k, uid |-> u, val |-> v]
<1>0. /\ call' = [call EXCEPT ![c] = q] /\ resp' = [resp EXCEPT ![c] = Answer("none")]
      /\ seen' = [seen EXCEPT ![c] = {AbsEntry[k]}] /\ Idle(c)
  BY DEF Enter
<1>1. q \in Call /\ Answer("none") \in Response /\ q.op = op /\ q.key = k /\ q.val = v
  <2>1. q \in Call
    BY DEF Call, Ops
  <2>2. Answer("none") \in Response
    BY DEF Answer, Response, Kinds
  <2> QED
    BY <2>1, <2>2
<1> HIDE DEF q
<1>2. call' \in [Clients -> Call] /\ resp' \in [Clients -> Response] /\ seen' \in [Clients -> SUBSET Entry]
  <2>1. /\ call \in [Clients -> Call] /\ resp \in [Clients -> Response] /\ seen \in [Clients -> SUBSET Entry]
    BY Types
  <2>2. AbsEntry[k] \in Entry
    BY AbsTypes
  <2> QED
    BY <1>0, <1>1, <2>1, <2>2
<1>3. \A d \in Clients \ {c} : call'[d] = call[d] /\ seen'[d] = seen[d]
  BY <1>0, Types
<1>4. call'[c] = q /\ seen'[c] = {AbsEntry[k]} /\ ptr[c] = Nil
  BY <1>0, Types DEF LocalInv, CallsSound
<1>5. TypeOK'
  BY <1>2 DEF LocalInv, TypeOK, CallsTypeOK
<1>6. UidsBounded'
  <2> DEFINE Running == {d \in Clients : ~Idle(d)}
  <2>1. Drawing' \subseteq Running \cup {c}
    BY <1>3 DEF Drawing, Idle
  <2>2. IsFiniteSet(Running)
    BY LocalAssumption, FS_Subset
  <2>3. IsFiniteSet(Running \cup {c}) /\ c \notin Running
    BY <1>0, <2>2, FS_AddElement
  <2>4. Cardinality(Running) \in Nat /\ Cardinality(Running \cup {c}) = Cardinality(Running) + 1
    BY <2>2, <2>3, FS_AddElement, FS_CardinalityType
  <2>5. Cardinality(Drawing') <= Cardinality(Running \cup {c})
    BY <2>1, <2>3, FS_Subset
  <2>6. IsFiniteSet(Drawing') /\ Cardinality(Drawing') \in Nat
    BY <2>1, <2>3, FS_Subset, FS_CardinalityType
  <2>7. uids + Cardinality(Running) < MaxUid
    BY DEF UidsLeft
  <2> HIDE DEF Running
  <2> QED
    BY <2>4, <2>5, <2>6, <2>7, Types DEF UidsBounded
<1>7. CallsSound'
  <2> SUFFICES ASSUME NEW d \in Clients
               PROVE  (/\ ptr[d] # Nil => PointerSound(d)
                       /\ Idle(d) => ptr[d] = Nil
                       /\ call[d].op = "stored" => ptr[d] # Nil
                       /\ call[d].op = "reserved" => ptr[d] # Nil /\ call[d].uid = ptr[d]
                       /\ call[d].op = "SetReserved" => call[d].val \in Vals)'
    BY DEF CallsSound
  <2>1. CASE d = c
    BY <1>1, <1>4, <2>1 DEF Idle
  <2>2. CASE d # c
    BY <1>3, <2>2 DEF LocalInv, CallsSound, PointerSound, Idle, Allocated
  <2> QED
    BY <2>1, <2>2
<1>8. SeenIsCurrent'
  BY <1>1, <1>3, <1>4 DEF LocalInv, SeenIsCurrent, Idle, AbsEntry
<1> QED
  BY <1>5, <1>6, <1>7, <1>8
  DEF LocalInv, HeapSound, EntriesSound, Allocated, UnlinkedIsExpired, Expired, TrimSound

\* The call of c takes the pointer of its key out of the map.
LEMMA TakeInv ==
  ASSUME LocalInv, NEW c \in Clients, ~Idle(c), call[c].op \notin {"reserved", "stored"},
         entries[call[c].key] # Nil, ptr' = [ptr EXCEPT ![c] = entries[call[c].key]],
         UNCHANGED <<now, uids, entries, heap, expiry, trim, call, resp, seen>>
  PROVE  LocalInv'
<1> DEFINE p == entries[call[c].key]
<1>0. call[c].key \in Keys /\ p \in Ptrs /\ p \in Allocated
  BY Types DEF Call, LocalInv, EntriesSound
<1>1. ptr' \in [Clients -> {Nil} \cup Ptrs] /\ ptr'[c] = p /\ \A d \in Clients \ {c} : ptr'[d] = ptr[d]
  BY <1>0, Types
<1>2. TypeOK'
  BY <1>1 DEF LocalInv, TypeOK, CallsTypeOK
<1>3. PointerSound(c)'
  <2>1. AbsEntry[call[c].key] = [uid |-> p, val |-> heap[p].val] /\ AbsEntry[call[c].key] \in seen[c]
    BY <1>0, AbsTypes DEF LocalInv, SeenIsCurrent
  <2>2. \A k \in Keys : entries[k] = p => k = call[c].key
    BY <1>0 DEF LocalInv, EntriesSound
  <2> QED
    BY <1>0, <1>1, <2>1, <2>2 DEF PointerSound, Allocated
<1>4. CallsSound'
  <2> SUFFICES ASSUME NEW d \in Clients
               PROVE  (/\ ptr[d] # Nil => PointerSound(d)
                       /\ Idle(d) => ptr[d] = Nil
                       /\ call[d].op = "stored" => ptr[d] # Nil
                       /\ call[d].op = "reserved" => ptr[d] # Nil /\ call[d].uid = ptr[d]
                       /\ call[d].op = "SetReserved" => call[d].val \in Vals)'
    BY DEF CallsSound
  <2>1. CASE d = c
    BY <1>1, <1>3, <2>1 DEF Idle, LocalInv, CallsSound
  <2>2. CASE d # c
    BY <1>1, <2>2 DEF LocalInv, CallsSound, PointerSound, Idle, Allocated
  <2> QED
    BY <2>1, <2>2
<1> QED
  BY <1>2, <1>4
  DEF LocalInv, UidsBounded, Drawing, HeapSound, EntriesSound, Allocated, SeenIsCurrent, Idle, AbsEntry,
      UnlinkedIsExpired, Expired, TrimSound

\* The call of c creates an entry for its key: what that does to the heap and
\* to the map.
LEMMA InsertStep ==
  ASSUME LocalInv, NEW c \in Clients, call[c].op = "FetchOrReserve", entries[call[c].key] = Nil,
         entries' = [entries EXCEPT ![call[c].key] = uids + 1],
         heap' = [heap EXCEPT ![uids + 1] = [val |-> 0, expiry |-> expiry[c], uid |-> uids + 1]]
  PROVE  /\ uids + 1 \in Ptrs /\ uids + 1 \notin Allocated
         /\ Allocated' = Allocated \cup {uids + 1}
         /\ heap' \in [Ptrs -> [val : {0} \cup Vals, expiry : Nat, uid : 0..MaxUid]]
         /\ \A p \in Ptrs : p # uids + 1 => heap'[p] = heap[p]
         /\ heap'[uids + 1] = [val |-> 0, expiry |-> expiry[c], uid |-> uids + 1]
         /\ call[c].key \in Keys
         /\ entries' \in [Keys -> {Nil} \cup Ptrs]
         /\ entries'[call[c].key] = uids + 1
         /\ \A k \in Keys : k # call[c].key => entries'[k] = entries[k]
         /\ AbsEntry'[call[c].key] = [uid |-> uids + 1, val |-> 0]
         /\ \A k \in Keys : k # call[c].key => AbsEntry'[k] = AbsEntry[k]
<1> DEFINE u == uids + 1
           ent == [val |-> 0, expiry |-> expiry[c], uid |-> u]
<1>1. u \in Ptrs /\ u \in 0..MaxUid
  <2>1. c \in Drawing
    BY DEF Drawing
  <2> QED
    BY <2>1, UidLeft
<1>2. u \notin Allocated
  BY Types DEF LocalInv, HeapSound
<1>3. ent \in [val : {0} \cup Vals, expiry : Nat, uid : 0..MaxUid] /\ ent.uid = u /\ ent.val = 0 /\ u # 0
  BY <1>1, Types
<1> HIDE DEF ent
<1>4. heap' = [heap EXCEPT ![u] = ent]
  BY DEF ent
<1>5. /\ heap' \in [Ptrs -> [val : {0} \cup Vals, expiry : Nat, uid : 0..MaxUid]]
      /\ \A p \in Ptrs : p # u => heap'[p] = heap[p]
      /\ heap'[u] = ent
  BY <1>1, <1>3, <1>4, Types
<1>6. Allocated' = Allocated \cup {u}
  BY <1>1, <1>3, <1>5 DEF Allocated
<1>7. /\ call[c].key \in Keys
      /\ entries' \in [Keys -> {Nil} \cup Ptrs]
      /\ entries'[call[c].key] = u
      /\ \A k \in Keys : k # call[c].key => entries'[k] = entries[k]
  BY <1>1, Types DEF Call
<1>8. AbsEntry'[call[c].key] = [uid |-> u, val |-> 0]
  <2>1. AbsEntry'[call[c].key] = EntryOf(call[c].key, entries', heap')
    BY <1>7 DEF AbsEntry
  <2> QED
    BY <1>3, <1>5, <1>7, <2>1 DEF EntryOf, Nil
<1>9. ASSUME NEW k \in Keys, k # call[c].key PROVE AbsEntry'[k] = AbsEntry[k]
  <2>1. entries'[k] = entries[k] /\ (entries[k] # Nil => heap'[entries[k]] = heap[entries[k]])
    BY <1>2, <1>5, <1>7, <1>9, Types DEF LocalInv, EntriesSound
  <2> QED
    BY <2>1 DEF AbsEntry, EntryOf
<1> QED
  BY <1>1, <1>2, <1>5, <1>6, <1>7, <1>8, <1>9 DEF ent

LEMMA InsertInv ==
  ASSUME LocalInv, NEW c \in Clients, getOrInsertEntry(c), entries[call[c].key] = Nil
  PROVE  LocalInv'
<1> DEFINE k == call[c].key
           u == uids + 1
           q == [op |-> "reserved", key |-> k, uid |-> u, val |-> 0]
           e == [uid |-> u, val |-> 0]
<1>0. /\ call[c].op = "FetchOrReserve" /\ ptr[c] = Nil /\ ~trim.on
      /\ uids' = u /\ entries' = [entries EXCEPT ![k] = u]
      /\ heap' = [heap EXCEPT ![u] = [val |-> 0, expiry |-> expiry[c], uid |-> u]]
      /\ ptr' = [ptr EXCEPT ![c] = u] /\ call' = [call EXCEPT ![c] = q]
      /\ Observe(k, EntryOf(k, entries', heap'))
      /\ UNCHANGED <<now, expiry, trim, resp>>
  BY DEF getOrInsertEntry, EntriesUnlocked
<1>1. /\ u \in Ptrs /\ u \notin Allocated /\ u # Nil /\ u \in Nat /\ u <= MaxUid
      /\ Allocated' = Allocated \cup {u}
      /\ heap' \in [Ptrs -> [val : {0} \cup Vals, expiry : Nat, uid : 0..MaxUid]]
      /\ \A p \in Ptrs : p # u => heap'[p] = heap[p]
      /\ heap'[u].val = 0 /\ heap'[u].uid = u
      /\ k \in Keys
      /\ entries' \in [Keys -> {Nil} \cup Ptrs]
      /\ entries'[k] = u
      /\ \A j \in Keys : j # k => entries'[j] = entries[j]
      /\ AbsEntry'[k] = e
      /\ \A j \in Keys : j # k => AbsEntry'[j] = AbsEntry[j]
  <2>1. c \in Drawing
    BY <1>0 DEF Drawing
  <2>2. u # Nil /\ u \in Nat /\ u <= MaxUid
    BY <2>1, UidLeft
  <2>3. heap'[u] = [val |-> 0, expiry |-> expiry[c], uid |-> u] => heap'[u].val = 0 /\ heap'[u].uid = u
    OBVIOUS
  <2> QED
    BY <1>0, <2>2, <2>3, InsertStep
<1>2. e \in Entry /\ q \in Call /\ q.op = "reserved" /\ q.key = k /\ q.uid = u
  BY <1>1 DEF Entry, Call, Ops
<1>3. Observe(k, e)
  BY <1>0, <1>1 DEF AbsEntry
<1> HIDE DEF q, e
<1>4. /\ seen' \in [Clients -> SUBSET Entry]
      /\ \A d \in Clients : seen[d] \subseteq seen'[d]
      /\ \A d \in Clients : ~Idle(d) /\ call[d].key = k => e \in seen'[d]
  BY <1>1, <1>2, <1>3, SeenGrows DEF LocalInv, TypeOK
<1>5. /\ call' \in [Clients -> Call] /\ call'[c] = q /\ ptr' \in [Clients -> {Nil} \cup Ptrs] /\ ptr'[c] = u
      /\ \A d \in Clients \ {c} : call'[d] = call[d] /\ ptr'[d] = ptr[d]
  BY <1>0, <1>1, <1>2, Types
<1>6. TypeOK'
  BY <1>0, <1>1, <1>4, <1>5, Types DEF LocalInv, TypeOK, CallsTypeOK
<1>7. UidsBounded'
  <2>1. c \in Drawing /\ c \notin Drawing'
    BY <1>0, <1>2, <1>5 DEF Drawing
  <2>2. /\ Cardinality(Drawing') = Cardinality(Drawing) - 1 /\ Cardinality(Drawing) \in Nat
        /\ Cardinality(Drawing') \in Nat
    BY <1>5, <2>1, DrawingCounts
  <2> QED
    BY <1>0, <2>2, Types DEF LocalInv, UidsBounded
<1>8. HeapSound'
  <2> SUFFICES ASSUME NEW p \in Allocated' PROVE p <= uids' /\ (heap'[p].val = 0 => heap'[p].uid = p)
    BY DEF HeapSound
  <2>1. CASE p = u
    BY <1>0, <1>1, <2>1
  <2>2. CASE p # u
    <3>1. p \in Allocated /\ p \in Ptrs /\ heap'[p] = heap[p] /\ p \in Nat
      BY <1>1, <2>2, Types
    <3> QED
      BY <1>0, <3>1, Types DEF LocalInv, HeapSound
  <2> QED
    BY <2>1, <2>2
<1>9. \A j \in Keys : entries[j] # u /\ (entries'[j] = u => j = k)
  BY <1>1 DEF LocalInv, EntriesSound
<1>10. EntriesSound'
  BY <1>1, <1>9 DEF LocalInv, EntriesSound
<1>11. PointerSound(c)'
  <2>1. e \in seen'[c]
    BY <1>0, <1>4 DEF Idle
  <2>2. [uid |-> u, val |-> heap'[u].val] = e
    BY <1>1 DEF e
  <2> QED
    BY <1>1, <1>2, <1>5, <1>9, <2>1, <2>2 DEF PointerSound
<1>12. ASSUME NEW d \in Clients, d # c, ptr[d] # Nil PROVE PointerSound(d)'
  <2>1. PointerSound(d) /\ ptr[d] # u
    BY <1>1, <1>12 DEF LocalInv, CallsSound, PointerSound
  <2>2. ptr'[d] = ptr[d] /\ call'[d] = call[d] /\ ptr[d] \in Allocated' /\ heap'[ptr[d]] = heap[ptr[d]]
    BY <1>1, <1>5, <1>12, <2>1, Types DEF PointerSound
  <2>3. \A j \in Keys : entries'[j] = ptr[d] => entries[j] = ptr[d]
    BY <1>1, <2>1
  <2> QED
    BY <1>4, <2>1, <2>2, <2>3 DEF PointerSound
<1>13. CallsSound'
  <2> SUFFICES ASSUME NEW d \in Clients
               PROVE  (/\ ptr[d] # Nil => PointerSound(d)
                       /\ Idle(d) => ptr[d] = Nil
                       /\ call[d].op = "stored" => ptr[d] # Nil
                       /\ call[d].op = "reserved" => ptr[d] # Nil /\ call[d].uid = ptr[d]
                       /\ call[d].op = "SetReserved" => call[d].val \in Vals)'
    BY DEF CallsSound
  <2>1. CASE d = c
    BY <1>1, <1>2, <1>5, <1>11, <2>1 DEF Idle
  <2>2. CASE d # c
    BY <1>5, <1>12, <2>2 DEF LocalInv, CallsSound, Idle
  <2> QED
    BY <2>1, <2>2
<1>14. SeenIsCurrent'
  <2> SUFFICES ASSUME NEW d \in Clients, ~Idle(d)' PROVE AbsEntry'[call'[d].key] \in seen'[d]
    BY DEF SeenIsCurrent
  <2>1. ~Idle(d) /\ call'[d].key = call[d].key /\ call[d].key \in Keys
    <3>1. CASE d = c
      BY <1>0, <1>1, <1>2, <1>5, <3>1 DEF Idle
    <3>2. CASE d # c
      BY <1>5, <3>2, Types DEF Idle, Call
    <3> QED
      BY <3>1, <3>2
  <2>2. AbsEntry[call[d].key] \in seen[d]
    BY <2>1 DEF LocalInv, SeenIsCurrent
  <2> QED
    BY <1>1, <1>4, <2>1, <2>2
<1>15. UnlinkedIsExpired'
  <2> SUFFICES ASSUME NEW p \in Allocated', \A j \in Keys : entries'[j] # p PROVE Expired(p)'
    BY DEF UnlinkedIsExpired
  <2>1. p # u /\ p \in Allocated /\ heap'[p] = heap[p]
    BY <1>1, Types
  <2>2. \A j \in Keys : entries[j] # p
    BY <1>1, <2>1, Types
  <2> QED
    BY <1>0, <2>1, <2>2 DEF LocalInv, UnlinkedIsExpired, Expired
<1>16. TrimSound'
  BY <1>0 DEF LocalInv, TrimSound
<1> QED
  BY <1>6, <1>7, <1>8, <1>10, <1>13, <1>14, <1>15, <1>16 DEF LocalInv

\* SetReserved completes an entry: it is not expired, so it is still in the map
\* under the key of the call.
LEMMA StoreStep ==
  ASSUME LocalInv, NEW c \in Clients, call[c].op = "SetReserved", ptr[c] # Nil, ~NotReserved(ptr[c]),
         heap' = [heap EXCEPT ![ptr[c]] = [val |-> call[c].val, expiry |-> now + SpanTtl, uid |-> uids + 1]],
         call[c].val \in Vals, UNCHANGED entries
  PROVE  /\ uids + 1 \in 1..MaxUid
         /\ ptr[c] \in Allocated /\ heap[ptr[c]].val = 0 /\ heap[ptr[c]].uid = ptr[c]
         /\ call[c].key \in Keys /\ entries[call[c].key] = ptr[c]
         /\ \A j \in Keys : entries[j] = ptr[c] => j = call[c].key
         /\ Allocated' = Allocated
         /\ heap' \in [Ptrs -> [val : {0} \cup Vals, expiry : Nat, uid : 0..MaxUid]]
         /\ \A p \in Ptrs : p # ptr[c] => heap'[p] = heap[p]
         /\ heap'[ptr[c]] = [val |-> call[c].val, expiry |-> now + SpanTtl, uid |-> uids + 1]
         /\ AbsEntry[call[c].key] = [uid |-> ptr[c], val |-> 0]
         /\ AbsEntry'[call[c].key] = [uid |-> ptr[c], val |-> call[c].val]
         /\ \A k \in Keys : k # call[c].key => AbsEntry'[k] = AbsEntry[k]
<1> DEFINE p == ptr[c]
           u == uids + 1
           k == call[c].key
           ent == [val |-> call[c].val, expiry |-> now + SpanTtl, uid |-> u]
<1>1. u \in 1..MaxUid
  <2>1. c \in Drawing
    BY DEF Drawing
  <2> QED
    BY <2>1, UidLeft
<1>2. p \in Allocated /\ p \in Ptrs /\ (\A j \in Keys : entries[j] = p => j = k) /\ k \in Keys
  BY Types DEF LocalInv, CallsSound, PointerSound, Call
<1>3. heap[p].val = 0 /\ ~Expired(p)
  BY DEF NotReserved
<1>4. heap[p].uid = p
  BY <1>2, <1>3 DEF LocalInv, HeapSound
<1>5. entries[k] = p
  <2>1. \E j \in Keys : entries[j] = p
    BY <1>2, <1>3 DEF LocalInv, UnlinkedIsExpired
  <2> QED
    BY <1>2, <2>1
<1>6. ent \in [val : {0} \cup Vals, expiry : Nat, uid : 0..MaxUid] /\ ent.uid = u /\ ent.val = call[c].val /\ u # 0
  BY <1>1, Types
<1> HIDE DEF ent
<1>7. /\ heap' \in [Ptrs -> [val : {0} \cup Vals, expiry : Nat, uid : 0..MaxUid]]
      /\ \A o \in Ptrs : o # p => heap'[o] = heap[o]
      /\ heap'[p] = ent
  <2>1. heap' = [heap EXCEPT ![p] = ent]
    BY DEF ent
  <2> QED
    BY <1>2, <1>6, <2>1, Types
<1>8. Allocated' = Allocated
  BY <1>2, <1>6, <1>7 DEF Allocated
<1>9. AbsEntry[k] = [uid |-> p, val |-> 0]
  BY <1>2, <1>3, <1>5, AbsTypes
<1>10. AbsEntry'[k] = [uid |-> p, val |-> call[c].val]
  <2>1. AbsEntry'[k] = EntryOf(k, entries', heap')
    BY <1>2 DEF AbsEntry
  <2> QED
    BY <1>5, <1>6, <1>7, <2>1 DEF EntryOf
<1>11. ASSUME NEW j \in Keys, j # k PROVE AbsEntry'[j] = AbsEntry[j]
  <2>1. entries[j] # Nil => heap'[entries[j]] = heap[entries[j]]
    BY <1>2, <1>7, <1>11, Types
  <2> QED
    BY <2>1 DEF AbsEntry, EntryOf
<1> QED
  BY <1>1, <1>2, <1>3, <1>4, <1>5, <1>7, <1>8, <1>9, <1>10, <1>11 DEF ent

LEMMA StoreInv ==
  ASSUME LocalInv, NEW c \in Clients, setEntry(c), ~NotReserved(ptr[c]), heap[ptr[c]].uid = call[c].uid
  PROVE  LocalInv'
<1> DEFINE p == ptr[c]
           k == call[c].key
           e == [uid |-> p, val |-> call[c].val]
           q == [call[c] EXCEPT !.op = "stored"]
<1>0. /\ call[c].op = "SetReserved" /\ p # Nil /\ uids' = uids + 1
      /\ heap' = [heap EXCEPT ![p] = [val |-> call[c].val, expiry |-> now + SpanTtl, uid |-> uids + 1]]
      /\ call' = [call EXCEPT ![c].op = "stored"]
      /\ entries[k] = p => Observe(k, EntryOf(k, entries, heap'))
      /\ UNCHANGED <<ptr, expiry, resp, now, entries, trim>>
  BY DEF setEntry
<1>1. call[c].val \in Vals /\ call[c].val \in Nat /\ call[c] \in Call
  BY <1>0, Types DEF LocalInv, CallsSound
<1>2. /\ uids + 1 \in 1..MaxUid /\ p \in Allocated /\ k \in Keys /\ entries[k] = p
      /\ \A j \in Keys : entries[j] = p => j = k
      /\ Allocated' = Allocated
      /\ heap' \in [Ptrs -> [val : {0} \cup Vals, expiry : Nat, uid : 0..MaxUid]]
      /\ \A o \in Ptrs : o # p => heap'[o] = heap[o]
      /\ heap'[p] = [val |-> call[c].val, expiry |-> now + SpanTtl, uid |-> uids + 1]
      /\ AbsEntry'[k] = e
      /\ \A j \in Keys : j # k => AbsEntry'[j] = AbsEntry[j]
  BY <1>0, <1>1, StoreStep
<1>3. heap'[p].val = call[c].val /\ heap'[p].val # 0 /\ p \in Ptrs /\ p \in Nat
  BY <1>1, <1>2, Types
<1>4. e \in Entry /\ Observe(k, e)
  <2>1. AbsEntry'[k] = EntryOf(k, entries, heap')
    BY <1>0, <1>2 DEF AbsEntry
  <2> QED
    BY <1>0, <1>1, <1>2, <1>3, <2>1 DEF Entry
<1>5. q \in Call /\ q.op = "stored" /\ q.key = k /\ call' = [call EXCEPT ![c] = q]
  BY <1>0, <1>1, Types DEF Call, Ops
<1> HIDE DEF q, e
<1>6. /\ seen' \in [Clients -> SUBSET Entry]
      /\ \A d \in Clients : seen[d] \subseteq seen'[d]
      /\ \A d \in Clients : ~Idle(d) /\ call[d].key = k => e \in seen'[d]
  BY <1>2, <1>4, SeenGrows DEF LocalInv, TypeOK
<1>7. call' \in [Clients -> Call] /\ call'[c] = q /\ \A d \in Clients \ {c} : call'[d] = call[d]
  BY <1>5, Types
<1>8. TypeOK'
  <2>1. uids' \in 0..MaxUid
    BY <1>0, <1>2
  <2> QED
    BY <1>0, <1>2, <1>6, <1>7, <2>1 DEF LocalInv, TypeOK, CallsTypeOK
<1>9. UidsBounded'
  <2>1. c \in Drawing /\ c \notin Drawing'
    BY <1>0, <1>5, <1>7 DEF Drawing
  <2>2. /\ Cardinality(Drawing') = Cardinality(Drawing) - 1 /\ Cardinality(Drawing) \in Nat
        /\ Cardinality(Drawing') \in Nat
    BY <1>7, <2>1, DrawingCounts
  <2> QED
    BY <1>0, <2>2, Types DEF LocalInv, UidsBounded
<1>10. HeapSound'
  <2> SUFFICES ASSUME NEW o \in Allocated PROVE o <= uids' /\ (heap'[o].val = 0 => heap'[o].uid = o)
    BY <1>2 DEF HeapSound
  <2>1. o <= uids /\ o \in Nat /\ (heap[o].val = 0 => heap[o].uid = o) /\ o \in Ptrs
    BY Types DEF LocalInv, HeapSound
  <2>2. o <= uids'
    BY <1>0, <2>1, Types
  <2> QED
    BY <1>2, <1>3, <2>1, <2>2
<1>11. EntriesSound'
  BY <1>0, <1>2 DEF LocalInv, EntriesSound
<1>12. ASSUME NEW d \in Clients, ptr[d] # Nil PROVE PointerSound(d)'
  <2>1. PointerSound(d) /\ ptr[d] \in Ptrs /\ ~Idle(d)
    BY <1>12, Types DEF LocalInv, CallsSound
  <2>2. call'[d].key = call[d].key
    BY <1>5, <1>7
  <2>3. [uid |-> ptr[d], val |-> heap'[ptr[d]].val] \in seen'[d]
    <3>1. CASE ptr[d] = p
      <4>1. call[d].key = k
        BY <1>2, <2>1, <3>1 DEF PointerSound
      <4> QED
        BY <1>3, <1>6, <2>1, <3>1, <4>1 DEF e
    <3>2. CASE ptr[d] # p
      BY <1>2, <1>6, <2>1, <3>2 DEF PointerSound
    <3> QED
      BY <3>1, <3>2
  <2> QED
    BY <1>0, <1>2, <2>1, <2>2, <2>3 DEF PointerSound
<1>13. CallsSound'
  <2> SUFFICES ASSUME NEW d \in Clients
               PROVE  (/\ ptr[d] # Nil => PointerSound(d)
                       /\ Idle(d) => ptr[d] = Nil
                       /\ call[d].op = "stored" => ptr[d] # Nil
                       /\ call[d].op = "reserved" => ptr[d] # Nil /\ call[d].uid = ptr[d]
                       /\ call[d].op = "SetReserved" => call[d].val \in Vals)'
    BY DEF CallsSound
  <2>1. CASE d = c
    BY <1>0, <1>5, <1>7, <1>12, <2>1 DEF Idle
  <2>2. CASE d # c
    BY <1>0, <1>7, <1>12, <2>2 DEF LocalInv, CallsSound, Idle
  <2> QED
    BY <2>1, <2>2
<1>14. SeenIsCurrent'
  <2> SUFFICES ASSUME NEW d \in Clients, ~Idle(d)' PROVE AbsEntry'[call'[d].key] \in seen'[d]
    BY DEF SeenIsCurrent
  <2>1. ~Idle(d) /\ call'[d].key = call[d].key /\ call[d].key \in Keys
    <3>1. CASE d = c
      BY <1>0, <1>2, <1>5, <1>7, <3>1 DEF Idle
    <3>2. CASE d # c
      BY <1>7, <3>2, Types DEF Idle, Call
    <3> QED
      BY <3>1, <3>2
  <2>2. AbsEntry[call[d].key] \in seen[d]
    BY <2>1 DEF LocalInv, SeenIsCurrent
  <2> QED
    BY <1>2, <1>6, <2>1, <2>2
<1>15. UnlinkedIsExpired'
  <2> SUFFICES ASSUME NEW o \in Allocated, \A j \in Keys : entries[j] # o PROVE Expired(o)'
    BY <1>0, <1>2 DEF UnlinkedIsExpired
  <2>1. o # p /\ heap'[o] = heap[o]
    BY <1>2, Types
  <2> QED
    BY <1>0, <2>1 DEF LocalInv, UnlinkedIsExpired, Expired
<1>16. TrimSound'
  <2> SUFFICES ASSUME NEW j \in trim.victim PROVE Expired(entries[j])'
    BY <1>0 DEF LocalInv, TrimSound
  <2>1. Expired(entries[j]) /\ entries[j] # Nil /\ j \in Keys
    BY Types DEF LocalInv, TrimSound
  <2>2. entries[j] # p
    BY <2>1 DEF NotReserved
  <2>3. heap'[entries[j]] = heap[entries[j]]
    BY <1>2, <2>1, <2>2, Types
  <2> QED
    BY <1>0, <2>1, <2>3 DEF Expired
<1> QED
  BY <1>8, <1>9, <1>10, <1>11, <1>13, <1>14, <1>15, <1>16 DEF LocalInv

\* Trim deletes an entry that it found expired, and that has stayed so.
LEMMA DeleteInv ==
  ASSUME LocalInv, trimDelete
  PROVE  LocalInv'
<1>0. PICK k \in trim.victim : entries' = [entries EXCEPT ![k] = Nil] /\ Observe(k, Invalid)
  BY DEF trimDelete
<1>1. trim' = [trim EXCEPT !.victim = {}] /\ UNCHANGED <<now, uids, heap, ptr, expiry, call, resp>>
  BY DEF trimDelete
<1>2. k \in Keys /\ entries[k] # Nil /\ Expired(entries[k])
  BY Types DEF LocalInv, TrimSound
<1>3. /\ entries' \in [Keys -> {Nil} \cup Ptrs] /\ entries'[k] = Nil
      /\ \A j \in Keys : j # k => entries'[j] = entries[j]
  BY <1>0, <1>2, Types
<1>4. /\ trim' \in [on : BOOLEAN, todo : SUBSET Keys, victim : SUBSET Keys]
      /\ trim'.on = trim.on /\ trim'.todo = trim.todo /\ trim'.victim = {}
  BY <1>1, Types
<1>5. Invalid \in Entry
  BY DEF Invalid, Entry
<1>6. /\ seen' \in [Clients -> SUBSET Entry]
      /\ \A d \in Clients : seen[d] \subseteq seen'[d]
      /\ \A d \in Clients : ~Idle(d) /\ call[d].key = k => Invalid \in seen'[d]
  BY <1>0, <1>2, <1>5, SeenGrows DEF LocalInv, TypeOK
<1>7. AbsEntry'[k] = Invalid /\ \A j \in Keys : j # k => AbsEntry'[j] = AbsEntry[j]
  BY <1>1, <1>2, <1>3 DEF AbsEntry, EntryOf
<1>8. TypeOK'
  BY <1>1, <1>3, <1>4, <1>6 DEF LocalInv, TypeOK, CallsTypeOK
<1>9. UidsBounded' /\ HeapSound'
  BY <1>1 DEF LocalInv, UidsBounded, Drawing, HeapSound, Allocated
<1>10. EntriesSound'
  BY <1>1, <1>3 DEF LocalInv, EntriesSound, Allocated
<1>11. CallsSound'
  <2> SUFFICES ASSUME NEW d \in Clients, ptr[d] # Nil PROVE PointerSound(d)'
    BY <1>1 DEF LocalInv, CallsSound, Idle
  <2>1. PointerSound(d)
    BY DEF LocalInv, CallsSound
  <2>2. \A j \in Keys : entries'[j] = ptr[d] => entries[j] = ptr[d]
    BY <1>3
  <2> QED
    BY <1>1, <1>6, <2>1, <2>2 DEF PointerSound, Allocated
<1>12. SeenIsCurrent'
  <2> SUFFICES ASSUME NEW d \in Clients, ~Idle(d) PROVE AbsEntry'[call[d].key] \in seen'[d]
    BY <1>1 DEF SeenIsCurrent, Idle
  <2>1. AbsEntry[call[d].key] \in seen[d] /\ call[d].key \in Keys
    BY Types DEF LocalInv, SeenIsCurrent, Call
  <2> QED
    BY <1>6, <1>7, <2>1
<1>13. UnlinkedIsExpired'
  <2> SUFFICES ASSUME NEW o \in Allocated, \A j \in Keys : entries'[j] # o PROVE Expired(o)
    BY <1>1 DEF UnlinkedIsExpired, Allocated, Expired
  <2>1. CASE entries[k] = o
    BY <1>2, <2>1
  <2>2. CASE entries[k] # o
    BY <1>3, <2>2 DEF LocalInv, UnlinkedIsExpired
  <2> QED
    BY <2>1, <2>2
<1>14. TrimSound'
  <2>1. k \notin trim.todo /\ trim.on
    BY DEF LocalInv, TrimSound
  <2> QED
    BY <1>3, <1>4, <2>1, Types DEF LocalInv, TrimSound
<1> QED
  BY <1>8, <1>9, <1>10, <1>11, <1>12, <1>13, <1>14 DEF LocalInv

\* The other steps of Trim touch neither the map nor the entries.
LEMMA TrimInv ==
  ASSUME LocalInv, UNCHANGED <<now, uids, entries, heap, ptr, expiry, callVars>>,
         Trim \/ trimEnd \/ \E k \in Keys : trimCheck(k)
  PROVE  LocalInv'
<1>1. trim' \in [on : BOOLEAN, todo : SUBSET Keys, victim : SUBSET Keys] /\ TrimSound'
  <2>1. CASE Trim
    <3>1. trim' = [on |-> TRUE, todo |-> {k \in Keys : entries[k] # Nil}, victim |-> {}]
      BY <2>1 DEF Trim
    <3>2. trim'.on /\ trim'.todo = {k \in Keys : entries[k] # Nil} /\ trim'.victim = {}
      BY <3>1
    <3> QED
      BY <3>1, <3>2 DEF TrimSound
  <2>2. CASE trimEnd
    <3>1. trim' = [on |-> FALSE, todo |-> {}, victim |-> {}]
      BY <2>2 DEF trimEnd, NotTrimming
    <3>2. ~trim'.on /\ trim'.todo = {} /\ trim'.victim = {}
      BY <3>1
    <3> QED
      BY <3>1, <3>2 DEF TrimSound
  <2>3. CASE \E k \in Keys : trimCheck(k)
    <3>0. PICK k \in Keys : trimCheck(k)
      BY <2>3
    <3>1. /\ k \in trim.todo /\ trim.victim = {}
          /\ trim' = [trim EXCEPT !.todo = @ \ {k}, !.victim = IF Expired(entries[k]) THEN {k} ELSE {}]
      BY <3>0 DEF trimCheck
    <3>2. /\ trim' \in [on : BOOLEAN, todo : SUBSET Keys, victim : SUBSET Keys]
          /\ trim'.on = trim.on /\ trim'.todo = trim.todo \ {k}
          /\ trim'.victim = IF Expired(entries[k]) THEN {k} ELSE {}
      BY <3>1, Types
    <3>3. trim.on /\ \A j \in trim.todo : entries[j] # Nil
      BY <3>1 DEF LocalInv, TrimSound
    <3> QED
      BY <3>1, <3>2, <3>3 DEF TrimSound, Expired
  <2> QED
    BY <2>1, <2>2, <2>3
<1> QED
  BY <1>1
  DEF LocalInv, TypeOK, CallsTypeOK, callVars, UidsBounded, Drawing, HeapSound, EntriesSound, CallsSound,
      PointerSound, Idle, Allocated, SeenIsCurrent, AbsEntry, UnlinkedIsExpired, Expired

\* What has expired stays expired.
LEMMA TickInv ==
  ASSUME LocalInv, Tick
  PROVE  LocalInv'
<1>0. now < MaxTime /\ now' = now + 1 /\ UNCHANGED <<uids, entries, heap, ptr, expiry, trim, call, resp, seen>>
  BY DEF Tick, callVars
<1>1. now' \in 0..MaxTime
  BY <1>0, Types
<1>2. \A p \in Ptrs : Expired(p) => Expired(p)'
  <2> SUFFICES ASSUME NEW p \in Ptrs, Expired(p) PROVE Expired(p)'
    OBVIOUS
  <2>1. heap[p].expiry \in Nat /\ heap[p].expiry < now
    BY Types DEF Expired
  <2> QED
    BY <1>0, <2>1, Types DEF Expired
<1>3. UnlinkedIsExpired'
  BY <1>0, <1>2, Types DEF LocalInv, UnlinkedIsExpired, Allocated
<1>4. TrimSound'
  <2>1. \A k \in trim.victim : k \in Keys /\ entries[k] # Nil /\ entries[k] \in Ptrs /\ Expired(entries[k])
    BY Types DEF LocalInv, TrimSound
  <2>2. \A k \in trim.victim : Expired(entries[k])'
    BY <1>0, <1>2, <2>1 DEF Expired
  <2> QED
    BY <1>0, <2>2 DEF LocalInv, TrimSound
<1> QED
  BY <1>0, <1>1, <1>3, <1>4
  DEF LocalInv, TypeOK, CallsTypeOK, UidsBounded, Drawing, HeapSound, EntriesSound, CallsSound,
      PointerSound, Idle, Allocated, SeenIsCurrent, AbsEntry

LEMMA InitInv == Init => LocalInv
<1> SUFFICES ASSUME Init PROVE LocalInv
  OBVIOUS
<1>0. /\ call = [c \in Clients |-> NoCall] /\ resp = [c \in Clients |-> Answer("none")]
      /\ seen = [c \in Clients |-> {}] /\ now = 0 /\ uids = 0 /\ entries = [k \in Keys |-> Nil]
      /\ heap = [p \in Ptrs |-> NoEntry] /\ ptr = [c \in Clients |-> Nil]
      /\ expiry = [c \in Clients |-> 0] /\ trim = NotTrimming
  BY DEF Init, CallsInit
<1>1. TypeOK
  BY <1>0, LocalAssumption, NoCallIsCall
  DEF TypeOK, CallsTypeOK, Answer, Response, Kinds, NoEntry, NotTrimming
<1>2. Allocated = {}
  BY <1>0 DEF Allocated, NoEntry
<1>3. Drawing = {}
  BY <1>0, NoCallIsCall DEF Drawing
<1>4. UidsBounded
  BY <1>0, <1>3, LocalAssumption, FS_EmptySet DEF UidsBounded
<1>5. CallsSound /\ SeenIsCurrent
  BY <1>0, NoCallIsCall DEF CallsSound, SeenIsCurrent, Idle
<1>6. TrimSound
  BY <1>0 DEF TrimSound, NotTrimming
<1> QED
  BY <1>0, <1>1, <1>2, <1>4, <1>5, <1>6 DEF LocalInv, HeapSound, EntriesSound, UnlinkedIsExpired

\* The answers of the package are responses.
LEMMA AnswersAreResponses ==
  /\ \A kind \in Kinds : Answer(kind) \in Response
  /\ \A u, v \in Nat : EntryAnswer(u, v) \in Response
  BY DEF Answer, EntryAnswer, Response, Kinds

\* What readEntry and fetchEntry find behind the pointer.
LEMMA PointerAnswer ==
  ASSUME LocalInv, NEW c \in Clients, ptr[c] # Nil
  PROVE  /\ ptr[c] \in Ptrs /\ heap[ptr[c]].uid \in Nat /\ heap[ptr[c]].val \in Nat
         /\ heap[ptr[c]].val = 0 => heap[ptr[c]].uid = ptr[c]
         /\ [uid |-> ptr[c], val |-> heap[ptr[c]].val] \in seen[c]
  BY Types DEF LocalInv, CallsSound, PointerSound, HeapSound

LEMMA StepInv == ASSUME LocalInv, [Next]_localVars PROVE LocalInv'
<1>1. ASSUME NEW c \in Clients, ClientCalls(c) PROVE LocalInv'
  <2>0. UidsLeft
    BY <1>1 DEF ClientCalls
  <2>1. ASSUME NEW k \in Keys, FetchOrReserve(c, k) PROVE LocalInv'
    <3>1. expiry' \in [Clients -> Nat]
      <4>1. now + ReserveTtl \in Nat
        BY Types
      <4> QED
        BY <2>1, <4>1, Types DEF FetchOrReserve
    <3> QED
      BY <2>0, <2>1, <3>1, EnterInv DEF FetchOrReserve
  <2>2. ASSUME NEW k \in Keys, Fetch(c, k) PROVE LocalInv'
    <3>1. expiry' \in [Clients -> Nat]
      BY <2>2, Types DEF Fetch
    <3> QED
      BY <2>0, <2>2, <3>1, EnterInv DEF Fetch
  <2>3. ASSUME NEW k \in Keys, NEW v \in Vals, SetReserved(c, k, resp[c].uid, v) PROVE LocalInv'
    <3>1. expiry' \in [Clients -> Nat] /\ resp[c].uid \in Nat /\ v \in Nat
      BY <2>3, Types DEF SetReserved, Response
    <3> QED
      BY <2>0, <2>3, <3>1, EnterInv DEF SetReserved
  <2> QED
    BY <1>1, <2>1, <2>2, <2>3 DEF ClientCalls
<1>2. ASSUME NEW c \in Clients, getOrInsertEntry(c) PROVE LocalInv'
  <2>1. CASE entries[call[c].key] = Nil
    BY <1>2, <2>1, InsertInv
  <2>2. CASE entries[call[c].key] # Nil
    BY <1>2, <2>2, TakeInv DEF getOrInsertEntry, Idle
  <2> QED
    BY <2>1, <2>2
<1>3. ASSUME NEW c \in Clients, readEntry(c) PROVE LocalInv'
  <2>1. Answer("ErrAlreadyReserved") \in Response
    BY AnswersAreResponses DEF Kinds
  <2>2. EntryAnswer(heap[ptr[c]].uid, heap[ptr[c]].val) \in Response
    BY <1>3, AnswersAreResponses, PointerAnswer DEF readEntry
  <2> QED
    BY <1>3, <2>1, <2>2, FinishInv DEF readEntry
<1>4. ASSUME NEW c \in Clients, getEntry(c) PROVE LocalInv'
  <2>1. CASE entries[call[c].key] = Nil
    <3>1. Answer("absent") \in Response /\ Answer("ErrInvalidKey") \in Response
      BY AnswersAreResponses DEF Kinds
    <3> QED
      BY <1>4, <2>1, <3>1, FinishInv DEF getEntry
  <2>2. CASE entries[call[c].key] # Nil
    BY <1>4, <2>2, TakeInv DEF getEntry, Idle, callVars
  <2> QED
    BY <2>1, <2>2
<1>5. ASSUME NEW c \in Clients, fetchEntry(c) PROVE LocalInv'
  <2>1. EntryAnswer(heap[ptr[c]].uid, heap[ptr[c]].val) \in Response
    BY <1>5, AnswersAreResponses, PointerAnswer DEF fetchEntry
  <2> QED
    BY <1>5, <2>1, FinishInv DEF fetchEntry
<1>6. ASSUME NEW c \in Clients, setEntry(c) PROVE LocalInv'
  <2>0. Answer("ErrInvalidKey") \in Response /\ Answer("ErrUidMismatch") \in Response
    BY AnswersAreResponses DEF Kinds
  <2>1. CASE ~NotReserved(ptr[c]) /\ heap[ptr[c]].uid = call[c].uid
    BY <1>6, <2>1, StoreInv
  <2>2. CASE NotReserved(ptr[c]) \/ heap[ptr[c]].uid # call[c].uid
    BY <1>6, <2>0, <2>2, FinishInv DEF setEntry
  <2> QED
    BY <2>1, <2>2
<1>7. ASSUME NEW c \in Clients, setReturn(c) \/ RandFailure(c) PROVE LocalInv'
  <2>1. Answer("ok") \in Response /\ Answer("failure") \in Response
    BY AnswersAreResponses DEF Kinds
  <2> QED
    BY <1>7, <2>1, FinishInv DEF setReturn, RandFailure
<1>8. ASSUME Trim \/ TrimStep PROVE LocalInv'
  <2>1. CASE trimDelete
    BY <2>1, DeleteInv
  <2>2. CASE Trim \/ trimEnd \/ \E k \in Keys : trimCheck(k)
    BY <2>2, TrimInv DEF Trim, trimEnd, trimCheck
  <2> QED
    BY <1>8, <2>1, <2>2 DEF TrimStep
<1>9. ASSUME UNCHANGED localVars PROVE LocalInv'
  BY <1>9
  DEF localVars, callVars, LocalInv, TypeOK, CallsTypeOK, UidsBounded, Drawing, HeapSound, EntriesSound, CallsSound,
      PointerSound, Idle, Allocated, SeenIsCurrent, AbsEntry, UnlinkedIsExpired, Expired, TrimSound
<1> QED
  BY <1>1, <1>2, <1>3, <1>4, <1>5, <1>6, <1>7, <1>8, <1>9, TickInv DEF Next, Step

-----------------------------------------------------------------------------
(* The contract *)

\* A nonempty set of pointers has a greatest element.
LEMMA GreatestElement ==
  ASSUME NEW S \in SUBSET Ptrs, S # {}
  PROVE  Max(S) \in S /\ \A y \in S : Max(S) >= y
<1> DEFINE R == OpToRel(<, Nat)
           T == {MaxUid - x : x \in S}
<1>1. \A x, y \in Nat : <<x, y>> \in R <=> x < y
  BY DEF OpToRel
<1>2. IsWellFoundedOn(R, Nat)
  BY NatLessThanWellFounded, Zenon
<1> HIDE DEF R
<1>3. \A x \in S : x \in Nat /\ MaxUid - x \in Nat
  BY LocalAssumption DEF Ptrs
<1>4. T \subseteq Nat /\ T # {}
  BY <1>3
<1>5. PICK t \in T : \A y \in T : ~(<<y, t>> \in R)
  <2> HIDE DEF T
  <2> QED
    BY <1>2, <1>4, WFMin, Zenon
<1>6. PICK x \in S : t = MaxUid - x
  OBVIOUS
<1>7. ASSUME NEW y \in S PROVE x >= y
  <2>1. MaxUid - y \in T /\ MaxUid - y \in Nat /\ t \in Nat
    BY <1>3, <1>4
  <2>2. ~(MaxUid - y < t)
    BY <1>1, <1>5, <2>1
  <2> QED
    BY <1>3, <1>6, <2>1, <2>2, LocalAssumption
<1>8. \E m \in S : \A y \in S : m >= y
  BY <1>7
<1> QED
  BY <1>8 DEF Max

\* The uid of the latest reservation, as the contract has it.
LastUid == IF Allocated = {} THEN 0 ELSE Max(Allocated)

LEMMA LastUidGrows ==
  ASSUME LocalInv, NEW u \in Ptrs, u > uids, Allocated' = Allocated \cup {u}
  PROVE  u > LastUid /\ LastUid' = u
<1>1. u \in Nat /\ \A p \in Allocated : p \in Nat /\ p < u
  BY Types DEF LocalInv, HeapSound, Ptrs
<1>2. u > LastUid
  <2>1. CASE Allocated = {}
    BY <2>1, LocalAssumption DEF LastUid, Ptrs
  <2>2. CASE Allocated # {}
    <3>1. Max(Allocated) \in Allocated
      BY <2>2, Types, GreatestElement
    <3> QED
      BY <1>1, <2>2, <3>1 DEF LastUid
  <2> QED
    BY <2>1, <2>2
<1>3. LastUid' = u
  <2>1. Allocated' \in SUBSET Ptrs /\ Allocated' # {} /\ u \in Allocated'
    BY Types
  <2>2. Max(Allocated') \in Allocated' /\ Max(Allocated') >= u
    BY <2>1, GreatestElement
  <2>3. Max(Allocated') = u
    BY <1>1, <2>2
  <2> QED
    BY <2>1, <2>3 DEF LastUid
<1> QED
  BY <1>2, <1>3

\* The names of the call interface mean the same in the contract.
LEMMA SameCalls ==
  /\ Contract!NoCall = NoCall /\ Contract!Invalid = Invalid
  /\ \A kind : Contract!Answer(kind) = Answer(kind)
  /\ \A u, v : Contract!EntryAnswer(u, v) = EntryAnswer(u, v)
  /\ \A e : (Contract!IsReserved(e) <=> IsReserved(e)) /\ (Contract!IsInitialized(e) <=> IsInitialized(e))
  BY DEF Contract!NoCall, Contract!AnyKey, NoCall, AnyKey, Contract!Invalid, Invalid, Contract!Answer, Answer,
     Contract!EntryAnswer, EntryAnswer, Contract!IsReserved, IsReserved, Contract!IsInitialized, IsInitialized

LEMMA SameLeave == ASSUME NEW c, NEW r, Leave(c, r) PROVE Contract!Leave(c, r)
  BY SameCalls DEF Leave, Contract!Leave, Idle, Contract!Idle

LEMMA SameObserve == ASSUME NEW k, NEW e, Observe(k, e) PROVE Contract!Observe(k, e)
  BY DEF Observe, Contract!Observe

\* The steps of the cache that the contract does not see.
LEMMA Unseen ==
  ASSUME UNCHANGED <<entries, heap, callVars>>
  PROVE  UNCHANGED Contract!cacheVars
  BY DEF Contract!cacheVars, Contract!callVars, callVars, AbsEntry, Allocated

LEMMA EnterMaps ==
  ASSUME LocalInv, NEW c \in Clients, NEW k, NEW u, NEW v, NEW op,
         op = "SetReserved" \/ (op \in {"Fetch", "FetchOrReserve"} /\ u = 0 /\ v = 0),
         Enter(c, op, k, u, v, AbsEntry[k]), UNCHANGED <<entries, heap>>
  PROVE  Contract!ClientStep(c)
<1>1. call'[c].key = k /\ call'[c].uid = u /\ call'[c].val = v
  BY Types DEF Enter
<1>2. UNCHANGED <<AbsEntry, IF Allocated = {} THEN 0 ELSE Max(Allocated), [d \in Clients |-> NoCall]>>
  BY DEF AbsEntry, Allocated
<1>3. Contract!Enter(c, op, k, u, v, AbsEntry[k])
  BY SameCalls DEF Enter, Contract!Enter, Idle, Contract!Idle
<1>4. CASE op = "SetReserved"
  BY <1>1, <1>2, <1>3, <1>4 DEF Contract!CallSetReserved, Contract!ClientStep
<1>5. CASE op = "Fetch" /\ u = 0 /\ v = 0
  BY <1>1, <1>2, <1>3, <1>5 DEF Contract!CallFetch, Contract!ClientStep
<1>6. CASE op = "FetchOrReserve" /\ u = 0 /\ v = 0
  BY <1>1, <1>2, <1>3, <1>6 DEF Contract!CallFetchOrReserve, Contract!ClientStep
<1> QED
  BY <1>4, <1>5, <1>6

LEMMA InsertMaps ==
  ASSUME LocalInv, NEW c \in Clients, getOrInsertEntry(c), entries[call[c].key] = Nil
  PROVE  Contract!ClientStep(c)
<1> DEFINE k == call[c].key
           u == uids + 1
<1>0. /\ call[c].op = "FetchOrReserve"
      /\ entries' = [entries EXCEPT ![k] = u]
      /\ heap' = [heap EXCEPT ![u] = [val |-> 0, expiry |-> expiry[c], uid |-> u]]
      /\ call' = [call EXCEPT ![c] = [op |-> "reserved", key |-> @.key, uid |-> u, val |-> 0]]
      /\ Observe(k, EntryOf(k, entries', heap'))
      /\ UNCHANGED resp
  BY DEF getOrInsertEntry
<1>1. /\ u \in Ptrs /\ Allocated' = Allocated \cup {u} /\ k \in Keys
      /\ AbsEntry'[k] = [uid |-> u, val |-> 0]
      /\ \A j \in Keys : j # k => AbsEntry'[j] = AbsEntry[j]
  BY <1>0, InsertStep
<1>2. u > LastUid /\ LastUid' = u
  <2>1. u > uids
    BY Types
  <2> QED
    BY <1>1, <2>1, LastUidGrows
<1>3. AbsEntry' = [AbsEntry EXCEPT ![k] = [uid |-> u, val |-> 0]]
  BY <1>1 DEF AbsEntry
<1>4. Contract!Observe(k, AbsEntry'[k])
  <2>1. AbsEntry'[k] = EntryOf(k, entries', heap')
    BY <1>1 DEF AbsEntry
  <2> QED
    BY <1>0, <2>1, SameObserve
<1>5. AbsEntry[k] = Contract!Invalid
  BY <1>1, AbsTypes, SameCalls
<1>6. Contract!ReserveKey(k, u)
  BY <1>2, <1>3, <1>4, <1>5 DEF Contract!ReserveKey, LastUid
<1>7. Contract!Reserve(c, LastUid')
  BY <1>0, <1>2, <1>6 DEF Contract!Reserve
<1> QED
  BY <1>7 DEF Contract!ClientStep, LastUid

LEMMA StoreMaps ==
  ASSUME LocalInv, NEW c \in Clients, setEntry(c), ~NotReserved(ptr[c]), heap[ptr[c]].uid = call[c].uid
  PROVE  Contract!ClientStep(c)
<1> DEFINE p == ptr[c]
           k == call[c].key
           q == [op |-> "stored", key |-> k, uid |-> call[c].uid, val |-> call[c].val]
<1>0. /\ call[c].op = "SetReserved" /\ p # Nil
      /\ heap' = [heap EXCEPT ![p] = [val |-> call[c].val, expiry |-> now + SpanTtl, uid |-> uids + 1]]
      /\ call' = [call EXCEPT ![c].op = "stored"]
      /\ entries[k] = p => Observe(k, EntryOf(k, entries, heap'))
      /\ UNCHANGED <<resp, entries>>
  BY DEF setEntry
<1>1. call[c].val \in Vals /\ call[c].val # 0 /\ call[c] \in Call
  BY <1>0, Types DEF LocalInv, CallsSound
<1>2. /\ k \in Keys /\ entries[k] = p /\ Allocated' = Allocated /\ call[c].uid = p
      /\ AbsEntry[k] = [uid |-> p, val |-> 0]
      /\ AbsEntry'[k] = [uid |-> p, val |-> call[c].val]
      /\ \A j \in Keys : j # k => AbsEntry'[j] = AbsEntry[j]
  BY <1>0, <1>1, StoreStep
<1>3. AbsEntry' = [AbsEntry EXCEPT ![k] = [uid |-> p, val |-> call[c].val]]
  BY <1>2 DEF AbsEntry
<1>4. Contract!Observe(k, AbsEntry'[k])
  <2>1. AbsEntry'[k] = EntryOf(k, entries, heap')
    BY <1>0, <1>2 DEF AbsEntry
  <2> QED
    BY <1>0, <1>2, <2>1, SameObserve
<1>5. Contract!InitializeKey(k, call[c].uid, call[c].val)
  BY <1>0, <1>1, <1>2, <1>3, <1>4 DEF Contract!InitializeKey, Nil
<1>6. call' = [call EXCEPT ![c] = q]
  <2>1. [call[c] EXCEPT !.op = "stored"] = q
    BY <1>1 DEF Call
  <2> QED
    BY <1>0, <2>1, Types
<1>7. Contract!Store(c)
  BY <1>0, <1>5, <1>6 DEF Contract!Store
<1> QED
  BY <1>7 DEF Contract!ClientStep

\* A call returns with an answer that the contract allows it.
LEMMA ReturnMaps ==
  ASSUME LocalInv, NEW c \in Clients, NEW r, Finish(c, r), UNCHANGED <<entries, heap>>,
         \/ Contract!FetchOrReserveAnswer(c, r)
         \/ Contract!FetchAnswer(c, r)
         \/ Contract!SetReservedAnswer(c, r)
         \/ r = Answer("failure")
  PROVE  Contract!ClientStep(c)
<1>1. Leave(c, r) /\ Contract!Leave(c, r)
  BY SameLeave DEF Finish
<1>2. UNCHANGED <<AbsEntry, IF Allocated = {} THEN 0 ELSE Max(Allocated), [d \in Clients |-> NoCall]>>
  BY DEF AbsEntry, Allocated
<1>3. resp'[c] = r
  BY <1>1, Types DEF Leave
<1>4. CASE r = Answer("failure")
  BY <1>1, <1>2, <1>4, SameCalls DEF Contract!Fail, Contract!ClientStep
<1>5. CASE \/ Contract!FetchOrReserveAnswer(c, r)
           \/ Contract!FetchAnswer(c, r)
           \/ Contract!SetReservedAnswer(c, r)
  BY <1>1, <1>2, <1>3, <1>5 DEF Contract!Return, Contract!ClientStep
<1> QED
  BY <1>4, <1>5

\* The entry behind the pointer is in a state that its key had during the
\* call, whether or not Trim has unlinked it since.
LEMMA AnswersAreAllowed ==
  ASSUME LocalInv, NEW c \in Clients
  PROVE  /\ readEntry(c) => Contract!ClientStep(c)
         /\ getEntry(c) /\ entries[call[c].key] = Nil => Contract!ClientStep(c)
         /\ fetchEntry(c) => Contract!ClientStep(c)
         /\ setEntry(c) /\ (NotReserved(ptr[c]) \/ heap[ptr[c]].uid # call[c].uid) => Contract!ClientStep(c)
         /\ setReturn(c) \/ RandFailure(c) => Contract!ClientStep(c)
<1> DEFINE p == ptr[c]
           ent == heap[p]
           e == [uid |-> p, val |-> ent.val]
<1>0. p # Nil => e \in seen[c] /\ p # 0 /\ (ent.val = 0 => ent.uid = p)
  BY PointerAnswer DEF Nil
<1>1. e.uid = p /\ e.val = ent.val
  OBVIOUS
<1> HIDE DEF e
<1>2. ASSUME readEntry(c) PROVE Contract!ClientStep(c)
  <2>0. call[c].op \in {"FetchOrReserve", "reserved"} /\ p # Nil /\ UNCHANGED <<entries, heap>>
    BY <1>2 DEF readEntry
  <2>1. CASE ent.val # 0
    <3> DEFINE r == EntryAnswer(ent.uid, ent.val)
    <3>1. Finish(c, r)
      BY <1>2, <2>1 DEF readEntry
    <3>2. r.kind = "entry" /\ r.val = ent.val
      BY DEF EntryAnswer
    <3>3. Contract!FetchOrReserveAnswer(c, r)
      BY <1>0, <1>1, <2>0, <2>1, <3>2, SameCalls DEF Contract!FetchOrReserveAnswer, IsInitialized
    <3> QED
      BY <2>0, <3>1, <3>3, ReturnMaps
  <2>2. CASE ent.val = 0 /\ call[c].op = "reserved"
    <3> DEFINE r == EntryAnswer(ent.uid, ent.val)
    <3>1. Finish(c, r)
      BY <1>2, <2>2 DEF readEntry
    <3>2. r = EntryAnswer(call[c].uid, 0)
      BY <1>0, <2>0, <2>2 DEF LocalInv, CallsSound
    <3>3. Contract!FetchOrReserveAnswer(c, r)
      BY <2>2, <3>2, SameCalls DEF Contract!FetchOrReserveAnswer
    <3> QED
      BY <2>0, <3>1, <3>3, ReturnMaps
  <2>3. CASE ent.val = 0 /\ call[c].op = "FetchOrReserve"
    <3>1. Finish(c, Answer("ErrAlreadyReserved"))
      BY <1>2, <2>3 DEF readEntry
    <3>2. Contract!FetchOrReserveAnswer(c, Answer("ErrAlreadyReserved"))
      BY <1>0, <1>1, <2>0, <2>3, SameCalls DEF Contract!FetchOrReserveAnswer, IsReserved
    <3> QED
      BY <2>0, <3>1, <3>2, ReturnMaps
  <2> QED
    BY <2>0, <2>1, <2>2, <2>3
<1>3. ASSUME getEntry(c), entries[call[c].key] = Nil PROVE Contract!ClientStep(c)
  <2>0. call[c].op \in {"Fetch", "SetReserved"} /\ UNCHANGED <<entries, heap>> /\ call[c].key \in Keys
    BY <1>3, Types DEF getEntry, Call
  <2>1. CASE call[c].op = "Fetch"
    <3>1. Finish(c, Answer("absent"))
      BY <1>3, <2>1 DEF getEntry
    <3>2. Invalid \in seen[c]
      BY <1>3, <2>0, AbsTypes DEF LocalInv, SeenIsCurrent, Idle
    <3>3. Contract!FetchAnswer(c, Answer("absent"))
      BY <2>1, <3>2, SameCalls DEF Contract!FetchAnswer
    <3> QED
      BY <2>0, <3>1, <3>3, ReturnMaps
  <2>2. CASE call[c].op = "SetReserved"
    <3>1. Finish(c, Answer("ErrInvalidKey"))
      BY <1>3, <2>2 DEF getEntry
    <3>2. Contract!SetReservedAnswer(c, Answer("ErrInvalidKey"))
      BY <2>2, SameCalls DEF Contract!SetReservedAnswer
    <3> QED
      BY <2>0, <3>1, <3>2, ReturnMaps
  <2> QED
    BY <2>0, <2>1, <2>2
<1>4. ASSUME fetchEntry(c) PROVE Contract!ClientStep(c)
  <2> DEFINE r == EntryAnswer(ent.uid, ent.val)
  <2>0. call[c].op = "Fetch" /\ p # Nil /\ Finish(c, r) /\ UNCHANGED <<entries, heap>>
    BY <1>4 DEF fetchEntry
  <2>1. r.kind = "entry" /\ r.val = ent.val /\ r.uid = ent.uid
    BY DEF EntryAnswer
  <2>2. e # Invalid
    BY <1>0, <1>1, <2>0 DEF Invalid
  <2> HIDE DEF r
  <2>3. Contract!FetchAnswer(c, r)
    BY <1>0, <1>1, <2>0, <2>1, <2>2, SameCalls DEF Contract!FetchAnswer, IsReserved
  <2> QED
    BY <2>0, <2>3, ReturnMaps
<1>5. ASSUME setEntry(c), NotReserved(p) \/ ent.uid # call[c].uid PROVE Contract!ClientStep(c)
  <2>0. call[c].op = "SetReserved" /\ p # Nil
    BY <1>5 DEF setEntry
  <2>1. CASE NotReserved(p)
    <3>1. Finish(c, Answer("ErrInvalidKey")) /\ UNCHANGED <<entries, heap>>
      BY <1>5, <2>1 DEF setEntry
    <3>2. Contract!SetReservedAnswer(c, Answer("ErrInvalidKey"))
      BY <2>0, SameCalls DEF Contract!SetReservedAnswer
    <3> QED
      BY <3>1, <3>2, ReturnMaps
  <2>2. CASE ~NotReserved(p) /\ ent.uid # call[c].uid
    <3>1. Finish(c, Answer("ErrUidMismatch")) /\ UNCHANGED <<entries, heap>>
      BY <2>2, <1>5 DEF setEntry
    <3>2. e # Invalid /\ e # [uid |-> call[c].uid, val |-> 0]
      BY <1>0, <1>1, <2>0, <2>2 DEF Invalid, NotReserved
    <3>3. Contract!SetReservedAnswer(c, Answer("ErrUidMismatch"))
      BY <1>0, <2>0, <3>2, SameCalls DEF Contract!SetReservedAnswer
    <3> QED
      BY <3>1, <3>3, ReturnMaps
  <2> QED
    BY <1>5, <2>1, <2>2
<1>6. ASSUME setReturn(c) PROVE Contract!ClientStep(c)
  <2>1. call[c].op = "stored" /\ Finish(c, Answer("ok")) /\ UNCHANGED <<entries, heap>>
    BY <1>6 DEF setReturn
  <2>2. Contract!SetReservedAnswer(c, Answer("ok"))
    BY <2>1, SameCalls DEF Contract!SetReservedAnswer
  <2> QED
    BY <2>1, <2>2, ReturnMaps
<1>7. ASSUME RandFailure(c) PROVE Contract!ClientStep(c)
  BY <1>7, ReturnMaps DEF RandFailure
<1> QED
  BY <1>2, <1>3, <1>4, <1>5, <1>6, <1>7

LEMMA DeleteMaps ==
  ASSUME LocalInv, trimDelete
  PROVE  \E k \in Keys : Contract!Expire(k)
<1>0. PICK k \in trim.victim : entries' = [entries EXCEPT ![k] = Nil] /\ Observe(k, Invalid)
  BY DEF trimDelete
<1>1. UNCHANGED <<heap, call, resp>>
  BY DEF trimDelete
<1>2. k \in Keys /\ entries[k] # Nil
  BY Types DEF LocalInv, TrimSound
<1>3. entries'[k] = Nil /\ \A j \in Keys : j # k => entries'[j] = entries[j]
  BY <1>0, <1>2, Types
<1>4. AbsEntry' = [AbsEntry EXCEPT ![k] = Invalid]
  <2>1. AbsEntry'[k] = Invalid /\ \A j \in Keys : j # k => AbsEntry'[j] = AbsEntry[j]
    BY <1>1, <1>2, <1>3 DEF AbsEntry, EntryOf
  <2> QED
    BY <1>2, <2>1 DEF AbsEntry
<1>5. AbsEntry[k] # Invalid
  <2>0. AbsEntry[k] = [uid |-> entries[k], val |-> heap[entries[k]].val]
    BY <1>2, AbsTypes, Zenon
  <2>1. AbsEntry[k].uid = entries[k]
    BY <2>0
  <2>2. Invalid.uid = Nil
    BY DEF Invalid, Nil
  <2> QED
    BY <1>2, <2>1, <2>2
<1>6. UNCHANGED <<IF Allocated = {} THEN 0 ELSE Max(Allocated), [d \in Clients |-> NoCall]>>
  BY <1>1 DEF Allocated
<1>7. Contract!Expire(k)
  BY <1>0, <1>1, <1>4, <1>5, <1>6, SameCalls, SameObserve DEF Contract!Expire
<1> QED
  BY <1>2, <1>7

\* Every step of the local cache is a step of the contract, or invisible to it.
LEMMA StepMaps ==
  ASSUME LocalInv, [Next]_localVars
  PROVE  [Contract!Next]_(Contract!cacheVars)
<1>1. ASSUME NEW c \in Clients, ClientCalls(c) PROVE Contract!ClientStep(c)
  BY <1>1, EnterMaps DEF ClientCalls, Fetch, FetchOrReserve, SetReserved
<1>2. ASSUME NEW c \in Clients, getOrInsertEntry(c)
      PROVE  Contract!ClientStep(c) \/ UNCHANGED Contract!cacheVars
  <2>1. CASE entries[call[c].key] = Nil
    BY <1>2, <2>1, InsertMaps
  <2>2. CASE entries[call[c].key] # Nil
    BY <1>2, <2>2, Unseen DEF getOrInsertEntry, callVars
  <2> QED
    BY <2>1, <2>2
<1>3. ASSUME NEW c \in Clients, getEntry(c) PROVE Contract!ClientStep(c) \/ UNCHANGED Contract!cacheVars
  <2>1. CASE entries[call[c].key] = Nil
    BY <1>3, <2>1, AnswersAreAllowed
  <2>2. CASE entries[call[c].key] # Nil
    BY <1>3, <2>2, Unseen DEF getEntry
  <2> QED
    BY <2>1, <2>2
<1>4. ASSUME NEW c \in Clients, setEntry(c) PROVE Contract!ClientStep(c)
  BY <1>4, StoreMaps, AnswersAreAllowed
<1>5. ASSUME NEW c \in Clients, Step(c) PROVE Contract!ClientStep(c) \/ UNCHANGED Contract!cacheVars
  BY <1>2, <1>3, <1>4, <1>5, AnswersAreAllowed DEF Step
<1>6. ASSUME Trim \/ TrimStep PROVE (\E k \in Keys : Contract!Expire(k)) \/ UNCHANGED Contract!cacheVars
  BY <1>6, DeleteMaps, Unseen DEF Trim, TrimStep, trimCheck, trimEnd
<1>7. ASSUME Tick \/ UNCHANGED localVars PROVE UNCHANGED Contract!cacheVars
  BY <1>7, Unseen DEF Tick, localVars
<1> QED
  BY <1>1, <1>5, <1>6, <1>7 DEF Next, Contract!Next

LEMMA InitMaps == Init => Contract!Init
<1> SUFFICES ASSUME Init PROVE Contract!Init
  OBVIOUS
<1>1. Allocated = {}
  BY DEF Init, Allocated, NoEntry
<1>2. AbsEntry = [k \in Keys |-> Contract!Invalid]
  BY SameCalls DEF Init, AbsEntry, EntryOf
<1>3. Contract!CallsInit
  BY SameCalls DEF Init, CallsInit, Contract!CallsInit
<1>4. [c \in Clients |-> NoCall] = [c \in Clients |-> Contract!NoCall]
  BY SameCalls
<1> QED
  BY <1>1, <1>2, <1>3, <1>4 DEF Contract!Init

-----------------------------------------------------------------------------
(* Theorems *)

\* The inductive invariant.
THEOREM LocalInvariant == Spec => []LocalInv
<1>1. LocalInv /\ [Next]_localVars => LocalInv'
  BY StepInv
<1> QED
  BY <1>1, InitInv, PTL DEF Spec

\* What Trim has taken out of the map is expired, whatever the goroutines that
\* still hold its pointer do between Trim's look at the expiry and its delete,
\* and afterwards.
THEOREM UnlinkedStaysExpired == Spec => []UnlinkedIsExpired
<1>1. LocalInv => UnlinkedIsExpired
  BY DEF LocalInv
<1> QED
  BY <1>1, LocalInvariant, PTL

\* The local span cache implements spancache.Cache for any number of keys and
\* of goroutines, with its two locks and with Trim running at any moment.
THEOREM LocalImplementsContract == Spec => ImplementsContract
<1>1. LocalInv /\ [Next]_localVars => [Contract!Next]_(Contract!cacheVars)
  BY StepMaps
<1> QED
  BY <1>1, LocalInvariant, InitMaps, PTL DEF Spec, ImplementsContract, Contract!Spec
=============================================================================
