----------------------------- MODULE SpanCache ------------------------------
(***************************************************************************)
(* The contract of spancache.Cache as its callers can rely on it with      *)
(* either implementation: a linearized store in which a key is invalid,    *)
(* reserved or initialized.  Time is abstracted: an entry may expire at    *)
(* any moment.  A call may fail, and the request of a failed call may      *)
(* still reach the store afterwards (late).                                *)
(***************************************************************************)
EXTENDS SpanCacheCalls

VARIABLES
  entry,     \* entry[k]: the state of key k
  lastUid,   \* the uid of the latest reservation
  late       \* late[c]: request of a failed call of c that is still under way

cacheVars == <<entry, lastUid, late, callVars>>

Init ==
  /\ CallsInit
  /\ entry = [k \in Keys |-> Invalid]
  /\ lastUid = 0
  /\ late = [c \in Clients |-> NoCall]

-----------------------------------------------------------------------------
\* Entering an operation does not touch the store.
CallFetchOrReserve(c, k) ==
  /\ Enter(c, "FetchOrReserve", k, 0, 0, entry[k])
  /\ UNCHANGED <<entry, lastUid, late>>

CallFetch(c, k) ==
  /\ Enter(c, "Fetch", k, 0, 0, entry[k])
  /\ UNCHANGED <<entry, lastUid, late>>

CallSetReserved(c, k, u, v) ==
  /\ Enter(c, "SetReserved", k, u, v, entry[k])
  /\ UNCHANGED <<entry, lastUid, late>>

\* The four things that can happen to a key.
ReserveKey_taken(k, u) ==
  /\ u > lastUid
  /\ entry' = [entry EXCEPT ![k] = [uid |-> u, val |-> 0]]
  /\ lastUid' = u
  /\ Observe(k, entry'[k])

ReserveKey(k, u) ==
  /\ entry[k] = Invalid
  /\ u > lastUid
  /\ entry' = [entry EXCEPT ![k] = [uid |-> u, val |-> 0]]
  /\ lastUid' = u
  /\ Observe(k, entry'[k])

InitializeKey(k, u, v) ==
  /\ u # 0
  /\ v # 0
  /\ entry[k] = [uid |-> u, val |-> 0]
  /\ entry' = [entry EXCEPT ![k] = [uid |-> u, val |-> v]]
  /\ Observe(k, entry'[k])
  /\ UNCHANGED lastUid

Expire(k) ==
  /\ entry[k] # Invalid
  /\ entry' = [entry EXCEPT ![k] = Invalid]
  /\ Observe(k, Invalid)
  /\ UNCHANGED <<lastUid, late, call, resp>>

\* FetchOrReserve reserves an invalid entry.
Reserve(c, u) ==
  /\ call[c].op = "FetchOrReserve"
  /\ ReserveKey(call[c].key, u)
  /\ call' = [call EXCEPT ![c] = [op |-> "reserved", key |-> @.key, uid |-> u, val |-> 0]]
  /\ UNCHANGED <<late, resp>>

\* SetReserved gives the reserved entry with the given uid its value.
Store(c) ==
  /\ call[c].op = "SetReserved"
  /\ InitializeKey(call[c].key, call[c].uid, call[c].val)
  /\ call' = [call EXCEPT ![c] = [op |-> "stored", key |-> @.key, uid |-> @.uid, val |-> @.val]]
  /\ UNCHANGED <<late, resp>>

-----------------------------------------------------------------------------
\* The answers each call may give.
FetchOrReserveAnswer(c, r) ==
  \/ /\ call[c].op = "reserved"
     /\ r = EntryAnswer(call[c].uid, 0)
  \/ /\ call[c].op \in {"FetchOrReserve", "reserved"}
     /\ \E e \in seen[c] : IsInitialized(e) /\ r.kind = "entry" /\ r.val = e.val
  \/ /\ call[c].op = "FetchOrReserve"
     /\ \E e \in seen[c] : IsReserved(e)
     /\ r = Answer("ErrAlreadyReserved")

FetchAnswer(c, r) ==
  /\ call[c].op = "Fetch"
  /\ \/ Invalid \in seen[c] /\ r = Answer("absent")
     \/ \E e \in seen[c] :
          /\ e # Invalid
          /\ r.kind = "entry"
          /\ r.val = e.val
          /\ IsReserved(e) => r.uid = e.uid

SetReservedAnswer(c, r) ==
  \/ /\ call[c].op = "stored"
     /\ r = Answer("ok")
  \/ /\ call[c].op = "SetReserved"
     /\ \/ r = Answer("ErrInvalidKey")
        \/ /\ r = Answer("ErrUidMismatch")
           /\ \E e \in seen[c] : e # Invalid /\ e # [uid |-> call[c].uid, val |-> 0]

Return(c, r) ==
  /\ FetchOrReserveAnswer(c, r) \/ FetchAnswer(c, r) \/ SetReservedAnswer(c, r)
  /\ Leave(c, r)
  /\ UNCHANGED <<entry, lastUid, late>>

\* The call fails, whether or not its effect has happened...
Fail(c) ==
  /\ Leave(c, Answer("failure"))
  /\ UNCHANGED <<entry, lastUid, late>>

\* ... or its request is still on its way to the store.
FailLate(c) ==
  /\ call[c].op \in {"FetchOrReserve", "SetReserved"}
  /\ late[c] = NoCall
  /\ late' = [late EXCEPT ![c] = call[c]]
  /\ Leave(c, Answer("failure"))
  /\ UNCHANGED <<entry, lastUid>>

Settle(c) == late' = [late EXCEPT ![c] = NoCall]

LateReserve(c, u) ==
  /\ late[c].op = "FetchOrReserve"
  /\ ReserveKey(late[c].key, u)
  /\ Settle(c)
  /\ UNCHANGED <<call, resp>>

LateStore(c) ==
  /\ late[c].op = "SetReserved"
  /\ InitializeKey(late[c].key, late[c].uid, late[c].val)
  /\ Settle(c)
  /\ UNCHANGED <<call, resp>>

\* The request has no effect: it found the key taken, or it was dropped.
LateDrop(c) ==
  /\ late[c] # NoCall
  /\ Settle(c)
  /\ UNCHANGED <<entry, lastUid, callVars>>

-----------------------------------------------------------------------------
\* The arguments of a call, the uid of a reservation and an answer are those
\* the step itself exhibits: the contract puts no bound on them.
ClientStep(c) ==
  \/ CallFetchOrReserve(c, call'[c].key)
  \/ CallFetch(c, call'[c].key)
  \/ CallSetReserved(c, call'[c].key, call'[c].uid, call'[c].val)
  \/ Reserve(c, lastUid')
  \/ Store(c)
  \/ Return(c, resp'[c])
  \/ Fail(c)
  \/ FailLate(c)
  \/ LateReserve(c, lastUid')
  \/ LateStore(c)
  \/ LateDrop(c)

Next ==
  \/ \E c \in Clients : ClientStep(c)
  \/ \E k \in Keys : Expire(k)

Spec == Init /\ [][Next]_cacheVars

TypeOK ==
  /\ CallsTypeOK
  /\ entry \in [Keys -> Entry]
  /\ lastUid \in Nat
  /\ late \in [Clients -> Call]
=============================================================================
