--------------------------- MODULE EtcdSpanCache ----------------------------
(***************************************************************************)
(* spancache/etcd: the span cache shared by several processes.  A          *)
(* reservation or a value is one etcd transaction, written under a lease   *)
(* granted just before; the uid of an entry is an etcd revision.           *)
(*                                                                         *)
(* The etcd server (revisions, leases, transactions) is external and is    *)
(* modelled from what the cache asks of it.  A request may fail before,    *)
(* after or without taking effect, or take effect after its caller has     *)
(* been told it failed.                                                    *)
(***************************************************************************)
EXTENDS SpanCacheCalls, FiniteSets

CONSTANTS
  Vals,          \* values clients store
  ReuseUids,     \* whether clients also store with the uid of an initialized entry
  MaxLease       \* bound: leases granted

ASSUME EtcdAssumption ==
  /\ Vals \subseteq Nat \ {0}
  /\ ReuseUids \in BOOLEAN
  /\ MaxLease \in Nat

VARIABLES
  rev,           \* etcd: revision of the store
  kv,            \* etcd: kv[k], the key-value pair of key k
  leases,        \* etcd: the leases that have not expired
  granted,       \* number of leases granted so far
  lease,         \* lease[c]: the lease the running call of c was granted, or 0
  reply,         \* reply[c]: the answer of the server, on its way to c
  late,          \* late[c]: transaction of a failed call of c still under way
  lateLease,     \* the lease that transaction carries
  lastReserve    \* history: revision of the latest reservation

server == <<rev, kv, leases, granted, lastReserve>>
etcdVars == <<server, lease, reply, late, lateLease, callVars>>

NoPair == [create |-> 0, mod |-> 0, val |-> 0, lease |-> 0]
Pair == [create : Nat, mod : Nat, val : Nat, lease : Nat]
NoReply == Answer("none")

Init ==
  /\ CallsInit
  /\ rev = 0
  /\ kv = [k \in Keys |-> NoPair]
  /\ leases = {}
  /\ granted = 0
  /\ lease = [c \in Clients |-> 0]
  /\ reply = [c \in Clients |-> NoReply]
  /\ late = [c \in Clients |-> NoCall]
  /\ lateLease = [c \in Clients |-> 0]
  /\ lastReserve = 0

\* An entry as the contract sees it; the first byte of the stored value tells
\* reserved (val 0) from initialized.
EntryOf(pair) == [uid |-> pair.create, val |-> pair.val]
AbsEntry == [k \in Keys |-> EntryOf(kv[k])]

-----------------------------------------------------------------------------
\* etcd: write val under no lease at all.
Put_noLease(k, val, l) ==
  /\ rev' = rev + 1
  /\ kv' = [kv EXCEPT ![k] = [create |-> IF @.create = 0 THEN rev + 1 ELSE @.create,
                              mod |-> rev + 1, val |-> val, lease |-> 0]]
  /\ Observe(k, EntryOf(kv'[k]))

\* etcd: write val under lease l; a new key starts a new create revision.
Put(k, val, l) ==
  /\ rev' = rev + 1
  /\ kv' = [kv EXCEPT ![k] = [create |-> IF @.create = 0 THEN rev + 1 ELSE @.create,
                              mod |-> rev + 1, val |-> val, lease |-> l]]
  /\ Observe(k, EntryOf(kv'[k]))

\* etcd: a lease runs out and takes the keys attached to it along.
LeaseExpire(l) ==
  LET attached == {k \in Keys : kv[k].lease = l} IN
  /\ l \in leases
  /\ leases' = leases \ {l}
  /\ kv' = [k \in Keys |-> IF k \in attached THEN NoPair ELSE kv[k]]
  /\ rev' = IF attached = {} THEN rev ELSE rev + 1
  /\ seen' = [c \in Clients |->
                IF ~Idle(c) /\ call[c].key \in attached THEN seen[c] \cup {Invalid} ELSE seen[c]]
  /\ UNCHANGED <<granted, lastReserve, lease, reply, late, lateLease, call, resp>>

-----------------------------------------------------------------------------
FetchOrReserve(c, k) ==
  /\ Enter(c, "FetchOrReserve", k, 0, 0, AbsEntry[k])
  /\ UNCHANGED <<server, lease, reply, late, lateLease>>

Fetch(c, k) ==
  /\ Enter(c, "Fetch", k, 0, 0, AbsEntry[k])
  /\ UNCHANGED <<server, lease, reply, late, lateLease>>

SetReserved(c, k, u, v) ==
  /\ Enter(c, "SetReserved", k, u, v, AbsEntry[k])
  /\ UNCHANGED <<server, lease, reply, late, lateLease>>

\* client.Lease.Grant
Grant(c) ==
  /\ call[c].op \in {"FetchOrReserve", "SetReserved"}
  /\ lease[c] = 0
  /\ granted' = granted + 1
  /\ leases' = leases \cup {granted + 1}
  /\ lease' = [lease EXCEPT ![c] = granted + 1]
  /\ UNCHANGED <<rev, kv, lastReserve, reply, late, lateLease, callVars>>

\* The transaction of FetchOrReserve: create the key, or get it.
\* etcd refuses a put under a lease that has expired.
ReserveTxn(c) ==
  LET k == call[c].key
      pair == kv[k]
  IN
  /\ call[c].op = "FetchOrReserve"
  /\ lease[c] # 0
  /\ reply[c] = NoReply
  /\ \/ /\ pair.create = 0
        /\ lease[c] \in leases
        /\ Put(k, 0, lease[c])
        /\ lastReserve' = rev + 1
        /\ call' = [call EXCEPT ![c] = [op |-> "reserved", key |-> @.key, uid |-> rev + 1, val |-> 0]]
        /\ reply' = [reply EXCEPT ![c] = EntryAnswer(rev + 1, 0)]
     \/ /\ pair.create = 0
        /\ lease[c] \notin leases
        /\ reply' = [reply EXCEPT ![c] = Answer("failure")]
        /\ UNCHANGED <<rev, kv, lastReserve, call, seen>>
     \/ /\ pair.create # 0
        /\ reply' = [reply EXCEPT ![c] = IF pair.val = 0 THEN Answer("ErrAlreadyReserved")
                                         ELSE EntryAnswer(pair.create, pair.val)]
        /\ UNCHANGED <<rev, kv, lastReserve, call, seen>>
  /\ UNCHANGED <<leases, granted, lease, late, lateLease, resp>>

\* The get of Fetch.
GetTxn(c) ==
  LET pair == kv[call[c].key] IN
  /\ call[c].op = "Fetch"
  /\ reply[c] = NoReply
  /\ reply' = [reply EXCEPT ![c] = IF pair.create = 0 THEN Answer("absent")
                                   ELSE EntryAnswer(pair.mod, pair.val)]
  /\ UNCHANGED <<server, lease, late, lateLease, callVars>>

\* The comparison of SetReserved, for the request q.
UidMatches_present(q) == kv[q.key].mod # 0
UidMatches(q) == kv[q.key].mod = q.uid

\* The transaction of SetReserved: compare-and-swap on the mod revision.
StoreTxn(c) ==
  LET k == call[c].key IN
  /\ call[c].op = "SetReserved"
  /\ lease[c] # 0
  /\ reply[c] = NoReply
  /\ \/ /\ UidMatches(call[c])
        /\ lease[c] \in leases
        /\ Put(k, call[c].val, lease[c])
        /\ call' = [call EXCEPT ![c].op = "stored"]
        /\ reply' = [reply EXCEPT ![c] = Answer("ok")]
     \/ /\ UidMatches(call[c])
        /\ lease[c] \notin leases
        /\ reply' = [reply EXCEPT ![c] = Answer("failure")]
        /\ UNCHANGED <<rev, kv, call, seen>>
     \/ /\ ~UidMatches(call[c])
        /\ reply' = [reply EXCEPT ![c] = Answer(IF kv[k].create = 0 THEN "ErrInvalidKey"
                                                ELSE "ErrUidMismatch")]
        /\ UNCHANGED <<rev, kv, call, seen>>
  /\ UNCHANGED <<leases, granted, lastReserve, lease, late, lateLease, resp>>

Finish(c, r) ==
  /\ Leave(c, r)
  /\ lease' = [lease EXCEPT ![c] = 0]
  /\ reply' = [reply EXCEPT ![c] = NoReply]

Return(c) ==
  /\ reply[c] # NoReply
  /\ Finish(c, reply[c])
  /\ UNCHANGED <<server, late, lateLease>>

\* A request is lost, or its answer is.
Fail(c) ==
  /\ Finish(c, Answer("failure"))
  /\ UNCHANGED <<server, late, lateLease>>

\* The caller is told of a timeout while its transaction is still under way.
\* Bound: one such transaction per client.
FailLate(c) ==
  /\ call[c].op \in {"FetchOrReserve", "SetReserved"}
  /\ lease[c] # 0
  /\ reply[c] = NoReply
  /\ late[c] = NoCall
  /\ late' = [late EXCEPT ![c] = call[c]]
  /\ lateLease' = [lateLease EXCEPT ![c] = lease[c]]
  /\ Finish(c, Answer("failure"))
  /\ UNCHANGED server

\* The transaction arrives after all, or is dropped.
LateTxn(c) ==
  LET q == late[c]
      l == lateLease[c]
  IN
  /\ q # NoCall
  /\ late' = [late EXCEPT ![c] = NoCall]
  /\ lateLease' = [lateLease EXCEPT ![c] = 0]
  /\ \/ /\ q.op = "FetchOrReserve"
        /\ kv[q.key].create = 0
        /\ l \in leases
        /\ Put(q.key, 0, l)
        /\ lastReserve' = rev + 1
     \/ /\ q.op = "SetReserved"
        /\ UidMatches(q)
        /\ l \in leases
        /\ Put(q.key, q.val, l)
        /\ UNCHANGED lastReserve
     \/ UNCHANGED <<rev, kv, lastReserve, seen>>
  /\ UNCHANGED <<leases, granted, lease, reply, call, resp>>

\* A client stores with the uid of the entry it was last given.
ClientCalls(c) ==
  \/ \E k \in Keys : Fetch(c, k)
  \/ /\ granted + Cardinality({d \in Clients : ~Idle(d) /\ lease[d] = 0}) < MaxLease
     /\ \/ \E k \in Keys : FetchOrReserve(c, k)
        \/ /\ resp[c].kind = "entry"
           /\ resp[c].val = 0 \/ ReuseUids
           /\ \E k \in Keys, v \in Vals : SetReserved(c, k, resp[c].uid, v)

Step(c) == Grant(c) \/ ReserveTxn(c) \/ GetTxn(c) \/ StoreTxn(c) \/ Return(c) \/ Fail(c) \/ FailLate(c)

Next ==
  \/ \E c \in Clients : ClientCalls(c) \/ Step(c) \/ LateTxn(c)
  \/ \E l \in leases : LeaseExpire(l)

Spec == Init /\ [][Next]_etcdVars

\* Requests are answered or time out; leases nobody keeps alive run out.
Fairness ==
  /\ \A c \in Clients : WF_etcdVars(Step(c))
  /\ \A l \in 1..MaxLease : WF_etcdVars(LeaseExpire(l))

FairSpec == Spec /\ Fairness

-----------------------------------------------------------------------------
\* Types of the state of the etcd cache and of the etcd server.
TypeOK ==
  /\ CallsTypeOK
  /\ rev \in Nat
  /\ kv \in [Keys -> Pair]
  /\ leases \subseteq 1..MaxLease
  /\ granted \in 0..MaxLease
  /\ lease \in [Clients -> 0..MaxLease]
  /\ reply \in [Clients -> Response]
  /\ late \in [Clients -> Call]
  /\ lateLease \in [Clients -> 0..MaxLease]
  /\ lastReserve \in 0..rev

\* The etcd cache implements the contract, answers, failures and late
\* transactions included, for clients that store with the uid of a reserved
\* entry (as the aggregator does).
Contract == INSTANCE SpanCache WITH entry <- AbsEntry, lastUid <- lastReserve
ImplementsContract == Contract!Spec

\* Nothing stays in the store past its time to live: each key is attached to a
\* live lease, that of its last writer, through every failure and late request.
KeysLiveWithTheirLease ==
  \A k \in Keys : kv[k].create # 0 => kv[k].lease \in leases

\* A reservation whose owner died, failed or timed out ends: the key is
\* stored, or the lease of the reservation removes it.
ReservationEnds ==
  \A k \in Keys : IsReserved(AbsEntry[k]) ~> ~IsReserved(AbsEntry[k])

\* "Returns non-nil error if the entry UID mismatches or if the entry is not
\* reserved": SetReserved never replaces the value of an initialized entry.
InitializedIsImmutable ==
  [][\A k \in Keys : kv[k].val # 0 => kv'[k].val \in {0, kv[k].val}]_etcdVars
=============================================================================
