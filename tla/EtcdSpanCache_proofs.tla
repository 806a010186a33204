------------------------ MODULE EtcdSpanCache_proofs ------------------------
(***************************************************************************)
(* The etcd span cache implements the contract, for every number of        *)
(* clients, keys and leases and through every failure and late request.    *)
(***************************************************************************)
EXTENDS EtcdSpanCache, TLAPS

EtcdTypeOK ==
  /\ CallsTypeOK
  /\ rev \in Nat
  /\ kv \in [Keys -> Pair]
  /\ granted \in Nat
  /\ leases \subseteq 1..granted
  /\ lease \in [Clients -> 0..granted]
  /\ reply \in [Clients -> Response]
  /\ late \in [Clients -> Call]
  /\ lateLease \in [Clients -> 0..granted]
  /\ lastReserve \in 0..rev

Present == {k \in Keys : kv[k].create # 0}

\* Revisions: a reserved pair has not been written since its creation, and no
\* two pairs were written at the same revision.
PairsSound ==
  /\ \A k \in Keys \ Present : kv[k] = NoPair
  /\ \A k \in Present : kv[k].mod \in 1..rev /\ (kv[k].val = 0 => kv[k].mod = kv[k].create)
  /\ \A j, k \in Present : kv[j].mod = kv[k].mod => j = k

\* Nothing stays past its lease, and a lease removes one key.
KeysHaveLeases ==
  /\ KeysLiveWithTheirLease
  /\ \A j, k \in Present : kv[j].lease = kv[k].lease => j = k

\* The revisions of reservations, whether or not they are still there.
Reservations == {u \in 1..rev : \A k \in Keys : kv[k].mod = u => kv[k].val = 0}

\* A uid that a client is given for a reserved entry, or uses, is one of them.
Gives(r, S) == r.kind = "entry" /\ r.val = 0 => r.uid \in S
Stores(q, S) == q.op = "SetReserved" => q.val # 0 /\ q.uid \in S
UidsAreReservations ==
  \A c \in Clients : /\ Gives(resp[c], Reservations) /\ Gives(reply[c], Reservations)
                     /\ Stores(call[c], Reservations) /\ Stores(late[c], Reservations)

\* The calls with a lease that they have not used yet, and those still under
\* way after their caller was told of a failure.
CanUse(q, l, r) == q.op \in {"FetchOrReserve", "SetReserved"} /\ l # 0 /\ r = NoReply
Armed == {c \in Clients : CanUse(call[c], lease[c], reply[c])}
Pending == {c \in Clients : late[c] # NoCall}

\* A lease serves one transaction: what a call or a late request is going to use
\* is attached to no key and shared with no other.
Attached == {kv[k].lease : k \in Present}
LeasesAreUnused ==
  /\ \A c \in Armed : lease[c] \notin Attached
  /\ \A c \in Pending : lateLease[c] # 0 /\ lateLease[c] \notin Attached
  /\ \A c, d \in Armed : lease[c] = lease[d] => c = d
  /\ \A c, d \in Pending : lateLease[c] = lateLease[d] => c = d
  /\ \A c \in Armed, d \in Pending : lease[c] # lateLease[d]
  /\ \A c \in Clients : call[c].op = "none" => lease[c] = 0

\* A running call could have observed the present state of its key.
SeenIsCurrent == \A c \in Clients : call[c].op # "none" => AbsEntry[call[c].key] \in seen[c]

\* What a call q that could observe the states s may be answered.
Allowed(q, s, r) ==
  \/ q.op = "reserved" /\ r = EntryAnswer(q.uid, 0)
  \/ q.op = "FetchOrReserve" /\ \E e \in s : IsInitialized(e) /\ r.kind = "entry" /\ r.val = e.val
  \/ q.op = "FetchOrReserve" /\ (\E e \in s : IsReserved(e)) /\ r = Answer("ErrAlreadyReserved")
  \/ q.op = "Fetch" /\ Invalid \in s /\ r = Answer("absent")
  \/ q.op = "Fetch" /\ \E e \in s : /\ e # Invalid /\ r.kind = "entry" /\ r.val = e.val
                                    /\ IsReserved(e) => r.uid = e.uid
  \/ q.op = "stored" /\ r = Answer("ok")
  \/ q.op = "SetReserved" /\ r = Answer("ErrInvalidKey")
  \/ /\ q.op = "SetReserved" /\ r = Answer("ErrUidMismatch")
     /\ \E e \in s : e # Invalid /\ e # [uid |-> q.uid, val |-> 0]

\* An answer on its way is one that the contract allows.
RepliesAreAllowed ==
  \A c \in Clients : \/ reply[c] = NoReply
                     \/ call[c].op # "none" /\ reply[c] = Answer("failure")
                     \/ Allowed(call[c], seen[c], reply[c])

\* The inductive invariant, for clients that store with the uid of a reserved
\* entry only.
EtcdInv ==
  /\ EtcdTypeOK /\ PairsSound /\ KeysHaveLeases
  /\ UidsAreReservations /\ LeasesAreUnused /\ SeenIsCurrent /\ RepliesAreAllowed

-----------------------------------------------------------------------------
(* What a step does to the store *)

\* A call keeps the answers it may be given while it observes more states.
LEMMA AllowedGrows ==
  ASSUME NEW q, NEW s, NEW r, NEW t, s \subseteq t, Allowed(q, s, r)
  PROVE  Allowed(q, t, r)
  BY DEF Allowed

LEMMA GivesGrows == ASSUME NEW r, NEW S, NEW T, S \subseteq T, Gives(r, S) PROVE Gives(r, T)
  BY DEF Gives

LEMMA StoresGrows == ASSUME NEW q, NEW S, NEW T, S \subseteq T, Stores(q, S) PROVE Stores(q, T)
  BY DEF Stores

LEMMA NoCallIsCall == NoCall \in Call /\ NoCall.op = "none"
  BY KeysAssumption DEF NoCall, AnyKey, Call, Ops

\* etcd writes a pair: what the entry becomes, and what is kept of the others.
LEMMA PutStep ==
  ASSUME EtcdTypeOK, PairsSound, KeysHaveLeases,
         NEW k \in Keys, NEW val \in Nat, NEW l \in leases, l \notin Attached,
         val = 0 => k \notin Present,
         Put(k, val, l), UNCHANGED leases
  PROVE  /\ rev' = rev + 1
         /\ kv' \in [Keys -> Pair]
         /\ PairsSound' /\ KeysHaveLeases'
         /\ AbsEntry' = [AbsEntry EXCEPT ![k] = [uid |-> IF k \in Present THEN kv[k].create ELSE rev + 1,
                                                 val |-> val]]
         /\ Reservations \subseteq Reservations'
         /\ val = 0 => rev + 1 \in Reservations'
         /\ Attached' \subseteq Attached \cup {l}
<1> DEFINE create == IF k \in Present THEN kv[k].create ELSE rev + 1
           pair == [create |-> create, mod |-> rev + 1, val |-> val, lease |-> l]
<1>0. /\ rev \in Nat /\ kv \in [Keys -> Pair] /\ l \in Nat /\ l # 0
      /\ \A j \in Keys : kv[j].create \in Nat /\ kv[j].mod \in Nat /\ kv[j].val \in Nat /\ kv[j].lease \in Nat
  BY DEF EtcdTypeOK, Pair
<1>1. rev' = rev + 1 /\ kv' = [kv EXCEPT ![k] = pair]
  BY <1>0 DEF Put, Present
<1>2. create \in Nat /\ create # 0
  BY <1>0 DEF Present
<1>3. pair \in Pair /\ pair.create = create /\ pair.mod = rev + 1 /\ pair.val = val /\ pair.lease = l
  BY <1>0, <1>2 DEF Pair
<1>4. kv' \in [Keys -> Pair] /\ kv'[k] = pair /\ \A j \in Keys \ {k} : kv'[j] = kv[j]
  BY <1>0, <1>1, <1>3
<1>5. k \notin Present => create = rev + 1
  OBVIOUS
<1> HIDE DEF pair, create
<1>6. Present' = Present \cup {k}
  BY <1>2, <1>3, <1>4 DEF Present
<1>7. \A j \in Present : kv[j].mod < rev + 1 /\ kv[j].mod # 0
  BY <1>0 DEF PairsSound, Present
<1>8. PairsSound'
  <2>1. \A j \in Keys \ Present' : kv'[j] = NoPair
    BY <1>4, <1>6 DEF PairsSound
  <2>2. \A j \in Present' : kv'[j].mod \in 1..rev' /\ (kv'[j].val = 0 => kv'[j].mod = kv'[j].create)
    <3> TAKE j \in Present'
    <3>1. CASE j = k
      BY <1>0, <1>1, <1>3, <1>4, <1>5, <3>1
    <3>2. CASE j # k
      <4>1. j \in Present /\ kv'[j] = kv[j]
        BY <1>4, <1>6, <3>2 DEF Present
      <4> QED
        BY <1>0, <1>1, <4>1 DEF PairsSound
    <3> QED
      BY <3>1, <3>2
  <2>3. \A i, j \in Present' : kv'[i].mod = kv'[j].mod => i = j
    <3> SUFFICES ASSUME NEW i \in Present', NEW j \in Present', i # j PROVE kv'[i].mod # kv'[j].mod
      OBVIOUS
    <3>1. \A m \in Present' : m # k => m \in Present /\ kv'[m] = kv[m]
      BY <1>4, <1>6 DEF Present
    <3>2. CASE i = k \/ j = k
      BY <1>0, <1>3, <1>4, <1>7, <3>1, <3>2
    <3>3. CASE i # k /\ j # k
      BY <3>1, <3>3 DEF PairsSound
    <3> QED
      BY <3>2, <3>3
  <2> QED
    BY <2>1, <2>2, <2>3 DEF PairsSound
<1>9. KeysHaveLeases'
  <2>1. \A j \in Present' : j # k => j \in Present /\ kv'[j] = kv[j]
    BY <1>4, <1>6 DEF Present
  <2>2. KeysLiveWithTheirLease'
    BY <1>3, <1>4, <2>1 DEF KeysHaveLeases, KeysLiveWithTheirLease, Present
  <2>3. \A j \in Present : kv[j].lease # l
    BY DEF Attached
  <2>4. \A i, j \in Present' : kv'[i].lease = kv'[j].lease => i = j
    BY <1>3, <1>4, <2>1, <2>3 DEF KeysHaveLeases
  <2> QED
    BY <2>2, <2>4 DEF KeysHaveLeases
<1>10. AbsEntry' = [AbsEntry EXCEPT ![k] = [uid |-> create, val |-> val]]
  <2>1. EntryOf(pair) = [uid |-> create, val |-> val]
    BY <1>3 DEF EntryOf
  <2>2. AbsEntry' = [j \in Keys |-> EntryOf(kv'[j])]
    BY DEF AbsEntry, EntryOf
  <2> HIDE DEF AbsEntry
  <2>3. \A j \in Keys : EntryOf(kv'[j]) = IF j = k THEN [uid |-> create, val |-> val] ELSE EntryOf(kv[j])
    BY <1>4, <2>1
  <2>4. AbsEntry = [j \in Keys |-> EntryOf(kv[j])]
    BY DEF AbsEntry
  <2> QED
    BY <2>2, <2>3, <2>4
<1>11. Reservations \subseteq Reservations'
  BY <1>0, <1>1, <1>3, <1>4 DEF Reservations
<1>12. val = 0 => rev + 1 \in Reservations'
  <2>1. \A j \in Keys \ {k} : kv'[j].mod # rev + 1
    BY <1>0, <1>4, <1>7 DEF PairsSound, NoPair
  <2> QED
    BY <1>0, <1>1, <1>3, <1>4, <2>1 DEF Reservations
<1>13. Attached' \subseteq Attached \cup {l}
  BY <1>3, <1>4, <1>6 DEF Attached, Present
<1> QED
  BY <1>1, <1>4, <1>8, <1>9, <1>10, <1>11, <1>12, <1>13 DEF create

\* A step that leaves the store alone; leases may be added.
LEMMA StoreKept ==
  ASSUME PairsSound, KeysHaveLeases, UNCHANGED <<rev, kv>>, leases \subseteq leases'
  PROVE  /\ PairsSound' /\ KeysHaveLeases'
         /\ Reservations' = Reservations /\ Attached' = Attached /\ AbsEntry' = AbsEntry
<1>1. Present' = Present
  BY DEF Present
<1>2. PairsSound' /\ KeysHaveLeases'
  BY <1>1 DEF PairsSound, KeysHaveLeases, KeysLiveWithTheirLease
<1>3. Reservations' = Reservations /\ Attached' = Attached /\ AbsEntry' = AbsEntry
  BY <1>1 DEF Reservations, Attached, AbsEntry
<1> QED
  BY <1>2, <1>3

\* A lease runs out: at most one key goes.
LEMMA ExpireStep ==
  ASSUME EtcdTypeOK, PairsSound, KeysHaveLeases, NEW l \in leases, LeaseExpire(l)
  PROVE  /\ rev' \in Nat /\ rev <= rev'
         /\ kv' \in [Keys -> Pair]
         /\ PairsSound' /\ KeysHaveLeases'
         /\ Reservations \subseteq Reservations' /\ Attached' \subseteq Attached
         /\ \/ AbsEntry' = AbsEntry /\ UNCHANGED seen
            \/ \E k \in Present : /\ AbsEntry' = [AbsEntry EXCEPT ![k] = Invalid]
                                  /\ Observe(k, Invalid)
<1> DEFINE attached == {k \in Keys : kv[k].lease = l}
<1>0. /\ rev \in Nat /\ kv \in [Keys -> Pair] /\ l # 0 /\ leases' = leases \ {l}
      /\ kv' = [k \in Keys |-> IF k \in attached THEN NoPair ELSE kv[k]]
      /\ rev' = (IF attached = {} THEN rev ELSE rev + 1)
      /\ seen' = [c \in Clients |->
                    IF ~Idle(c) /\ call[c].key \in attached THEN seen[c] \cup {Invalid} ELSE seen[c]]
  BY DEF EtcdTypeOK, LeaseExpire
<1>1. NoPair \in Pair /\ NoPair.create = 0 /\ NoPair.mod = 0 /\ NoPair.val = 0 /\ NoPair.lease = 0
  BY DEF NoPair, Pair
<1>2. attached \subseteq Present /\ \A j, k \in attached : j = k
  BY <1>0, <1>1 DEF PairsSound, KeysHaveLeases, Present
<1> HIDE DEF attached
<1>3. rev' \in Nat /\ rev <= rev' /\ kv' \in [Keys -> Pair]
  BY <1>0, <1>1
<1>4. \A k \in Keys : kv'[k] = IF k \in attached THEN NoPair ELSE kv[k]
  BY <1>0
<1>5. Present' = Present \ attached
  BY <1>1, <1>4 DEF Present
<1>6. Present \subseteq Keys
  BY DEF Present
<1>7. PairsSound'
  <2>1. \A k \in Keys \ Present' : kv'[k] = NoPair
    BY <1>4, <1>5 DEF PairsSound
  <2>2. \A k \in Present' : kv'[k].mod \in 1..rev' /\ (kv'[k].val = 0 => kv'[k].mod = kv'[k].create)
    BY <1>0, <1>3, <1>4, <1>5, <1>6 DEF PairsSound
  <2>3. \A j, k \in Present' : kv'[j].mod = kv'[k].mod => j = k
    BY <1>4, <1>5, <1>6 DEF PairsSound
  <2> QED
    BY <2>1, <2>2, <2>3 DEF PairsSound
<1>8. KeysHaveLeases'
  <2>1. \A k \in Present' : kv'[k] = kv[k] /\ kv[k].lease # l /\ k \in Present
    BY <1>4, <1>5, <1>6 DEF attached
  <2>2. KeysLiveWithTheirLease'
    BY <1>0, <2>1 DEF KeysHaveLeases, KeysLiveWithTheirLease, Present
  <2> QED
    BY <2>1, <2>2 DEF KeysHaveLeases
<1>9. Reservations \subseteq Reservations'
  BY <1>0, <1>1, <1>3, <1>4 DEF Reservations
<1>10. Attached' \subseteq Attached
  BY <1>4, <1>5, <1>6 DEF Attached
<1>11. AbsEntry' = [k \in Keys |-> IF k \in attached THEN Invalid ELSE AbsEntry[k]]
  <2>1. EntryOf(NoPair) = Invalid
    BY DEF EntryOf, NoPair, Invalid
  <2>2. AbsEntry' = [k \in Keys |-> EntryOf(kv'[k])] /\ AbsEntry = [k \in Keys |-> EntryOf(kv[k])]
    BY DEF AbsEntry, EntryOf
  <2> HIDE DEF AbsEntry
  <2>3. \A k \in Keys : EntryOf(kv'[k]) = IF k \in attached THEN Invalid ELSE AbsEntry[k]
    BY <1>4, <2>1, <2>2
  <2> QED
    BY <2>2, <2>3
<1>12. AbsEntry = [k \in Keys |-> AbsEntry[k]]
  BY DEF AbsEntry
<1>13. CASE attached = {}
  <2>1. AbsEntry' = AbsEntry
    BY <1>11, <1>12, <1>13
  <2>2. seen' = seen
    BY <1>0, <1>13 DEF EtcdTypeOK, CallsTypeOK
  <2> QED
    BY <1>3, <1>7, <1>8, <1>9, <1>10, <2>1, <2>2
<1>14. CASE attached # {}
  <2>1. PICK k \in attached : attached = {k}
    BY <1>2, <1>14
  <2>2. k \in Present /\ k \in Keys
    BY <1>2, <1>6
  <2>3. AbsEntry' = [AbsEntry EXCEPT ![k] = Invalid]
    BY <1>11, <1>12, <2>1, <2>2
  <2>4. Observe(k, Invalid)
    BY <1>0, <2>1 DEF Observe, Idle
  <2> QED
    BY <1>3, <1>7, <1>8, <1>9, <1>10, <2>2, <2>3, <2>4
<1> QED
  BY <1>13, <1>14

-----------------------------------------------------------------------------
(* What a step does to the clients *)

\* The other clients, of which a step may only extend what they observe.
Others(c) ==
  \A d \in Clients \ {c} :
    /\ call'[d] = call[d] /\ resp'[d] = resp[d] /\ reply'[d] = reply[d]
    /\ lease'[d] = lease[d] /\ late'[d] = late[d] /\ lateLease'[d] = lateLease[d]
    /\ seen[d] \subseteq seen'[d]

LEMMA UidsKept ==
  ASSUME UidsAreReservations, Reservations \subseteq Reservations', NEW c \in Clients, Others(c),
         Gives(resp'[c], Reservations'), Gives(reply'[c], Reservations'),
         Stores(call'[c], Reservations'), Stores(late'[c], Reservations')
  PROVE  UidsAreReservations'
<1> SUFFICES ASSUME NEW d \in Clients
             PROVE  /\ Gives(resp'[d], Reservations') /\ Gives(reply'[d], Reservations')
                    /\ Stores(call'[d], Reservations') /\ Stores(late'[d], Reservations')
  BY DEF UidsAreReservations
<1>1. CASE d = c
  BY <1>1
<1>2. CASE d # c
  BY <1>2, GivesGrows, StoresGrows DEF UidsAreReservations, Others
<1> QED
  BY <1>1, <1>2

\* Leases are spent, not shared: l is the one spent in the step, or 0.
LEMMA LeasesKept ==
  ASSUME LeasesAreUnused, NEW l, Attached' \subseteq Attached \cup {l},
         Armed' \subseteq Armed, Pending' \subseteq Pending,
         \A c \in Armed' : lease'[c] = lease[c] /\ lease[c] # l,
         \A c \in Pending' : lateLease'[c] = lateLease[c] /\ lateLease[c] # l,
         \A c \in Clients : call'[c].op = "none" => lease'[c] = 0
  PROVE  LeasesAreUnused'
  BY DEF LeasesAreUnused

LEMMA RepliesKept ==
  ASSUME RepliesAreAllowed, NEW c \in Clients, Others(c),
         \/ reply'[c] = NoReply
         \/ call'[c].op # "none" /\ reply'[c] = Answer("failure")
         \/ Allowed(call'[c], seen'[c], reply'[c])
  PROVE  RepliesAreAllowed'
<1> SUFFICES ASSUME NEW d \in Clients
             PROVE  \/ reply'[d] = NoReply
                    \/ call'[d].op # "none" /\ reply'[d] = Answer("failure")
                    \/ Allowed(call'[d], seen'[d], reply'[d])
  BY DEF RepliesAreAllowed, NoReply, Answer
<1>1. CASE d = c
  BY <1>1
<1>2. CASE d # c
  BY <1>2, AllowedGrows DEF RepliesAreAllowed, Others
<1> QED
  BY <1>1, <1>2

\* A key changes while calls are running on it.
LEMMA SeenKept ==
  ASSUME EtcdTypeOK, SeenIsCurrent, NEW k \in Keys, NEW e \in Entry,
         AbsEntry' = [AbsEntry EXCEPT ![k] = e], Observe(k, e),
         \A d \in Clients : call'[d].op # "none" => call[d].op # "none" /\ call'[d].key = call[d].key
  PROVE  /\ SeenIsCurrent'
         /\ seen' \in [Clients -> SUBSET Entry]
         /\ \A d \in Clients : seen[d] \subseteq seen'[d]
<1>1. /\ call \in [Clients -> Call] /\ seen \in [Clients -> SUBSET Entry]
      /\ \A d \in Clients : call[d].key \in Keys
  BY DEF EtcdTypeOK, CallsTypeOK, Call
<1>2. \A d \in Clients : seen'[d] = IF call[d].op # "none" /\ call[d].key = k THEN seen[d] \cup {e} ELSE seen[d]
  BY DEF Observe
<1>3. seen' \in [Clients -> SUBSET Entry]
  BY <1>1 DEF Observe
<1>4. \A j \in Keys : AbsEntry'[j] = IF j = k THEN e ELSE AbsEntry[j]
  BY DEF AbsEntry
<1>5. ASSUME NEW d \in Clients, call'[d].op # "none" PROVE AbsEntry'[call'[d].key] \in seen'[d]
  <2>1. call[d].op # "none" /\ call'[d].key = call[d].key
    BY <1>5
  <2>2. AbsEntry[call[d].key] \in seen[d]
    BY <2>1 DEF SeenIsCurrent
  <2>3. CASE call[d].key = k
    <3>1. AbsEntry'[k] = e /\ e \in seen'[d]
      BY <1>2, <1>4, <2>1, <2>3
    <3> QED
      BY <2>1, <2>3, <3>1
  <2>4. CASE call[d].key # k
    <3>1. AbsEntry'[call[d].key] = AbsEntry[call[d].key] /\ seen'[d] = seen[d]
      BY <1>1, <1>2, <1>4, <2>4
    <3> QED
      BY <2>1, <2>2, <3>1
  <2> QED
    BY <2>3, <2>4
<1>6. SeenIsCurrent'
  BY <1>5 DEF SeenIsCurrent
<1> QED
  BY <1>2, <1>3, <1>6

-----------------------------------------------------------------------------
(* The invariant, action by action *)

LEMMA InitInv == Init => EtcdInv
<1> SUFFICES ASSUME Init PROVE EtcdInv
  OBVIOUS
<1>1. /\ call = [c \in Clients |-> NoCall] /\ resp = [c \in Clients |-> Answer("none")]
      /\ seen = [c \in Clients |-> {}] /\ reply = [c \in Clients |-> NoReply]
      /\ late = [c \in Clients |-> NoCall] /\ lease = [c \in Clients |-> 0]
      /\ rev = 0 /\ kv = [k \in Keys |-> NoPair] /\ leases = {} /\ granted = 0
      /\ lateLease = [c \in Clients |-> 0] /\ lastReserve = 0
  BY DEF Init, CallsInit
<1>2. NoPair \in Pair /\ NoPair.create = 0
  BY DEF NoPair, Pair
<1>3. Answer("none") \in Response /\ NoReply = Answer("none") /\ NoReply.kind = "none"
  BY DEF Answer, Response, Kinds, NoReply
<1>4. EtcdTypeOK
  BY <1>1, <1>2, <1>3, NoCallIsCall DEF EtcdTypeOK, CallsTypeOK
<1>5. Present = {} /\ Armed = {} /\ Pending = {}
  BY <1>1, <1>2 DEF Present, Armed, Pending, CanUse
<1>6. PairsSound /\ KeysHaveLeases
  BY <1>1, <1>2, <1>5 DEF PairsSound, KeysHaveLeases, KeysLiveWithTheirLease
<1>7. UidsAreReservations /\ SeenIsCurrent
  BY <1>1, <1>3, NoCallIsCall DEF UidsAreReservations, Gives, Stores, SeenIsCurrent
<1>8. LeasesAreUnused
  BY <1>1, <1>5 DEF LeasesAreUnused
<1>9. RepliesAreAllowed
  BY <1>1 DEF RepliesAreAllowed
<1> QED
  BY <1>4, <1>6, <1>7, <1>8, <1>9 DEF EtcdInv

\* The parts of the type invariant, one variable at a time.
LEMMA Types ==
  ASSUME EtcdInv
  PROVE  /\ rev \in Nat /\ granted \in Nat /\ leases \subseteq 1..granted /\ lastReserve \in 0..rev
         /\ kv \in [Keys -> Pair] /\ lease \in [Clients -> 0..granted]
         /\ reply \in [Clients -> Response] /\ late \in [Clients -> Call]
         /\ lateLease \in [Clients -> 0..granted]
         /\ call \in [Clients -> Call] /\ resp \in [Clients -> Response]
         /\ seen \in [Clients -> SUBSET Entry]
         /\ AbsEntry \in [Keys -> Entry]
         /\ \A c \in Clients : call[c].op = "none" => reply[c] = NoReply /\ lease[c] = 0
<1>1. \A k \in Keys : EntryOf(kv[k]) \in Entry
  BY DEF EtcdInv, EtcdTypeOK, Pair, EntryOf, Entry
<1>2. AbsEntry \in [Keys -> Entry]
  BY <1>1 DEF AbsEntry
<1>3. \A c \in Clients : call[c].op = "none" => reply[c] = NoReply /\ lease[c] = 0
  BY DEF EtcdInv, RepliesAreAllowed, Allowed, LeasesAreUnused
<1> QED
  BY <1>2, <1>3 DEF EtcdInv, EtcdTypeOK, CallsTypeOK

\* A client enters an operation; a uid it passes is that of a reservation.
LEMMA EnterInv ==
  ASSUME EtcdInv, NEW c \in Clients, NEW op \in {"FetchOrReserve", "Fetch", "SetReserved"},
         NEW k \in Keys, NEW u \in Nat, NEW v \in Nat,
         op = "SetReserved" => v # 0 /\ u \in Reservations,
         Enter(c, op, k, u, v, AbsEntry[k]), UNCHANGED <<server, lease, reply, late, lateLease>>
  PROVE  EtcdInv'
<1> DEFINE q == [op |-> op, key |-> k, uid |-> u, val |-> v]
<1>0. /\ call[c].op = "none" /\ call' = [call EXCEPT ![c] = q]
      /\ resp' = [resp EXCEPT ![c] = Answer("none")] /\ seen' = [seen EXCEPT ![c] = {AbsEntry[k]}]
      /\ UNCHANGED <<rev, kv, leases, granted, lastReserve, lease, reply, late, lateLease>>
  BY DEF Enter, Idle, server
<1>1. q \in Call /\ q.op = op /\ q.key = k /\ q.uid = u /\ q.val = v
  BY DEF Call, Ops
<1> HIDE DEF q
<1>2. Answer("none") \in Response /\ Answer("none").kind = "none"
  BY DEF Answer, Response, Kinds
<1>3. AbsEntry[k] \in Entry /\ reply[c] = NoReply /\ lease[c] = 0
  BY <1>0, Types
<1>4. EtcdTypeOK'
  BY <1>0, <1>1, <1>2, <1>3, Types DEF EtcdTypeOK, CallsTypeOK
<1>5. /\ PairsSound' /\ KeysHaveLeases'
      /\ Reservations' = Reservations /\ Attached' = Attached /\ AbsEntry' = AbsEntry
  BY <1>0, StoreKept DEF EtcdInv
<1>6. call'[c] = q /\ resp'[c] = Answer("none") /\ seen'[c] = {AbsEntry[k]} /\ Others(c)
  BY <1>0, Types DEF Others
<1>7. UidsAreReservations'
  <2>1. Gives(resp'[c], Reservations') /\ Stores(call'[c], Reservations')
    BY <1>1, <1>2, <1>5, <1>6 DEF Gives, Stores
  <2>2. Gives(reply'[c], Reservations') /\ Stores(late'[c], Reservations')
    BY <1>0, <1>5 DEF EtcdInv, UidsAreReservations
  <2> QED
    BY <1>5, <1>6, <2>1, <2>2, UidsKept DEF EtcdInv
<1>8. LeasesAreUnused'
  <2>1. Armed' \subseteq Armed /\ Pending' = Pending
    BY <1>0, <1>3, <1>6 DEF Armed, Pending, CanUse, Others
  <2>2. \A d \in Armed' : lease'[d] = lease[d] /\ lease[d] # 0
    BY <1>0, <2>1 DEF Armed, CanUse
  <2>3. \A d \in Pending' : lateLease'[d] = lateLease[d] /\ lateLease[d] # 0
    BY <1>0, <2>1 DEF EtcdInv, LeasesAreUnused
  <2>4. \A d \in Clients : call'[d].op = "none" => lease'[d] = 0
    BY <1>0, <1>1, <1>3, <1>6, Types DEF Others
  <2> QED
    BY <1>5, <2>1, <2>2, <2>3, <2>4, LeasesKept DEF EtcdInv
<1>9. SeenIsCurrent'
  BY <1>1, <1>5, <1>6 DEF EtcdInv, SeenIsCurrent, Others
<1>10. RepliesAreAllowed'
  BY <1>0, <1>3, <1>6, RepliesKept DEF EtcdInv
<1> QED
  BY <1>4, <1>5, <1>7, <1>8, <1>9, <1>10 DEF EtcdInv

\* A lease that nobody has is granted.
LEMMA GrantInv ==
  ASSUME EtcdInv, NEW c \in Clients, Grant(c)
  PROVE  EtcdInv'
<1>0. /\ call[c].op \in {"FetchOrReserve", "SetReserved"} /\ lease[c] = 0
      /\ granted' = granted + 1 /\ leases' = leases \cup {granted + 1}
      /\ lease' = [lease EXCEPT ![c] = granted + 1]
      /\ UNCHANGED <<rev, kv, lastReserve, reply, late, lateLease, call, resp, seen>>
  BY DEF Grant, callVars
<1>1. EtcdTypeOK'
  BY <1>0, Types DEF EtcdTypeOK, CallsTypeOK
<1>2. /\ PairsSound' /\ KeysHaveLeases'
      /\ Reservations' = Reservations /\ Attached' = Attached /\ AbsEntry' = AbsEntry
  BY <1>0, StoreKept DEF EtcdInv
<1>3. UidsAreReservations' /\ SeenIsCurrent' /\ RepliesAreAllowed'
  BY <1>0, <1>2 DEF EtcdInv, UidsAreReservations, SeenIsCurrent, RepliesAreAllowed
<1>4. Armed' \subseteq Armed \cup {c} /\ Pending' = Pending /\ Armed \subseteq Clients /\ Pending \subseteq Clients
  BY <1>0, Types DEF Armed, Pending, CanUse
<1>5. granted + 1 \notin Attached /\ granted \in Nat
  BY Types DEF EtcdInv, KeysHaveLeases, KeysLiveWithTheirLease, Attached, Present
<1>6. \A d \in Clients : lease[d] # granted + 1 /\ lateLease[d] # granted + 1
  BY Types
<1>7. \A d \in Clients : lease'[d] = IF d = c THEN granted + 1 ELSE lease[d]
  BY <1>0, Types
<1>8. c \notin Armed
  BY <1>0 DEF Armed, CanUse
<1>9. LeasesAreUnused'
  <2>1. \A d \in Armed' : lease'[d] \notin Attached'
    BY <1>2, <1>4, <1>5, <1>7 DEF EtcdInv, LeasesAreUnused
  <2>2. \A d \in Pending' : lateLease'[d] # 0 /\ lateLease'[d] \notin Attached'
    BY <1>0, <1>2, <1>4 DEF EtcdInv, LeasesAreUnused
  <2>3. \A d, e \in Armed' : lease'[d] = lease'[e] => d = e
    BY <1>4, <1>6, <1>7 DEF EtcdInv, LeasesAreUnused
  <2>4. \A d, e \in Pending' : lateLease'[d] = lateLease'[e] => d = e
    BY <1>0, <1>4 DEF EtcdInv, LeasesAreUnused
  <2>5. \A d \in Armed', e \in Pending' : lease'[d] # lateLease'[e]
    BY <1>0, <1>4, <1>6, <1>7 DEF EtcdInv, LeasesAreUnused
  <2>6. \A d \in Clients : call'[d].op = "none" => lease'[d] = 0
    BY <1>0, <1>7, Types
  <2> QED
    BY <2>1, <2>2, <2>3, <2>4, <2>5, <2>6 DEF LeasesAreUnused
<1> QED
  BY <1>1, <1>2, <1>3, <1>9 DEF EtcdInv

\* A transaction that writes nothing answers with what it finds.
LEMMA ReadInv ==
  ASSUME EtcdInv, NEW c \in Clients, NEW r \in Response,
         call[c].op # "none", r = Answer("failure") \/ Allowed(call[c], seen[c], r), Gives(r, Reservations),
         reply[c] = NoReply, r # NoReply, reply' = [reply EXCEPT ![c] = r],
         UNCHANGED <<server, lease, late, lateLease, callVars>>
  PROVE  EtcdInv'
<1>0. UNCHANGED <<rev, kv, leases, granted, lastReserve, lease, late, lateLease, call, resp, seen>>
  BY DEF server, callVars
<1>1. EtcdTypeOK'
  BY <1>0, Types DEF EtcdTypeOK, CallsTypeOK
<1>2. /\ PairsSound' /\ KeysHaveLeases'
      /\ Reservations' = Reservations /\ Attached' = Attached /\ AbsEntry' = AbsEntry
  BY <1>0, StoreKept DEF EtcdInv
<1>3. reply'[c] = r /\ Others(c)
  BY <1>0, Types DEF Others
<1>4. UidsAreReservations'
  BY <1>0, <1>2, <1>3, UidsKept DEF EtcdInv, UidsAreReservations
<1>5. LeasesAreUnused'
  <2>1. Armed' \subseteq Armed /\ Pending' = Pending
    BY <1>0, <1>3 DEF Armed, Pending, CanUse, Others
  <2>2. \A d \in Armed' : lease'[d] = lease[d] /\ lease[d] # 0
    BY <1>0, <2>1 DEF Armed, CanUse
  <2>3. \A d \in Pending' : lateLease'[d] = lateLease[d] /\ lateLease[d] # 0
    BY <1>0, <2>1 DEF EtcdInv, LeasesAreUnused
  <2>4. \A d \in Clients : call'[d].op = "none" => lease'[d] = 0
    BY <1>0, Types
  <2> QED
    BY <1>2, <2>1, <2>2, <2>3, <2>4, LeasesKept DEF EtcdInv
<1>6. SeenIsCurrent'
  BY <1>0, <1>2 DEF EtcdInv, SeenIsCurrent
<1>7. RepliesAreAllowed'
  BY <1>0, <1>3, RepliesKept DEF EtcdInv
<1> QED
  BY <1>1, <1>2, <1>4, <1>5, <1>6, <1>7 DEF EtcdInv

\* A transaction writes key k under the lease l that it was granted: c is its
\* client, whose call goes on or, if the request is late, is not touched.
LEMMA PutInv ==
  ASSUME EtcdInv, NEW c \in Clients, NEW k \in Keys, NEW val \in Nat, NEW l \in leases, l \notin Attached,
         val = 0 => k \notin Present, Put(k, val, l), UNCHANGED <<leases, granted, resp, lease>>,
         lastReserve' \in {lastReserve, rev + 1},
         call' \in [Clients -> Call], reply' \in [Clients -> Response],
         late' \in [Clients -> Call], lateLease' \in [Clients -> 0..granted],
         \A d \in Clients \ {c} : /\ call'[d] = call[d] /\ reply'[d] = reply[d]
                                  /\ late'[d] = late[d] /\ lateLease'[d] = lateLease[d],
         call'[c].key = call[c].key, call'[c].op = "none" <=> call[c].op = "none",
         Gives(reply'[c], Reservations'), Stores(call'[c], Reservations'), Stores(late'[c], Reservations'),
         Armed' \subseteq Armed, \A d \in Armed' : lease[d] # l,
         Pending' \subseteq Pending, \A d \in Pending' : lateLease'[d] = lateLease[d] /\ lateLease[d] # l,
         (UNCHANGED <<call, reply>>) \/ Allowed(call'[c], {}, reply'[c])
  PROVE  EtcdInv'
<1>0. /\ rev' = rev + 1 /\ kv' \in [Keys -> Pair] /\ PairsSound' /\ KeysHaveLeases'
      /\ AbsEntry' = [AbsEntry EXCEPT ![k] = [uid |-> IF k \in Present THEN kv[k].create ELSE rev + 1,
                                              val |-> val]]
      /\ Reservations \subseteq Reservations' /\ Attached' \subseteq Attached \cup {l}
  BY PutStep DEF EtcdInv
<1> DEFINE e == [uid |-> IF k \in Present THEN kv[k].create ELSE rev + 1, val |-> val]
<1>1. e \in Entry
  BY Types DEF Entry, Pair
<1>2. AbsEntry' = [AbsEntry EXCEPT ![k] = e]
  BY <1>0
<1> HIDE DEF e
<1>3. Observe(k, e)
  <2>1. AbsEntry'[k] = e
    BY <1>2, Types
  <2>2. AbsEntry'[k] = EntryOf(kv'[k])
    BY DEF AbsEntry
  <2> QED
    BY <2>1, <2>2 DEF Put
<1>4. \A d \in Clients : call'[d].op # "none" => call[d].op # "none" /\ call'[d].key = call[d].key
  OBVIOUS
<1>5. SeenIsCurrent' /\ seen' \in [Clients -> SUBSET Entry] /\ \A d \in Clients : seen[d] \subseteq seen'[d]
  BY <1>1, <1>2, <1>3, <1>4, SeenKept DEF EtcdInv
<1>6. EtcdTypeOK'
  BY <1>0, <1>5, Types DEF EtcdTypeOK, CallsTypeOK
<1>7. Others(c)
  BY <1>5 DEF Others
<1>8. UidsAreReservations'
  <2>1. Gives(resp'[c], Reservations')
    BY <1>0, GivesGrows DEF EtcdInv, UidsAreReservations
  <2> QED
    BY <1>0, <1>7, <2>1, UidsKept DEF EtcdInv
<1>9. LeasesAreUnused'
  <2>1. \A d \in Clients : call'[d].op = "none" => lease'[d] = 0
    BY Types
  <2> QED
    BY <1>0, <2>1, LeasesKept DEF EtcdInv
<1>10. RepliesAreAllowed'
  <2>1. CASE UNCHANGED <<call, reply>>
    BY <1>5, <1>7, <2>1, AllowedGrows, RepliesKept DEF EtcdInv, RepliesAreAllowed
  <2>2. CASE Allowed(call'[c], {}, reply'[c])
    <3>1. Allowed(call'[c], seen'[c], reply'[c])
      BY <2>2, AllowedGrows
    <3> QED
      BY <1>7, <3>1, RepliesKept DEF EtcdInv
  <2> QED
    BY <2>1, <2>2
<1> QED
  BY <1>0, <1>5, <1>6, <1>8, <1>9, <1>10 DEF EtcdInv

\* A uid that matches is that of the reservation: its entry is still reserved.
LEMMA MatchIsReserved ==
  ASSUME EtcdInv, NEW q \in Call, Stores(q, Reservations), q.op = "SetReserved", UidMatches(q)
  PROVE  /\ q.key \in Present /\ q.uid # 0 /\ q.val # 0 /\ q.val \in Nat /\ q.key \in Keys
         /\ kv[q.key].create = q.uid /\ AbsEntry[q.key] = [uid |-> q.uid, val |-> 0]
<1>1. q.key \in Keys /\ q.val \in Nat /\ q.val # 0 /\ q.uid \in Reservations
  BY DEF Call, Stores
<1>2. kv[q.key].mod = q.uid /\ kv[q.key].val = 0 /\ q.uid # 0
  BY <1>1 DEF UidMatches, Reservations
<1>3. q.key \in Present
  BY <1>1, <1>2 DEF EtcdInv, PairsSound, NoPair
<1>4. kv[q.key].create = q.uid
  BY <1>2, <1>3 DEF EtcdInv, PairsSound
<1> QED
  BY <1>1, <1>2, <1>3, <1>4 DEF AbsEntry, EntryOf

\* A call about to write has its lease to itself.
LEMMA ArmedLease ==
  ASSUME EtcdInv, NEW c \in Armed
  PROVE  /\ lease[c] \notin Attached
         /\ \A d \in Armed : d # c => lease[d] # lease[c]
         /\ \A d \in Pending : lateLease[d] # lease[c] /\ lateLease[d] # 0
  BY DEF EtcdInv, LeasesAreUnused

LEMMA ReserveInv ==
  ASSUME EtcdInv, NEW c \in Clients, ReserveTxn(c)
  PROVE  EtcdInv'
<1> DEFINE k == call[c].key
<1>0. /\ call[c].op = "FetchOrReserve" /\ lease[c] # 0 /\ reply[c] = NoReply
      /\ UNCHANGED <<leases, granted, lease, late, lateLease, resp>>
  BY DEF ReserveTxn
<1>1. k \in Keys /\ AbsEntry[k] \in seen[c] /\ AbsEntry[k] = EntryOf(kv[k]) /\ kv[k] \in Pair
  BY <1>0, Types DEF EtcdInv, SeenIsCurrent, Call, AbsEntry
<1>2. NoReply = Answer("none") /\ NoReply.kind = "none"
  BY DEF NoReply, Answer
<1>3. CASE /\ kv[k].create = 0 /\ lease[c] \in leases /\ Put(k, 0, lease[c]) /\ lastReserve' = rev + 1
           /\ call' = [call EXCEPT ![c] = [op |-> "reserved", key |-> @.key, uid |-> rev + 1, val |-> 0]]
           /\ reply' = [reply EXCEPT ![c] = EntryAnswer(rev + 1, 0)]
  <2> DEFINE q == [op |-> "reserved", key |-> k, uid |-> rev + 1, val |-> 0]
  <2>1. c \in Armed /\ k \notin Present
    BY <1>0, <1>3 DEF Armed, CanUse, Present
  <2>2. q \in Call /\ q.op = "reserved" /\ q.key = k /\ q.uid = rev + 1
    BY <1>1, Types DEF Call, Ops
  <2>3. EntryAnswer(rev + 1, 0) \in Response /\ EntryAnswer(rev + 1, 0).uid = rev + 1
        /\ EntryAnswer(rev + 1, 0) # NoReply
    BY <1>2, Types DEF EntryAnswer, Response, Kinds
  <2>4. call'[c] = q /\ \A d \in Clients \ {c} : call'[d] = call[d]
    BY <1>3, Types
  <2>5. call' \in [Clients -> Call]
    BY <1>3, <2>2, Types
  <2> HIDE DEF q, k
  <2>6. /\ reply'[c] = EntryAnswer(rev + 1, 0) /\ reply' \in [Clients -> Response]
        /\ \A d \in Clients \ {c} : reply'[d] = reply[d]
    BY <1>3, <2>3, Types
  <2>7. rev + 1 \in Reservations' /\ Reservations \subseteq Reservations'
    BY <1>0, <1>1, <1>3, <2>1, ArmedLease, PutStep DEF EtcdInv
  <2>8. Gives(reply'[c], Reservations') /\ Stores(call'[c], Reservations') /\ Stores(late'[c], Reservations')
    <3>1. Stores(late[c], Reservations')
      BY <2>7, StoresGrows DEF EtcdInv, UidsAreReservations
    <3> QED
      BY <1>0, <2>2, <2>3, <2>4, <2>6, <2>7, <3>1 DEF Gives, Stores
  <2>9. Armed' \subseteq Armed \ {c} /\ Pending' = Pending
    BY <1>0, <2>2, <2>4, <2>6 DEF Armed, Pending, CanUse
  <2>10. /\ lease[c] \notin Attached
         /\ \A d \in Armed' : lease[d] # lease[c]
         /\ \A d \in Pending' : lateLease'[d] = lateLease[d] /\ lateLease[d] # lease[c]
    BY <1>0, <2>1, <2>9, ArmedLease
  <2>11. Allowed(call'[c], {}, reply'[c])
    BY <2>2, <2>4, <2>6 DEF Allowed
  <2>12. call'[c].key = call[c].key /\ (call'[c].op = "none" <=> call[c].op = "none")
    BY <1>0, <2>2, <2>4 DEF k
  <2>13. late' \in [Clients -> Call] /\ lateLease' \in [Clients -> 0..granted]
    BY <1>0, Types
  <2>14. \A d \in Clients \ {c} : /\ call'[d] = call[d] /\ reply'[d] = reply[d]
                                  /\ late'[d] = late[d] /\ lateLease'[d] = lateLease[d]
    BY <1>0, <2>4, <2>6
  <2>15. UNCHANGED <<leases, granted, resp, lease>> /\ lastReserve' \in {lastReserve, rev + 1}
    BY <1>0, <1>3
  <2>16. Armed' \subseteq Armed /\ Pending' \subseteq Pending
    BY <2>9
  <2>17. k \in Keys /\ 0 \in Nat /\ lease[c] \in leases /\ Put(k, 0, lease[c]) /\ (0 = 0 => k \notin Present)
    BY <1>1, <1>3, <2>1
  <2> QED
    BY <2>5, <2>6, <2>8, <2>10, <2>11, <2>12, <2>13, <2>14, <2>15, <2>16, <2>17, PutInv
<1>4. ASSUME NEW r \in Response, r # NoReply, Gives(r, Reservations),
             r = Answer("failure") \/ Allowed(call[c], seen[c], r),
             reply' = [reply EXCEPT ![c] = r], UNCHANGED <<rev, kv, lastReserve, call, seen>>
      PROVE  EtcdInv'
  BY <1>0, <1>4, ReadInv DEF server, callVars
<1>5. CASE /\ reply' = [reply EXCEPT ![c] = Answer("failure")]
           /\ UNCHANGED <<rev, kv, lastReserve, call, seen>>
  <2>1. Answer("failure") \in Response /\ Answer("failure") # NoReply /\ Gives(Answer("failure"), Reservations)
    BY <1>2 DEF Answer, Response, Kinds, Gives
  <2> QED
    BY <1>4, <1>5, <2>1
<1>6. CASE /\ kv[k].create # 0
           /\ reply' = [reply EXCEPT ![c] = IF kv[k].val = 0 THEN Answer("ErrAlreadyReserved")
                                            ELSE EntryAnswer(kv[k].create, kv[k].val)]
           /\ UNCHANGED <<rev, kv, lastReserve, call, seen>>
  <2>1. CASE kv[k].val = 0
    <3> DEFINE r == Answer("ErrAlreadyReserved")
    <3>1. r \in Response /\ r # NoReply /\ Gives(r, Reservations)
      BY <1>2 DEF Answer, Response, Kinds, Gives
    <3>2. Allowed(call[c], seen[c], r)
      BY <1>0, <1>1, <1>6, <2>1 DEF Allowed, IsReserved, EntryOf
    <3> QED
      BY <1>4, <1>6, <2>1, <3>1, <3>2
  <2>2. CASE kv[k].val # 0
    <3> DEFINE r == EntryAnswer(kv[k].create, kv[k].val)
    <3>1. r \in Response /\ r # NoReply /\ Gives(r, Reservations) /\ r.kind = "entry" /\ r.val = kv[k].val
      BY <1>1, <1>2, <2>2 DEF EntryAnswer, Response, Kinds, Gives, Pair
    <3>2. Allowed(call[c], seen[c], r)
      BY <1>0, <1>1, <2>2, <3>1 DEF Allowed, IsInitialized, EntryOf
    <3> QED
      BY <1>4, <1>6, <2>2, <3>1, <3>2
  <2> QED
    BY <2>1, <2>2
<1> QED
  BY <1>3, <1>5, <1>6 DEF ReserveTxn

LEMMA GetInv ==
  ASSUME EtcdInv, NEW c \in Clients, GetTxn(c)
  PROVE  EtcdInv'
<1> DEFINE k == call[c].key
           r == IF kv[k].create = 0 THEN Answer("absent") ELSE EntryAnswer(kv[k].mod, kv[k].val)
<1>0. /\ call[c].op = "Fetch" /\ reply[c] = NoReply /\ reply' = [reply EXCEPT ![c] = r]
      /\ UNCHANGED <<server, lease, late, lateLease, callVars>>
  BY DEF GetTxn
<1>1. k \in Keys /\ AbsEntry[k] \in seen[c] /\ AbsEntry[k] = EntryOf(kv[k]) /\ kv[k] \in Pair
  BY <1>0, Types DEF EtcdInv, SeenIsCurrent, Call, AbsEntry
<1>2. NoReply = Answer("none") /\ NoReply.kind = "none"
  BY DEF NoReply, Answer
<1>3. r \in Response /\ r # NoReply
  BY <1>1, <1>2 DEF Answer, EntryAnswer, Response, Kinds, Pair
<1>4. CASE k \notin Present
  <2>1. kv[k] = NoPair /\ kv[k].create = 0
    BY <1>1, <1>4 DEF EtcdInv, PairsSound, Present
  <2>2. r = Answer("absent") /\ AbsEntry[k] = Invalid
    BY <1>1, <2>1 DEF EntryOf, NoPair, Invalid
  <2>3. Allowed(call[c], seen[c], r)
    BY <1>0, <1>1, <2>2 DEF Allowed
  <2>4. Gives(r, Reservations)
    BY <2>2 DEF Gives, Answer
  <2> QED
    BY <1>0, <1>3, <2>3, <2>4, ReadInv
<1>5. CASE k \in Present
  <2>1. kv[k].create # 0 /\ kv[k].mod \in 1..rev /\ (kv[k].val = 0 => kv[k].mod = kv[k].create)
    BY <1>5 DEF EtcdInv, PairsSound, Present
  <2>2. r.kind = "entry" /\ r.uid = kv[k].mod /\ r.val = kv[k].val
    BY <2>1 DEF EntryAnswer
  <2> HIDE DEF r
  <2>3. AbsEntry[k].uid = kv[k].create /\ AbsEntry[k].val = kv[k].val
    BY <1>1 DEF EntryOf
  <2>4. AbsEntry[k] # Invalid
    BY <2>1, <2>3 DEF Invalid
  <2>5. Allowed(call[c], seen[c], r)
    BY <1>0, <1>1, <2>1, <2>2, <2>3, <2>4 DEF Allowed, IsReserved
  <2>6. \A j \in Keys : kv[j].mod = kv[k].mod => j = k
    BY <1>5, <2>1 DEF EtcdInv, PairsSound, NoPair
  <2>7. Gives(r, Reservations)
    BY <2>1, <2>2, <2>6 DEF Gives, Reservations
  <2> QED
    BY <1>0, <1>3, <2>5, <2>7, ReadInv
<1> QED
  BY <1>4, <1>5

LEMMA StoreInv ==
  ASSUME EtcdInv, NEW c \in Clients, StoreTxn(c)
  PROVE  EtcdInv'
<1> DEFINE k == call[c].key
<1>0. /\ call[c].op = "SetReserved" /\ lease[c] # 0 /\ reply[c] = NoReply
      /\ UNCHANGED <<leases, granted, lastReserve, lease, late, lateLease, resp>>
  BY DEF StoreTxn
<1>1. /\ k \in Keys /\ AbsEntry[k] \in seen[c] /\ AbsEntry[k] = EntryOf(kv[k]) /\ kv[k] \in Pair
      /\ call[c] \in Call /\ Stores(call[c], Reservations)
  BY <1>0, Types DEF EtcdInv, SeenIsCurrent, Call, AbsEntry, UidsAreReservations
<1>2. NoReply = Answer("none") /\ NoReply.kind = "none"
  BY DEF NoReply, Answer
<1>3. CASE /\ UidMatches(call[c]) /\ lease[c] \in leases /\ Put(k, call[c].val, lease[c])
           /\ call' = [call EXCEPT ![c].op = "stored"]
           /\ reply' = [reply EXCEPT ![c] = Answer("ok")]
  <2> DEFINE q == [call[c] EXCEPT !.op = "stored"]
  <2>1. c \in Armed /\ call[c].val \in Nat /\ call[c].val # 0
    BY <1>0, <1>1, <1>3, MatchIsReserved DEF Armed, CanUse
  <2>2. q \in Call /\ q.op = "stored" /\ q.key = k
    BY <1>1 DEF Call, Ops
  <2>3. Answer("ok") \in Response /\ Answer("ok").kind = "ok" /\ Answer("ok") # NoReply
    BY <1>2 DEF Answer, Response, Kinds
  <2>4. call'[c] = q /\ \A d \in Clients \ {c} : call'[d] = call[d]
    BY <1>3, Types
  <2>5. call' \in [Clients -> Call]
    BY <1>3, <2>2, Types
  <2> HIDE DEF q, k
  <2>6. /\ reply'[c] = Answer("ok") /\ reply' \in [Clients -> Response]
        /\ \A d \in Clients \ {c} : reply'[d] = reply[d]
    BY <1>3, <2>3, Types
  <2>7. Reservations \subseteq Reservations'
    BY <1>0, <1>1, <1>3, <2>1, ArmedLease, PutStep DEF EtcdInv
  <2>8. Gives(reply'[c], Reservations') /\ Stores(call'[c], Reservations') /\ Stores(late'[c], Reservations')
    <3>1. Stores(late[c], Reservations')
      BY <2>7, StoresGrows DEF EtcdInv, UidsAreReservations
    <3> QED
      BY <1>0, <2>2, <2>3, <2>4, <2>6, <3>1 DEF Gives, Stores
  <2>9. Armed' \subseteq Armed \ {c} /\ Pending' = Pending
    BY <1>0, <2>2, <2>4, <2>6 DEF Armed, Pending, CanUse
  <2>10. /\ lease[c] \notin Attached
         /\ \A d \in Armed' : lease[d] # lease[c]
         /\ \A d \in Pending' : lateLease'[d] = lateLease[d] /\ lateLease[d] # lease[c]
    BY <1>0, <2>1, <2>9, ArmedLease
  <2>11. Allowed(call'[c], {}, reply'[c])
    BY <2>2, <2>4, <2>6 DEF Allowed
  <2>12. call'[c].key = call[c].key /\ (call'[c].op = "none" <=> call[c].op = "none")
    BY <1>0, <2>2, <2>4 DEF k
  <2>13. late' \in [Clients -> Call] /\ lateLease' \in [Clients -> 0..granted]
    BY <1>0, Types
  <2>14. \A d \in Clients \ {c} : /\ call'[d] = call[d] /\ reply'[d] = reply[d]
                                  /\ late'[d] = late[d] /\ lateLease'[d] = lateLease[d]
    BY <1>0, <2>4, <2>6
  <2>15. UNCHANGED <<leases, granted, resp, lease>> /\ lastReserve' \in {lastReserve, rev + 1}
    BY <1>0
  <2>16. Armed' \subseteq Armed /\ Pending' \subseteq Pending
    BY <2>9
  <2> QED
    BY <1>1, <1>3, <2>1, <2>5, <2>6, <2>8, <2>10, <2>11, <2>12, <2>13, <2>14, <2>15, <2>16, PutInv
<1>4. ASSUME NEW kind \in Kinds, kind # "none", kind # "entry",
             kind = "failure" \/ Allowed(call[c], seen[c], Answer(kind)),
             reply' = [reply EXCEPT ![c] = Answer(kind)], UNCHANGED <<rev, kv, call, seen>>
      PROVE  EtcdInv'
  <2>1. Answer(kind) \in Response /\ Answer(kind) # NoReply /\ Gives(Answer(kind), Reservations)
    BY <1>2, <1>4 DEF Answer, Response, Gives
  <2> QED
    BY <1>0, <1>4, <2>1, ReadInv DEF server, callVars
<1>5. CASE /\ reply' = [reply EXCEPT ![c] = Answer("failure")]
           /\ UNCHANGED <<rev, kv, call, seen>>
  BY <1>4, <1>5 DEF Kinds
<1>6. CASE /\ ~UidMatches(call[c])
           /\ reply' = [reply EXCEPT ![c] = Answer(IF kv[k].create = 0 THEN "ErrInvalidKey"
                                                   ELSE "ErrUidMismatch")]
           /\ UNCHANGED <<rev, kv, call, seen>>
  <2>1. CASE kv[k].create = 0
    <3>1. Allowed(call[c], seen[c], Answer("ErrInvalidKey"))
      BY <1>0 DEF Allowed
    <3> QED
      BY <1>4, <1>6, <2>1, <3>1 DEF Kinds
  <2>2. CASE kv[k].create # 0
    <3>1. AbsEntry[k].uid = kv[k].create /\ AbsEntry[k].val = kv[k].val
      BY <1>1 DEF EntryOf
    <3>2. AbsEntry[k] # Invalid
      BY <2>2, <3>1 DEF Invalid
    <3>3. kv[k].mod # call[c].uid
      BY <1>6 DEF UidMatches
    <3>4. AbsEntry[k] # [uid |-> call[c].uid, val |-> 0]
      BY <1>1, <2>2, <3>1, <3>3 DEF EtcdInv, PairsSound, Present
    <3>5. Allowed(call[c], seen[c], Answer("ErrUidMismatch"))
      BY <1>0, <1>1, <3>2, <3>4 DEF Allowed
    <3> QED
      BY <1>4, <1>6, <2>2, <3>5 DEF Kinds
  <2> QED
    BY <2>1, <2>2
<1> QED
  BY <1>3, <1>5, <1>6 DEF StoreTxn

\* A call ends; its request may still be on its way.
LEMMA FinishInv ==
  ASSUME EtcdInv, NEW c \in Clients, NEW r \in Response, Gives(r, Reservations), Finish(c, r),
         UNCHANGED server,
         \/ UNCHANGED <<late, lateLease>>
         \/ /\ c \in Armed /\ c \notin Pending
            /\ late' = [late EXCEPT ![c] = call[c]]
            /\ lateLease' = [lateLease EXCEPT ![c] = lease[c]]
  PROVE  EtcdInv'
<1>0. /\ call[c].op # "none" /\ call' = [call EXCEPT ![c] = NoCall] /\ resp' = [resp EXCEPT ![c] = r]
      /\ seen' = [seen EXCEPT ![c] = {}] /\ lease' = [lease EXCEPT ![c] = 0]
      /\ reply' = [reply EXCEPT ![c] = NoReply] /\ UNCHANGED <<rev, kv, leases, granted, lastReserve>>
  BY DEF Finish, Leave, Idle, server
<1>1. NoReply \in Response /\ NoReply.kind = "none"
  BY DEF NoReply, Answer, Response, Kinds
<1>2. late' \in [Clients -> Call] /\ lateLease' \in [Clients -> 0..granted]
  BY Types
<1>3. EtcdTypeOK'
  <2>1. call' \in [Clients -> Call] /\ resp' \in [Clients -> Response] /\ seen' \in [Clients -> SUBSET Entry]
    BY <1>0, NoCallIsCall, Types
  <2>2. lease' \in [Clients -> 0..granted] /\ reply' \in [Clients -> Response]
    BY <1>0, <1>1, Types
  <2> QED
    BY <1>0, <1>2, <2>1, <2>2, Types DEF EtcdTypeOK, CallsTypeOK
<1>4. /\ PairsSound' /\ KeysHaveLeases'
      /\ Reservations' = Reservations /\ Attached' = Attached /\ AbsEntry' = AbsEntry
  BY <1>0, StoreKept DEF EtcdInv
<1>5. /\ call'[c] = NoCall /\ resp'[c] = r /\ reply'[c] = NoReply /\ lease'[c] = 0
  BY <1>0, Types
<1>6. Others(c)
  <2>1. \A d \in Clients \ {c} : late'[d] = late[d] /\ lateLease'[d] = lateLease[d]
    BY Types
  <2> QED
    BY <1>0, <2>1, Types DEF Others
<1>7. UidsAreReservations'
  <2>1. Stores(late'[c], Reservations)
    BY Types DEF EtcdInv, UidsAreReservations
  <2>2. Gives(reply'[c], Reservations) /\ Stores(call'[c], Reservations)
    BY <1>1, <1>5, NoCallIsCall DEF Gives, Stores
  <2> QED
    BY <1>4, <1>5, <1>6, <2>1, <2>2, UidsKept DEF EtcdInv
<1>8. SeenIsCurrent'
  BY <1>4, <1>5, <1>6, NoCallIsCall DEF EtcdInv, SeenIsCurrent, Others
<1>9. RepliesAreAllowed'
  BY <1>5, <1>6, RepliesKept DEF EtcdInv
<1>10. Armed' \subseteq Armed \ {c}
  BY <1>5, <1>6 DEF Armed, CanUse, Others
<1>11. \A d \in Armed' : lease'[d] = lease[d] /\ lease[d] # 0
  BY <1>6, <1>10 DEF Armed, CanUse, Others
<1>12. \A d \in Clients : call'[d].op = "none" => lease'[d] = 0
  BY <1>5, <1>6, Types DEF Others
<1>13. \A d \in Pending : lateLease[d] # 0
  BY DEF EtcdInv, LeasesAreUnused
<1>14. CASE UNCHANGED <<late, lateLease>>
  <2>1. Pending' = Pending
    BY <1>14 DEF Pending
  <2>2. LeasesAreUnused'
    BY <1>4, <1>10, <1>11, <1>12, <1>13, <1>14, <2>1, LeasesKept DEF EtcdInv
  <2> QED
    BY <1>3, <1>4, <1>7, <1>8, <1>9, <2>2 DEF EtcdInv
<1>15. CASE /\ c \in Armed /\ c \notin Pending
            /\ late' = [late EXCEPT ![c] = call[c]]
            /\ lateLease' = [lateLease EXCEPT ![c] = lease[c]]
  <2>1. Pending' \subseteq Pending \cup {c} /\ lateLease'[c] = lease[c] /\ lease[c] # 0
    BY <1>6, <1>15, Types DEF Pending, Others, Armed, CanUse
  <2>2. \A d \in Pending : d # c /\ d \in Clients /\ lateLease'[d] = lateLease[d]
    BY <1>6, <1>15 DEF Pending, Others
  <2>3. LeasesAreUnused
    BY DEF EtcdInv
  <2>4. LeasesAreUnused'
    <3>1. \A d \in Armed' : lease'[d] \notin Attached'
      BY <1>4, <1>10, <1>11, <2>3 DEF LeasesAreUnused
    <3>2. \A d \in Pending' : lateLease'[d] # 0 /\ lateLease'[d] \notin Attached'
      BY <1>4, <1>15, <2>1, <2>2, <2>3 DEF LeasesAreUnused
    <3>3. \A d, e \in Armed' : lease'[d] = lease'[e] => d = e
      BY <1>10, <1>11, <2>3 DEF LeasesAreUnused
    <3>4. \A d, e \in Pending' : lateLease'[d] = lateLease'[e] => d = e
      BY <1>15, <2>1, <2>2, <2>3 DEF LeasesAreUnused
    <3>5. \A d \in Armed', e \in Pending' : lease'[d] # lateLease'[e]
      BY <1>10, <1>11, <1>15, <2>1, <2>2, <2>3 DEF LeasesAreUnused
    <3> QED
      BY <1>12, <3>1, <3>2, <3>3, <3>4, <3>5 DEF LeasesAreUnused
  <2> QED
    BY <1>3, <1>4, <1>7, <1>8, <1>9, <2>4 DEF EtcdInv
<1> QED
  BY <1>14, <1>15

\* A late request takes effect, or is dropped.
LEMMA LateInv ==
  ASSUME EtcdInv, NEW c \in Clients, LateTxn(c)
  PROVE  EtcdInv'
<1> DEFINE q == late[c]
           l == lateLease[c]
<1>0. /\ q # NoCall /\ late' = [late EXCEPT ![c] = NoCall] /\ lateLease' = [lateLease EXCEPT ![c] = 0]
      /\ UNCHANGED <<leases, granted, lease, reply, call, resp>>
  BY DEF LateTxn
<1>1. /\ q \in Call /\ q.key \in Keys /\ q.val \in Nat /\ Stores(q, Reservations)
      /\ Gives(reply[c], Reservations) /\ Stores(call[c], Reservations)
  BY Types DEF EtcdInv, Call, UidsAreReservations
<1>2. c \in Pending
  BY <1>0 DEF Pending
<1>3. late' \in [Clients -> Call] /\ lateLease' \in [Clients -> 0..granted]
  BY <1>0, NoCallIsCall, Types
<1>4. late'[c] = NoCall /\ \A d \in Clients \ {c} : late'[d] = late[d] /\ lateLease'[d] = lateLease[d]
  BY <1>0, Types
<1>5. Armed' = Armed /\ Pending' \subseteq Pending \ {c} /\ Pending \subseteq Clients
  BY <1>0, <1>4 DEF Armed, Pending
<1>6. /\ l \notin Attached /\ \A d \in Armed' : lease[d] # l /\ lease[d] # 0
      /\ \A d \in Pending' : lateLease'[d] = lateLease[d] /\ lateLease[d] # l /\ lateLease[d] # 0
  <2>1. \A d \in Armed : lease[d] # 0
    BY DEF Armed, CanUse
  <2> QED
    BY <1>2, <1>4, <1>5, <2>1 DEF EtcdInv, LeasesAreUnused
<1>7. Stores(late'[c], Reservations')
  BY <1>4, NoCallIsCall DEF Stores
<1> HIDE DEF q, l
<1>8. ASSUME NEW val \in Nat, val = 0 => q.key \notin Present, l \in leases, Put(q.key, val, l),
             lastReserve' \in {lastReserve, rev + 1}
      PROVE  EtcdInv'
  <2>1. Reservations \subseteq Reservations'
    BY <1>0, <1>1, <1>6, <1>8, PutStep DEF EtcdInv
  <2>2. Gives(reply'[c], Reservations') /\ Stores(call'[c], Reservations')
    BY <1>0, <1>1, <2>1, GivesGrows, StoresGrows
  <2>3. \A d \in Clients \ {c} : /\ call'[d] = call[d] /\ reply'[d] = reply[d]
                                 /\ late'[d] = late[d] /\ lateLease'[d] = lateLease[d]
    BY <1>0, <1>4
  <2>4. call' \in [Clients -> Call] /\ reply' \in [Clients -> Response]
    BY <1>0, Types
  <2>5. UNCHANGED <<leases, granted, resp, lease>> /\ UNCHANGED <<call, reply>>
    BY <1>0
  <2>6. Armed' \subseteq Armed /\ Pending' \subseteq Pending
    BY <1>5
  <2>7. call'[c].key = call[c].key /\ (call'[c].op = "none" <=> call[c].op = "none")
    BY <1>0
  <2> QED
    BY <1>1, <1>3, <1>6, <1>7, <1>8, <2>2, <2>3, <2>4, <2>5, <2>6, <2>7, PutInv
<1>9. CASE /\ q.op = "FetchOrReserve" /\ kv[q.key].create = 0 /\ l \in leases /\ Put(q.key, 0, l)
           /\ lastReserve' = rev + 1
  BY <1>8, <1>9 DEF Present
<1>10. CASE /\ q.op = "SetReserved" /\ UidMatches(q) /\ l \in leases /\ Put(q.key, q.val, l)
            /\ UNCHANGED lastReserve
  <2>1. q.val # 0
    BY <1>1, <1>10, MatchIsReserved
  <2> QED
    BY <1>1, <1>8, <1>10, <2>1
<1>11. CASE UNCHANGED <<rev, kv, lastReserve, seen>>
  <2>1. /\ PairsSound' /\ KeysHaveLeases'
        /\ Reservations' = Reservations /\ Attached' = Attached /\ AbsEntry' = AbsEntry
    BY <1>0, <1>11, StoreKept DEF EtcdInv
  <2>2. EtcdTypeOK'
    BY <1>0, <1>3, <1>11, Types DEF EtcdTypeOK, CallsTypeOK
  <2>3. Others(c)
    BY <1>0, <1>4, <1>11 DEF Others
  <2>4. UidsAreReservations'
    BY <1>0, <1>7, <2>1, <2>3, UidsKept DEF EtcdInv, UidsAreReservations
  <2>5. LeasesAreUnused'
    <3>1. \A d \in Clients : call'[d].op = "none" => lease'[d] = 0
      BY <1>0, Types
    <3> QED
      BY <1>0, <1>5, <1>6, <2>1, <3>1, LeasesKept DEF EtcdInv
  <2>6. SeenIsCurrent' /\ RepliesAreAllowed'
    BY <1>0, <1>11, <2>1 DEF EtcdInv, SeenIsCurrent, RepliesAreAllowed
  <2> QED
    BY <2>1, <2>2, <2>4, <2>5, <2>6 DEF EtcdInv
<1> QED
  BY <1>9, <1>10, <1>11 DEF LateTxn, q, l

LEMMA ExpireInv ==
  ASSUME EtcdInv, NEW l \in leases, LeaseExpire(l)
  PROVE  EtcdInv'
<1>0. /\ leases' = leases \ {l}
      /\ UNCHANGED <<granted, lastReserve, lease, reply, late, lateLease, call, resp>>
  BY DEF LeaseExpire
<1>1. /\ rev' \in Nat /\ rev <= rev' /\ kv' \in [Keys -> Pair] /\ PairsSound' /\ KeysHaveLeases'
      /\ Reservations \subseteq Reservations' /\ Attached' \subseteq Attached
      /\ \/ AbsEntry' = AbsEntry /\ UNCHANGED seen
         \/ \E k \in Present : /\ AbsEntry' = [AbsEntry EXCEPT ![k] = Invalid]
                               /\ Observe(k, Invalid)
  BY ExpireStep DEF EtcdInv
<1>2. /\ SeenIsCurrent' /\ seen' \in [Clients -> SUBSET Entry]
      /\ \A d \in Clients : seen[d] \subseteq seen'[d]
  <2>1. CASE AbsEntry' = AbsEntry /\ UNCHANGED seen
    BY <1>0, <2>1, Types DEF EtcdInv, SeenIsCurrent
  <2>2. CASE \E k \in Present : /\ AbsEntry' = [AbsEntry EXCEPT ![k] = Invalid]
                                /\ Observe(k, Invalid)
    <3>1. PICK k \in Keys : AbsEntry' = [AbsEntry EXCEPT ![k] = Invalid] /\ Observe(k, Invalid)
      BY <2>2 DEF Present
    <3>2. Invalid \in Entry
      BY DEF Invalid, Entry
    <3> QED
      BY <1>0, <3>1, <3>2, SeenKept DEF EtcdInv
  <2> QED
    BY <1>1, <2>1, <2>2
<1>3. EtcdTypeOK'
  <2>1. lastReserve' \in 0..rev' /\ leases' \subseteq 1..granted'
    BY <1>0, <1>1, Types
  <2> QED
    BY <1>0, <1>1, <1>2, <2>1, Types DEF EtcdTypeOK, CallsTypeOK
<1>4. UidsAreReservations'
  BY <1>0, <1>1, GivesGrows, StoresGrows DEF EtcdInv, UidsAreReservations
<1>5. LeasesAreUnused'
  <2>1. Armed' = Armed /\ Pending' = Pending
    BY <1>0 DEF Armed, Pending
  <2> QED
    BY <1>0, <1>1, <2>1 DEF EtcdInv, LeasesAreUnused
<1>6. RepliesAreAllowed'
  BY <1>0, <1>2, AllowedGrows DEF EtcdInv, RepliesAreAllowed
<1> QED
  BY <1>1, <1>2, <1>3, <1>4, <1>5, <1>6 DEF EtcdInv

LEMMA StepInv ==
  ASSUME ~ReuseUids, EtcdInv, [Next]_etcdVars
  PROVE  EtcdInv'
<1>1. ASSUME NEW c \in Clients, ClientCalls(c) PROVE EtcdInv'
  <2>1. ASSUME NEW k \in Keys, Fetch(c, k) PROVE EtcdInv'
    BY <2>1, EnterInv DEF Fetch
  <2>2. ASSUME NEW k \in Keys, FetchOrReserve(c, k) PROVE EtcdInv'
    BY <2>2, EnterInv DEF FetchOrReserve
  <2>3. ASSUME resp[c].kind = "entry", resp[c].val = 0, NEW k \in Keys, NEW v \in Vals,
               SetReserved(c, k, resp[c].uid, v)
        PROVE  EtcdInv'
    <3>1. resp[c].uid \in Reservations /\ resp[c].uid \in Nat /\ v \in Nat /\ v # 0
      BY <2>3, EtcdAssumption, Types DEF EtcdInv, UidsAreReservations, Gives, Response
    <3> QED
      BY <2>3, <3>1, EnterInv DEF SetReserved
  <2> QED
    BY <1>1, <2>1, <2>2, <2>3 DEF ClientCalls
<1>2. ASSUME NEW c \in Clients, Return(c) PROVE EtcdInv'
  <2>1. reply[c] \in Response /\ Gives(reply[c], Reservations)
    BY Types DEF EtcdInv, UidsAreReservations
  <2> QED
    BY <1>2, <2>1, FinishInv DEF Return
<1>3. Answer("failure") \in Response /\ Gives(Answer("failure"), Reservations)
  BY DEF Answer, Response, Kinds, Gives
<1>4. ASSUME NEW c \in Clients, Fail(c) PROVE EtcdInv'
  BY <1>3, <1>4, FinishInv DEF Fail
<1>5. ASSUME NEW c \in Clients, FailLate(c) PROVE EtcdInv'
  <2>1. c \in Armed /\ c \notin Pending
    BY <1>5 DEF FailLate, Armed, Pending, CanUse
  <2> QED
    BY <1>3, <1>5, <2>1, FinishInv DEF FailLate
<1>6. ASSUME NEW c \in Clients, Step(c) PROVE EtcdInv'
  BY <1>2, <1>4, <1>5, <1>6, GrantInv, ReserveInv, GetInv, StoreInv DEF Step
<1>7. ASSUME UNCHANGED etcdVars PROVE EtcdInv'
  <2>1. UNCHANGED <<rev, kv, leases, granted, lastReserve, lease, reply, late, lateLease, call, resp, seen>>
    BY <1>7 DEF etcdVars, server, callVars
  <2> QED
    BY <2>1 DEF EtcdInv, EtcdTypeOK, CallsTypeOK, PairsSound, KeysHaveLeases, KeysLiveWithTheirLease, Present,
       UidsAreReservations, Reservations, LeasesAreUnused, Armed, Pending, Attached, SeenIsCurrent, AbsEntry,
       RepliesAreAllowed
<1> QED
  BY <1>1, <1>6, <1>7, LateInv, ExpireInv DEF Next

-----------------------------------------------------------------------------
(* The contract *)

\* The names of the call interface mean the same in the contract.
LEMMA SameCalls ==
  /\ Contract!NoCall = NoCall /\ Contract!Invalid = Invalid
  /\ \A kind : Contract!Answer(kind) = Answer(kind)
  /\ \A u, v : Contract!EntryAnswer(u, v) = EntryAnswer(u, v)
  /\ \A e : (Contract!IsReserved(e) <=> IsReserved(e)) /\ (Contract!IsInitialized(e) <=> IsInitialized(e))
  BY DEF Contract!NoCall, Contract!AnyKey, NoCall, AnyKey, Contract!Invalid, Invalid, Contract!Answer, Answer,
     Contract!EntryAnswer, EntryAnswer, Contract!IsReserved, IsReserved, Contract!IsInitialized, IsInitialized

LEMMA SameLeave ==
  ASSUME NEW c, NEW r, Leave(c, r) PROVE Contract!Leave(c, r)
  BY SameCalls DEF Leave, Contract!Leave, Idle, Contract!Idle

LEMMA SameObserve ==
  ASSUME NEW k, NEW e, Observe(k, e) PROVE Contract!Observe(k, e)
  BY DEF Observe, Contract!Observe

\* The steps of etcd that the contract does not see.
LEMMA Unseen ==
  ASSUME UNCHANGED <<kv, lastReserve, late, callVars>>
  PROVE  UNCHANGED Contract!cacheVars
  BY DEF Contract!cacheVars, Contract!callVars, callVars, AbsEntry

LEMMA EnterMaps ==
  ASSUME EtcdInv, NEW c \in Clients, NEW k, NEW u, NEW v, NEW op,
         op = "SetReserved" \/ (op \in {"Fetch", "FetchOrReserve"} /\ u = 0 /\ v = 0),
         Enter(c, op, k, u, v, AbsEntry[k]), UNCHANGED <<server, late>>
  PROVE  Contract!ClientStep(c)
<1>1. call'[c].key = k /\ call'[c].uid = u /\ call'[c].val = v
  BY Types DEF Enter
<1>2. UNCHANGED <<AbsEntry, lastReserve, late>>
  BY DEF server, AbsEntry
<1>3. Contract!Enter(c, op, k, u, v, AbsEntry[k])
  BY SameCalls DEF Enter, Contract!Enter, Idle, Contract!Idle
<1>4. CASE op = "SetReserved"
  BY <1>1, <1>2, <1>3, <1>4 DEF Contract!CallSetReserved, Contract!ClientStep
<1>5. CASE op = "Fetch" /\ u = 0 /\ v = 0
  BY <1>1, <1>2, <1>3, <1>5 DEF Contract!CallFetch, Contract!ClientStep
<1>6. CASE op = "FetchOrReserve" /\ u = 0 /\ v = 0
  BY <1>1, <1>2, <1>3, <1>6 DEF Contract!CallFetchOrReserve, Contract!ClientStep
<1> QED
  BY <1>4, <1>5, <1>6

\* A key that is written is reserved, or initialized, as the contract has it.
LEMMA PutMaps ==
  ASSUME EtcdInv, NEW k \in Keys, NEW val \in Nat, NEW l \in leases, l \notin Attached,
         val = 0 => k \notin Present, Put(k, val, l), UNCHANGED leases
  PROVE  /\ (val = 0 /\ lastReserve' = rev + 1) => Contract!ReserveKey(k, rev + 1)
         /\ \A u : (/\ val # 0 /\ u # 0 /\ k \in Present /\ AbsEntry[k] = [uid |-> u, val |-> 0]
                    /\ UNCHANGED lastReserve)
                   => Contract!InitializeKey(k, u, val)
<1> DEFINE e == [uid |-> IF k \in Present THEN kv[k].create ELSE rev + 1, val |-> val]
<1>1. AbsEntry' = [AbsEntry EXCEPT ![k] = e]
  BY PutStep DEF EtcdInv
<1>2. AbsEntry'[k] = e
  BY <1>1, Types
<1>3. Contract!Observe(k, AbsEntry'[k])
  <2>1. AbsEntry'[k] = EntryOf(kv'[k])
    BY DEF AbsEntry
  <2> QED
    BY <2>1, SameObserve DEF Put
<1>4. ASSUME val = 0, lastReserve' = rev + 1 PROVE Contract!ReserveKey(k, rev + 1)
  <2>1. AbsEntry[k] = Invalid
    <3>1. kv[k] = NoPair
      BY <1>4 DEF EtcdInv, PairsSound
    <3> QED
      BY <3>1 DEF AbsEntry, EntryOf, NoPair, Invalid
  <2>2. rev + 1 > lastReserve
    BY Types
  <2>3. e = [uid |-> rev + 1, val |-> 0]
    BY <1>4
  <2> QED
    BY <1>1, <1>3, <1>4, <2>1, <2>2, <2>3, SameCalls DEF Contract!ReserveKey
<1>5. ASSUME NEW u, val # 0, u # 0, k \in Present, AbsEntry[k] = [uid |-> u, val |-> 0], UNCHANGED lastReserve
      PROVE  Contract!InitializeKey(k, u, val)
  <2>1. e = [uid |-> u, val |-> val]
    <3>1. AbsEntry[k] = [uid |-> kv[k].create, val |-> kv[k].val]
      BY DEF AbsEntry, EntryOf
    <3>2. kv[k].create = u
      BY <1>5, <3>1
    <3> QED
      BY <1>5, <3>2
  <2> QED
    BY <1>1, <1>3, <1>5, <2>1 DEF Contract!InitializeKey
<1> QED
  BY <1>4, <1>5

LEMMA ReserveMaps ==
  ASSUME EtcdInv, NEW c \in Clients, ReserveTxn(c)
  PROVE  Contract!ClientStep(c) \/ UNCHANGED Contract!cacheVars
<1> DEFINE k == call[c].key
<1>0. /\ call[c].op = "FetchOrReserve" /\ lease[c] # 0 /\ reply[c] = NoReply
      /\ UNCHANGED <<leases, granted, lease, late, lateLease, resp>> /\ k \in Keys
  BY Types DEF ReserveTxn, Call
<1>1. CASE /\ kv[k].create = 0 /\ lease[c] \in leases /\ Put(k, 0, lease[c]) /\ lastReserve' = rev + 1
           /\ call' = [call EXCEPT ![c] = [op |-> "reserved", key |-> @.key, uid |-> rev + 1, val |-> 0]]
  <2>1. c \in Armed /\ k \notin Present
    BY <1>0, <1>1 DEF Armed, CanUse, Present
  <2>2. Contract!ReserveKey(k, lastReserve')
    BY <1>0, <1>1, <2>1, ArmedLease, PutMaps
  <2>3. Contract!Reserve(c, lastReserve')
    BY <1>0, <1>1, <2>2 DEF Contract!Reserve
  <2> QED
    BY <2>3 DEF Contract!ClientStep
<1>2. CASE UNCHANGED <<rev, kv, lastReserve, call, seen>>
  BY <1>0, <1>2, Unseen DEF callVars
<1> QED
  BY <1>1, <1>2 DEF ReserveTxn

LEMMA StoreMaps ==
  ASSUME EtcdInv, NEW c \in Clients, StoreTxn(c)
  PROVE  Contract!ClientStep(c) \/ UNCHANGED Contract!cacheVars
<1> DEFINE k == call[c].key
           q == [op |-> "stored", key |-> k, uid |-> call[c].uid, val |-> call[c].val]
<1>0. /\ call[c].op = "SetReserved" /\ lease[c] # 0 /\ reply[c] = NoReply
      /\ UNCHANGED <<leases, granted, lastReserve, lease, late, lateLease, resp>>
      /\ call[c] \in Call /\ Stores(call[c], Reservations)
  BY Types DEF StoreTxn, EtcdInv, UidsAreReservations
<1>1. CASE /\ UidMatches(call[c]) /\ lease[c] \in leases /\ Put(k, call[c].val, lease[c])
           /\ call' = [call EXCEPT ![c].op = "stored"]
  <2>1. c \in Armed
    BY <1>0 DEF Armed, CanUse
  <2>2. /\ k \in Present /\ call[c].uid # 0 /\ call[c].val # 0 /\ call[c].val \in Nat /\ k \in Keys
        /\ AbsEntry[k] = [uid |-> call[c].uid, val |-> 0]
    BY <1>0, <1>1, MatchIsReserved
  <2>3. Contract!InitializeKey(k, call[c].uid, call[c].val)
    BY <1>0, <1>1, <2>1, <2>2, ArmedLease, PutMaps
  <2>4. [call[c] EXCEPT !.op = "stored"] = q
    BY <1>0 DEF Call
  <2>5. call' = [call EXCEPT ![c] = q]
    BY <1>1, <2>4, Types
  <2>6. Contract!Store(c)
    BY <1>0, <2>3, <2>5 DEF Contract!Store
  <2> QED
    BY <2>6 DEF Contract!ClientStep
<1>2. CASE UNCHANGED <<rev, kv, call, seen>>
  BY <1>0, <1>2, Unseen DEF callVars
<1> QED
  BY <1>1, <1>2 DEF StoreTxn

\* The answer that arrives is one of those that the contract allows.
LEMMA ReturnMaps ==
  ASSUME EtcdInv, NEW c \in Clients, Return(c)
  PROVE  Contract!ClientStep(c)
<1>0. reply[c] # NoReply /\ Leave(c, reply[c]) /\ UNCHANGED <<server, late>>
  BY DEF Return, Finish
<1>1. UNCHANGED <<AbsEntry, lastReserve, late>> /\ Contract!Leave(c, reply[c])
  BY <1>0, SameLeave DEF server, AbsEntry
<1>2. resp'[c] = reply[c]
  BY <1>0, Types DEF Leave
<1>3. CASE reply[c] = Answer("failure")
  BY <1>1, <1>3, SameCalls DEF Contract!Fail, Contract!ClientStep
<1>4. CASE Allowed(call[c], seen[c], reply[c])
  <2>1. \/ Contract!FetchOrReserveAnswer(c, reply[c])
        \/ Contract!FetchAnswer(c, reply[c])
        \/ Contract!SetReservedAnswer(c, reply[c])
    BY <1>4, SameCalls DEF Allowed, Contract!FetchOrReserveAnswer, Contract!FetchAnswer, Contract!SetReservedAnswer
  <2>2. Contract!Return(c, resp'[c])
    BY <1>1, <1>2, <2>1 DEF Contract!Return
  <2> QED
    BY <2>2 DEF Contract!ClientStep
<1> QED
  BY <1>0, <1>3, <1>4 DEF EtcdInv, RepliesAreAllowed

LEMMA FailMaps ==
  ASSUME EtcdInv, NEW c \in Clients, Fail(c) \/ FailLate(c)
  PROVE  Contract!ClientStep(c)
<1>1. /\ Leave(c, Answer("failure")) /\ UNCHANGED server
      /\ \/ UNCHANGED late
         \/ /\ call[c].op \in {"FetchOrReserve", "SetReserved"} /\ late[c] = NoCall
            /\ late' = [late EXCEPT ![c] = call[c]]
  BY DEF Fail, FailLate, Finish
<1>2. UNCHANGED <<AbsEntry, lastReserve>> /\ Contract!Leave(c, Contract!Answer("failure"))
  BY <1>1, SameLeave, SameCalls DEF server, AbsEntry
<1>3. Contract!Fail(c) \/ Contract!FailLate(c)
  BY <1>1, <1>2, SameCalls DEF Contract!Fail, Contract!FailLate
<1> QED
  BY <1>3 DEF Contract!ClientStep

LEMMA LateMaps ==
  ASSUME EtcdInv, NEW c \in Clients, LateTxn(c)
  PROVE  Contract!ClientStep(c)
<1> DEFINE q == late[c]
           l == lateLease[c]
<1>0. /\ q # NoCall /\ late' = [late EXCEPT ![c] = NoCall]
      /\ UNCHANGED <<leases, granted, lease, reply, call, resp>>
  BY DEF LateTxn
<1>1. q \in Call /\ q.key \in Keys /\ q.val \in Nat /\ Stores(q, Reservations)
  BY Types DEF EtcdInv, Call, UidsAreReservations
<1>2. l \notin Attached
  BY <1>0 DEF EtcdInv, LeasesAreUnused, Pending
<1>3. Contract!Settle(c)
  BY <1>0, SameCalls DEF Contract!Settle
<1>4. CASE /\ q.op = "FetchOrReserve" /\ kv[q.key].create = 0 /\ l \in leases /\ Put(q.key, 0, l)
           /\ lastReserve' = rev + 1
  <2>1. Contract!ReserveKey(q.key, lastReserve')
    BY <1>0, <1>1, <1>2, <1>4, PutMaps DEF Present
  <2>2. Contract!LateReserve(c, lastReserve')
    BY <1>0, <1>3, <1>4, <2>1 DEF Contract!LateReserve
  <2> QED
    BY <2>2 DEF Contract!ClientStep
<1>5. CASE /\ q.op = "SetReserved" /\ UidMatches(q) /\ l \in leases /\ Put(q.key, q.val, l)
           /\ UNCHANGED lastReserve
  <2>1. q.key \in Present /\ q.uid # 0 /\ q.val # 0 /\ AbsEntry[q.key] = [uid |-> q.uid, val |-> 0]
    BY <1>1, <1>5, MatchIsReserved
  <2>2. Contract!InitializeKey(q.key, q.uid, q.val)
    BY <1>0, <1>1, <1>2, <1>5, <2>1, PutMaps
  <2>3. Contract!LateStore(c)
    BY <1>0, <1>3, <1>5, <2>2 DEF Contract!LateStore
  <2> QED
    BY <2>3 DEF Contract!ClientStep
<1>6. CASE UNCHANGED <<rev, kv, lastReserve, seen>>
  <2>1. Contract!LateDrop(c)
    BY <1>0, <1>3, <1>6, SameCalls DEF Contract!LateDrop, AbsEntry, Contract!callVars
  <2> QED
    BY <2>1 DEF Contract!ClientStep
<1> QED
  BY <1>4, <1>5, <1>6 DEF LateTxn

LEMMA ExpireMaps ==
  ASSUME EtcdInv, NEW l \in leases, LeaseExpire(l)
  PROVE  (\E k \in Keys : Contract!Expire(k)) \/ UNCHANGED Contract!cacheVars
<1>0. UNCHANGED <<lastReserve, late, call, resp>>
  BY DEF LeaseExpire
<1>1. \/ AbsEntry' = AbsEntry /\ UNCHANGED seen
      \/ \E k \in Present : AbsEntry' = [AbsEntry EXCEPT ![k] = Invalid] /\ Observe(k, Invalid)
  BY ExpireStep DEF EtcdInv
<1>2. CASE AbsEntry' = AbsEntry /\ UNCHANGED seen
  BY <1>0, <1>2 DEF Contract!cacheVars, Contract!callVars
<1>3. CASE \E k \in Present : AbsEntry' = [AbsEntry EXCEPT ![k] = Invalid] /\ Observe(k, Invalid)
  <2>1. PICK k \in Present : AbsEntry' = [AbsEntry EXCEPT ![k] = Invalid] /\ Observe(k, Invalid)
    BY <1>3
  <2>2. k \in Keys /\ AbsEntry[k] # Invalid
    <3>1. k \in Keys /\ kv[k].create # 0
      BY DEF Present
    <3>2. AbsEntry[k].uid = kv[k].create
      BY <3>1 DEF AbsEntry, EntryOf
    <3> QED
      BY <3>1, <3>2 DEF Invalid
  <2>3. Contract!Expire(k)
    BY <1>0, <2>1, <2>2, SameCalls, SameObserve DEF Contract!Expire
  <2> QED
    BY <2>2, <2>3
<1> QED
  BY <1>1, <1>2, <1>3

\* Every step of the etcd cache is a step of the contract, or invisible to it.
LEMMA StepMaps ==
  ASSUME EtcdInv, [Next]_etcdVars
  PROVE  [Contract!Next]_(Contract!cacheVars)
<1>1. ASSUME NEW c \in Clients, ClientCalls(c) PROVE Contract!ClientStep(c)
  BY <1>1, EnterMaps DEF ClientCalls, Fetch, FetchOrReserve, SetReserved
<1>2. ASSUME NEW c \in Clients, Step(c) PROVE Contract!ClientStep(c) \/ UNCHANGED Contract!cacheVars
  <2>1. ASSUME Grant(c) \/ GetTxn(c) PROVE UNCHANGED Contract!cacheVars
    BY <2>1, Unseen DEF Grant, GetTxn, server
  <2> QED
    BY <1>2, <2>1, ReserveMaps, StoreMaps, ReturnMaps, FailMaps DEF Step
<1>3. ASSUME UNCHANGED etcdVars PROVE UNCHANGED Contract!cacheVars
  BY <1>3, Unseen DEF etcdVars, server
<1> QED
  BY <1>1, <1>2, <1>3, LateMaps, ExpireMaps DEF Next, Contract!Next

LEMMA InitMaps == Init => Contract!Init
<1>1. EntryOf(NoPair) = Invalid
  BY DEF EntryOf, NoPair, Invalid
<1> QED
  BY <1>1, SameCalls DEF Init, CallsInit, Contract!Init, Contract!CallsInit, AbsEntry

-----------------------------------------------------------------------------
(* Theorems *)

\* What a key's last writer leaves behind is removed: in every reachable state,
\* whatever uids clients store with and however requests fail, are lost or
\* arrive late, each key that is present is attached to a lease that is live.
THEOREM NothingOutlivesItsLease == Spec => []KeysLiveWithTheirLease
<1> DEFINE Inv == kv = [k \in Keys |-> kv[k]] /\ KeysLiveWithTheirLease
<1>0. NoPair.create = 0
  BY DEF NoPair
<1>1. Init => Inv
  BY <1>0 DEF Init, KeysLiveWithTheirLease
<1>2. ASSUME Inv, NEW k, NEW val, NEW l \in leases, Put(k, val, l), UNCHANGED leases PROVE Inv'
  <2> DEFINE p == [create |-> IF kv[k].create = 0 THEN rev + 1 ELSE kv[k].create,
                   mod |-> rev + 1, val |-> val, lease |-> l]
  <2>1. kv' = [kv EXCEPT ![k] = p] /\ p.lease = l
    BY <1>2 DEF Put
  <2> HIDE DEF p
  <2>2. kv' = [j \in Keys |-> IF j = k THEN p ELSE kv[j]]
    BY <1>2, <2>1
  <2> QED
    BY <1>2, <2>1, <2>2 DEF KeysLiveWithTheirLease
<1>3. ASSUME Inv, UNCHANGED kv, leases \subseteq leases' PROVE Inv'
  BY <1>3 DEF KeysLiveWithTheirLease
<1>4. ASSUME Inv, NEW l, LeaseExpire(l) PROVE Inv'
  BY <1>0, <1>4 DEF LeaseExpire, KeysLiveWithTheirLease
<1>5. Inv /\ [Next]_etcdVars => Inv'
  <2> SUFFICES ASSUME Inv, [Next]_etcdVars PROVE Inv'
    OBVIOUS
  <2> HIDE DEF Inv
  <2>1. ASSUME NEW c \in Clients, ClientCalls(c) \/ Return(c) \/ Fail(c) \/ FailLate(c) \/ Grant(c) \/ GetTxn(c)
        PROVE  UNCHANGED kv /\ leases \subseteq leases'
    BY <2>1 DEF ClientCalls, Fetch, FetchOrReserve, SetReserved, Return, Fail, FailLate, Grant, GetTxn, server
  <2>2. ASSUME NEW c \in Clients, ReserveTxn(c) PROVE Inv'
    BY <1>2, <1>3, <2>2 DEF ReserveTxn
  <2>3. ASSUME NEW c \in Clients, StoreTxn(c) PROVE Inv'
    BY <1>2, <1>3, <2>3 DEF StoreTxn
  <2>4. ASSUME NEW c \in Clients, LateTxn(c) PROVE Inv'
    BY <1>2, <1>3, <2>4 DEF LateTxn
  <2>5. ASSUME UNCHANGED etcdVars PROVE Inv'
    BY <1>3, <2>5 DEF etcdVars, server
  <2> QED
    BY <1>3, <1>4, <2>1, <2>2, <2>3, <2>4, <2>5 DEF Next, Step
<1> QED
  BY <1>1, <1>5, PTL DEF Spec

\* The inductive invariant, for clients that store only with the uid of a
\* reserved entry.
THEOREM EtcdInvariant ==
  ASSUME ~ReuseUids
  PROVE  Spec => []EtcdInv
<1>1. EtcdInv /\ [Next]_etcdVars => EtcdInv'
  BY StepInv
<1> QED
  BY <1>1, InitInv, PTL DEF Spec

\* The etcd span cache implements spancache.Cache for such clients (the
\* aggregator is one): lost answers, failed calls, requests that take effect
\* after their caller was told of a timeout and expiring leases included,
\* each step is one that the contract allows.
THEOREM EtcdImplementsContract ==
  ASSUME ~ReuseUids
  PROVE  Spec => ImplementsContract
<1>1. EtcdInv /\ [Next]_etcdVars => [Contract!Next]_(Contract!cacheVars)
  BY StepMaps
<1> QED
  BY <1>1, EtcdInvariant, InitMaps, PTL DEF Spec, ImplementsContract, Contract!Spec
=============================================================================
