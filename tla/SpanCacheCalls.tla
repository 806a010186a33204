--------------------------- MODULE SpanCacheCalls ---------------------------
(***************************************************************************)
(* The call interface of spancache.Cache, shared by its contract and by    *)
(* its two implementations: what a client passes in, what it gets back,    *)
(* and, as a history variable, which states of its key a running call      *)
(* could have observed.                                                    *)
(*                                                                         *)
(* A byte slice (the serialised span) is a natural number and nil is 0; a  *)
(* Uid is a natural number and 0 is "no uid".                              *)
(***************************************************************************)
EXTENDS Naturals

CONSTANTS
  Keys,      \* cache keys
  Clients    \* goroutines that call the cache

ASSUME KeysAssumption == Keys # {}

VARIABLES
  call,      \* call[c]: the call goroutine c is executing
  resp,      \* resp[c]: what the last call of c returned
  seen       \* seen[c]: states the key of c's call has had since it began

callVars == <<call, resp, seen>>

\* An entry is invalid (uid 0), reserved (a uid, nil value) or initialized;
\* uid is the one its reservation was given.
Invalid == [uid |-> 0, val |-> 0]
Entry == [uid : Nat, val : Nat]
IsReserved(e) == e.uid # 0 /\ e.val = 0
IsInitialized(e) == e.val # 0

\* "reserved" and "stored" are calls whose effect has happened and whose
\* answer is still on its way back.
Ops == {"none", "FetchOrReserve", "reserved", "Fetch", "SetReserved", "stored"}
AnyKey == CHOOSE k \in Keys : TRUE
NoCall == [op |-> "none", key |-> AnyKey, uid |-> 0, val |-> 0]
Call == [op : Ops, key : Keys, uid : Nat, val : Nat]

\* entry: (&Entry, nil); absent: (nil, nil); ok: nil error; the others are
\* the errors of the package, and "failure" is any other error.
Kinds == {"none", "entry", "absent", "ok", "ErrAlreadyReserved", "ErrInvalidKey",
          "ErrUidMismatch", "failure"}
Response == [kind : Kinds, uid : Nat, val : Nat]
Answer(kind) == [kind |-> kind, uid |-> 0, val |-> 0]
EntryAnswer(u, v) == [kind |-> "entry", uid |-> u, val |-> v]

\* ShouldRetry: the errors after which the aggregator tries again.
ShouldRetry(r) == r.kind \in {"ErrAlreadyReserved", "ErrInvalidKey", "ErrUidMismatch"}

Idle(c) == call[c].op = "none"

CallsInit ==
  /\ call = [c \in Clients |-> NoCall]
  /\ resp = [c \in Clients |-> Answer("none")]
  /\ seen = [c \in Clients |-> {}]

\* Goroutine c enters an operation; e is the state its key is in.
Enter(c, op, k, u, v, e) ==
  /\ Idle(c)
  /\ call' = [call EXCEPT ![c] = [op |-> op, key |-> k, uid |-> u, val |-> v]]
  /\ resp' = [resp EXCEPT ![c] = Answer("none")]
  /\ seen' = [seen EXCEPT ![c] = {e}]

\* Goroutine c gets its answer.
Leave(c, r) ==
  /\ ~Idle(c)
  /\ call' = [call EXCEPT ![c] = NoCall]
  /\ resp' = [resp EXCEPT ![c] = r]
  /\ seen' = [seen EXCEPT ![c] = {}]

\* Key k is now in state e: every call running on k could observe it.
Observe(k, e) ==
  seen' = [c \in Clients |->
             IF call[c].op # "none" /\ call[c].key = k THEN seen[c] \cup {e} ELSE seen[c]]

CallsTypeOK ==
  /\ call \in [Clients -> Call]
  /\ resp \in [Clients -> Response]
  /\ seen \in [Clients -> SUBSET Entry]
=============================================================================
