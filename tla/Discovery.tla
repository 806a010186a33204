----------------------------- MODULE Discovery ------------------------------
(***************************************************************************)
(* clusterDiscoveryCache: a goroutine that asks the API server for its     *)
(* resource types, at an interval or on request, publishes them under a    *)
(* lock and tells the one handler (the diff controller) when the set has   *)
(* changed.  A type stands for its GVR, its GVK and its details; the API   *)
(* server is external.                                                     *)
(***************************************************************************)
EXTENDS Naturals, FiniteSets

CONSTANTS
  Gvrs,
  MaxChanges     \* bound: changes of what the API server serves

ASSUME GvrsAssumption == IsFiniteSet(Gvrs) /\ MaxChanges \in Nat

VARIABLES
  server,        \* the types that the API server serves
  gvrDetails,    \* the published types (also gvrToGvk, gvkToGvr)
  cdc,           \* run: [at, lists, old]
  resyncCh,      \* the channel of AddResyncHandler, capacity 1: something is in it
  resyncRequestCh, \* likewise
  lookup,        \* a caller of LookupKind or LookupResource: [at, gvr]
  changes

discoveryVars == <<server, gvrDetails, cdc, resyncCh, resyncRequestCh, lookup, changes>>

\* ForCluster was called by Init of the diff controller, and Start has run.
DiscoveryInit ==
  /\ server = {} /\ gvrDetails = {}
  /\ cdc = [at |-> "query", lists |-> {}, old |-> {}]
  /\ resyncCh = FALSE /\ resyncRequestCh = FALSE
  /\ lookup = [at |-> "idle", gvr |-> {}]
  /\ changes = 0

\* The process ends and starts anew; the cluster goes on.
DiscoveryRestarts ==
  /\ gvrDetails' = {}
  /\ cdc' = [at |-> "query", lists |-> {}, old |-> {}]
  /\ resyncCh' = FALSE /\ resyncRequestCh' = FALSE
  /\ lookup' = [at |-> "idle", gvr |-> {}]
  /\ UNCHANGED <<server, changes>>

\* A type is installed in the cluster or removed.
ServerChanges ==
  /\ changes < MaxChanges
  /\ \E g \in Gvrs : server' = (server \ {g}) \cup ({g} \ server)
  /\ changes' = changes + 1
  /\ UNCHANGED <<gvrDetails, cdc, resyncCh, resyncRequestCh, lookup>>

\* doResync: ServerPreferredResources answers, or fails and the loop goes on.
query ==
  /\ cdc.at = "query"
  /\ \/ cdc' = [at |-> "publish", lists |-> server, old |-> cdc.old]
     \/ cdc' = [cdc EXCEPT !.at = "wait"]
  /\ UNCHANGED <<server, gvrDetails, resyncCh, resyncRequestCh, lookup, changes>>

publish_late ==
  /\ cdc.at = "publish"
  /\ cdc' = [at |-> "wait", lists |-> cdc.lists, old |-> cdc.lists]
  /\ gvrDetails' = cdc.old
  /\ resyncCh' = (resyncCh \/ gvrDetails # cdc.lists)
  /\ UNCHANGED <<server, resyncRequestCh, lookup, changes>>

\* The three maps are swapped under dataLock.
publish ==
  /\ cdc.at = "publish"
  /\ cdc' = [at |-> "notify", lists |-> cdc.lists, old |-> gvrDetails]
  /\ gvrDetails' = cdc.lists
  /\ UNCHANGED <<server, resyncCh, resyncRequestCh, lookup, changes>>

haveSameKeys(m1, m2) == Cardinality(m1) = Cardinality(m2) /\ m1 \subseteq m2

\* The handler is told of a change, unless a notice is pending.
notify ==
  /\ cdc.at = "notify"
  /\ cdc' = [at |-> "wait", lists |-> {}, old |-> {}]
  /\ resyncCh' = (resyncCh \/ ~haveSameKeys(cdc.old, cdc.lists))
  /\ UNCHANGED <<server, gvrDetails, resyncRequestCh, lookup, changes>>

\* run: the interval has passed, or there is a request.
wake ==
  /\ cdc.at = "wait"
  /\ cdc' = [cdc EXCEPT !.at = "query"]
  /\ resyncRequestCh' \in {resyncRequestCh, FALSE}
  /\ UNCHANGED <<server, gvrDetails, resyncCh, lookup, changes>>

\* LookupKind, LookupResource: answer from the published types, or ask for a
\* resync and wait.
Lookup(g) ==
  /\ lookup.at = "idle" /\ g \notin gvrDetails
  /\ lookup' = [at |-> "sleep", gvr |-> {g}]
  /\ resyncRequestCh' = TRUE
  /\ UNCHANGED <<server, gvrDetails, cdc, resyncCh, changes>>

\* RequestAndWaitResync sleeps for 5 s, whether or not the resync is over; then
\* the answer is whatever is published.
LookupAgain ==
  /\ lookup.at = "sleep"
  /\ lookup' = [at |-> "idle", gvr |-> {}]
  /\ UNCHANGED <<server, gvrDetails, cdc, resyncCh, resyncRequestCh, changes>>

DiscoveryLoop == query \/ publish \/ notify \/ wake
=============================================================================
