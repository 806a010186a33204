--------------------------- MODULE LocalDiffCache ---------------------------
(***************************************************************************)
(* The diff cache of a single process: for each object a history of        *)
(* patches that is dropped as a whole when it has not been added to for    *)
(* PatchTtl, and a TtlOnce with the snapshots.  Patches are computed by    *)
(* onUpdate of the diff controller, of which only the outcome matters      *)
(* here: DiffPipeline has the queues in between.                           *)
(***************************************************************************)
EXTENDS TtlOnce

CONSTANTS
  Objects, SnapshotNames,
  Document,              \* Document[rv]: [redacted, object], version rv of an object
  Differences(_, _),     \* diffcmp.Compare of two documents, a list of [path, old, new]
  SaysChange(_, _, _),   \* whether a list of differences is what a change should give
  UseOldResourceVersion,
  PatchTtl,
  MaxStores              \* bound: calls of Store

ASSUME LocalDiffCacheAssumption ==
  /\ Keys = Objects \X SnapshotNames /\ Vals \subseteq DOMAIN Document
  /\ PatchTtl \in Nat

Change(old, new) == Differences(Document[old].object, Document[new].object)

\* The comparison is right about every two versions.
ASSUME ComparisonAssumption ==
  \A old, new \in DOMAIN Document :
    SaysChange(Change(old, new), Document[old].object, Document[new].object)

VARIABLES
  histories,     \* cache.data: per object with a history, [lastModify, patches], patches by version
  told,          \* history: the stores younger than PatchTtl, [object, old, new, at]
  seen,          \* the version of the object that the informer has
  stores

patchVars == <<histories, told, seen, stores>>
allVars == <<ttlVars, patchVars>>

InitCache ==
  /\ TtlInit
  /\ histories = <<>>
  /\ told = {}
  /\ seen \in [Objects -> DOMAIN Document]
  /\ stores = 0

-----------------------------------------------------------------------------
ResourceVersionPath == <<1, 1>>

testRedacted(rv) == Document[rv].redacted

\* onUpdate: of a redacted object only the version is told.
PatchOf(old, new) ==
  LET redacted == testRedacted(old) \/ testRedacted(new) IN
  [old |-> old, new |-> new, redacted |-> redacted,
   diffs |-> IF redacted THEN <<[path |-> ResourceVersionPath, old |-> old, new |-> new]>> ELSE Change(old, new)]

ChooseResourceVersion(old, new) == IF UseOldResourceVersion THEN old ELSE new

Patches(o) == IF o \in DOMAIN histories THEN histories[o].patches ELSE <<>>

Touched_onCreate(o) == IF o \in DOMAIN histories THEN histories[o].lastModify ELSE now

Touched(o) == now

\* The informer sees a version, and the patch that leads there is stored.  Versions
\* may have been skipped, and a list that is behind goes back.
Store(o, new) ==
  LET old == seen[o]
      key == ChooseResourceVersion(old, new)
      patches == Patches(o) IN
  /\ new # old /\ seen' = [seen EXCEPT ![o] = new]
  /\ stores < MaxStores /\ stores' = stores + 1
  /\ histories' = [x \in DOMAIN histories \cup {o} |->
       IF x # o THEN histories[x]
       ELSE [lastModify |-> Touched(o),
             patches |-> [rv \in DOMAIN patches \cup {key} |-> IF rv = key THEN PatchOf(old, new) ELSE patches[rv]]]]
  /\ told' = {s \in told : s.object # o \/ ChooseResourceVersion(s.old, s.new) # key}
             \cup {[object |-> o, old |-> old, new |-> new, at |-> now]}
  /\ UNCHANGED ttlVars

\* The patch, or nothing.
Fetch(o, old, new) ==
  LET key == ChooseResourceVersion(old, new) IN
  IF key \in DOMAIN Patches(o) THEN <<Patches(o)[key]>> ELSE <<>>

Stale(o) == now - histories[o].lastModify > PatchTtl

\* runTrimLoop only runs with a time to live.
doTrim ==
  /\ PatchTtl > 0
  /\ \E o \in DOMAIN histories : Stale(o)
  /\ histories' = [o \in {x \in DOMAIN histories : ~Stale(x)} |-> histories[o]]
  /\ UNCHANGED <<ttlVars, told, seen, stores>>

StoreSnapshot(o, name, rv) == Add(<<o, name>>, rv) /\ UNCHANGED patchVars

\* The clock of the cache; what was stored too long ago is no longer looked at.
Pass ==
  /\ Tick
  /\ told' = {s \in told : now' - s.at <= PatchTtl}
  /\ UNCHANGED <<histories, seen, stores>>

Cleanup == (peekExpiry \/ doCleanup \/ StopCleanup) /\ UNCHANGED patchVars

NextCache ==
  \/ \E o \in Objects, new \in DOMAIN Document : Store(o, new)
  \/ \E o \in Objects, name \in SnapshotNames, rv \in Vals : StoreSnapshot(o, name, rv)
  \/ doTrim
  \/ Pass
  \/ Cleanup

\* Time passes and the goroutine of the cleanup loop runs.
FairnessCache ==
  /\ WF_allVars(Pass)
  /\ WF_allVars(peekExpiry /\ UNCHANGED patchVars)
  /\ WF_allVars(doCleanup /\ UNCHANGED patchVars)

SpecCache == InitCache /\ [][NextCache]_allVars /\ FairnessCache

-----------------------------------------------------------------------------
\* The patch of an update can be fetched for as long as PatchTtl, whatever was
\* stored, replaced or trimmed since, and it says exactly what the update changed,
\* or, when either version is redacted, nothing but the resource version.
FetchTellsTheChange ==
  \A s \in told :
    LET found == Fetch(s.object, s.old, s.new)
        diffs == found[1].diffs IN
    /\ found # <<>>
    /\ IF testRedacted(s.old) \/ testRedacted(s.new)
       THEN \A i \in DOMAIN diffs : diffs[i].path = ResourceVersionPath
       ELSE SaysChange(diffs, Document[s.old].object, Document[s.new].object)
=============================================================================
