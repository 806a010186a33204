----------------------------- MODULE Diff_proofs -----------------------------
(***************************************************************************)
(* pkg/diff.  The monitors of the diff controller follow discovery, and    *)
(* none is left behind, for every set of types and every number of terms   *)
(* that do not overlap in resyncMonitors.  In the pipeline that they feed  *)
(* no patch is lost that is computed within a lease of its process being   *)
(* the writer, and what the decorator logs is of the change it logs it     *)
(* with, for every number of processes and versions, every length of the   *)
(* lease and of its vacancies, and every setting of the cache key.         *)
(***************************************************************************)
EXTENDS DiffMonitors, DiffPipeline, FiniteSetTheorems, WellFoundedInduction, TLAPS

-----------------------------------------------------------------------------
(* The monitors *)

CdcStates == [at : {"query", "publish", "notify", "wait"}, lists : SUBSET Gvrs, old : SUBSET Gvrs]
Monitors == [gvr : Listable, term : Terms]
LoopStates == [at : {"none", "select", "compare", "start", "add", "drain", "close", "stuck", "ended"},
               live : BOOLEAN, expected : SUBSET Gvrs, toStart : SUBSET Listable, toStop : SUBSET Gvrs,
               drained : SUBSET Monitors]

MonitorsTypeOK ==
  /\ server \subseteq Gvrs /\ gvrDetails \subseteq Gvrs
  /\ cdc \in CdcStates /\ resyncCh \in BOOLEAN
  /\ loop \in [Terms -> LoopStates]
  /\ monitors \subseteq Monitors
  /\ overlap \in BOOLEAN

\* What the handler is about to be told of, or not, is what has been published.
NoticeIsCurrent == cdc.at = "notify" => cdc.lists = gvrDetails

\* A set M of monitored types is up to date with the published types d, or with
\* those before the ones whose notice the loop c of discovery is about to give;
\* otherwise a notice is pending in ch.
Informed(M, ch, d, c) ==
  \/ ch
  \/ M = d \cap Listable
  \/ c.at = "notify" /\ M = c.old \cap Listable

AtMostOneResync == \A t, u \in Terms : Resyncing(t) /\ Resyncing(u) => t = u

\* What is monitored, or will be when the resync under way is over, is up to date.
Monitoring ==
  /\ (\A t \in Terms : ~Resyncing(t)) => Informed(Monitored(monitors), resyncCh, gvrDetails, cdc)
  /\ \A t \in Terms : Resyncing(t) => Informed(loop[t].expected \cap Listable, resyncCh, gvrDetails, cdc)

\* The lists that compareMonitors has made are not stale when they are used.
ListsAreCurrent ==
  \A t \in Terms :
    /\ loop[t].at \in {"start", "add"} =>
         /\ loop[t].toStart = (loop[t].expected \cap Listable) \ Monitored(monitors)
         /\ loop[t].toStop = Monitored(monitors) \ loop[t].expected
    /\ loop[t].at = "drain" =>
         /\ loop[t].toStop \subseteq Monitored(monitors)
         /\ Monitored(monitors) \ loop[t].toStop = loop[t].expected \cap Listable
    /\ loop[t].at = "close" =>
         /\ loop[t].toStop \subseteq Monitored(loop[t].drained)
         /\ Monitored(monitors) = loop[t].expected \cap Listable

\* The inductive invariant.
MonitorsInv ==
  /\ MonitorsTypeOK /\ NoticeIsCurrent /\ NoOrphanMonitor
  /\ ~overlap => AtMostOneResync /\ Monitoring /\ ListsAreCurrent

-----------------------------------------------------------------------------
\* haveSameKeys compares sizes and one inclusion only; on finite maps that is
\* equality.
LEMMA SameKeysIsEquality ==
  ASSUME NEW A \in SUBSET Gvrs, NEW B \in SUBSET Gvrs, haveSameKeys(A, B)
  PROVE  A = B
<1>1. IsFiniteSet(B)
  BY FS_Subset, GvrsAssumption
<1> QED
  BY <1>1, FS_Subset DEF haveSameKeys

LEMMA InitInv == Init => MonitorsInv
<1> SUFFICES ASSUME Init PROVE MonitorsInv
  OBVIOUS
<1>1. /\ server = {} /\ gvrDetails = {} /\ cdc = [at |-> "query", lists |-> {}, old |-> {}]
      /\ resyncCh = FALSE /\ loop = [t \in Terms |-> Outside("none", FALSE)]
      /\ monitors = {} /\ running = {} /\ overlap = FALSE
  BY DEF Init, DiscoveryInit
<1>2. Outside("none", FALSE) \in LoopStates /\ Outside("none", FALSE).at = "none"
  BY DEF Outside, LoopStates
<1>3. cdc \in CdcStates /\ cdc.at = "query"
  BY <1>1 DEF CdcStates
<1>4. MonitorsTypeOK /\ NoticeIsCurrent
  BY <1>1, <1>2, <1>3 DEF MonitorsTypeOK, NoticeIsCurrent
<1>5. \A t \in Terms : loop[t].at = "none"
  BY <1>1, <1>2
<1>6. AtMostOneResync /\ Monitoring /\ ListsAreCurrent
  BY <1>1, <1>5 DEF AtMostOneResync, Resyncing, Monitoring, Informed, Monitored, ListsAreCurrent
<1> QED
  BY <1>1, <1>4, <1>6 DEF MonitorsInv, NoOrphanMonitor

\* A step of discovery: the handler is told of every change, for the types are
\* published before the notice is given.
LEMMA DiscoveryInv ==
  ASSUME MonitorsInv, UNCHANGED monitorVars,
         ServerChanges \/ LookupAgain \/ (\E g \in Gvrs : Lookup(g)) \/ DiscoveryLoop
  PROVE  MonitorsInv'
<1>0. UNCHANGED <<loop, monitors, running, overlap>>
  BY DEF monitorVars
<1>1. MonitorsTypeOK /\ NoticeIsCurrent
  BY DEF MonitorsInv
<1>2. cdc.lists \subseteq Gvrs /\ cdc.old \subseteq Gvrs /\ cdc \in CdcStates
  BY <1>1 DEF MonitorsTypeOK, CdcStates
<1>3. /\ server' \subseteq Gvrs /\ gvrDetails' \subseteq Gvrs
      /\ cdc' \in CdcStates /\ resyncCh' \in BOOLEAN /\ NoticeIsCurrent'
      /\ \A M : Informed(M, resyncCh, gvrDetails, cdc) => Informed(M, resyncCh', gvrDetails', cdc')
  <2>1. CASE ServerChanges \/ LookupAgain \/ \E g \in Gvrs : Lookup(g)
    <3>1. server' \subseteq Gvrs /\ UNCHANGED <<gvrDetails, cdc, resyncCh>>
      BY <1>1, <2>1 DEF ServerChanges, LookupAgain, Lookup, MonitorsTypeOK
    <3> QED
      BY <1>1, <3>1 DEF MonitorsTypeOK, NoticeIsCurrent
  <2>2. CASE query
    <3>1. /\ UNCHANGED <<server, gvrDetails, resyncCh>> /\ cdc.at = "query"
          /\ cdc' = [at |-> "publish", lists |-> server, old |-> cdc.old] \/ cdc' = [cdc EXCEPT !.at = "wait"]
      BY <2>2 DEF query
    <3>2. cdc' \in CdcStates /\ cdc'.at # "notify"
      BY <1>1, <1>2, <3>1 DEF CdcStates, MonitorsTypeOK
    <3> QED
      BY <1>1, <3>1, <3>2 DEF MonitorsTypeOK, NoticeIsCurrent, Informed
  <2>3. CASE publish
    <3>1. /\ UNCHANGED <<server, resyncCh>> /\ cdc.at = "publish" /\ gvrDetails' = cdc.lists
          /\ cdc' = [at |-> "notify", lists |-> cdc.lists, old |-> gvrDetails]
      BY <2>3 DEF publish
    <3>2. cdc' \in CdcStates /\ cdc'.at = "notify" /\ cdc'.lists = cdc.lists /\ cdc'.old = gvrDetails
      BY <1>1, <1>2, <3>1 DEF CdcStates, MonitorsTypeOK
    <3> QED
      BY <1>1, <1>2, <3>1, <3>2 DEF MonitorsTypeOK, NoticeIsCurrent, Informed
  <2>4. CASE notify
    <3>1. /\ UNCHANGED <<server, gvrDetails>> /\ cdc.at = "notify" /\ cdc.lists = gvrDetails
          /\ cdc' = [at |-> "wait", lists |-> {}, old |-> {}]
          /\ resyncCh' = (resyncCh \/ ~haveSameKeys(cdc.old, cdc.lists))
      BY <1>1, <2>4 DEF notify, NoticeIsCurrent
    <3>2. cdc' \in CdcStates /\ cdc'.at = "wait"
      BY <3>1 DEF CdcStates
    <3>3. haveSameKeys(cdc.old, cdc.lists) => cdc.old = gvrDetails
      BY <1>2, <3>1, SameKeysIsEquality
    <3>4. resyncCh' \in BOOLEAN /\ (resyncCh => resyncCh') /\ (resyncCh' \/ cdc.old = gvrDetails)
      BY <3>1, <3>3, Zenon
    <3> QED
      BY <1>1, <3>1, <3>2, <3>4 DEF MonitorsTypeOK, NoticeIsCurrent, Informed
  <2>5. CASE wake
    <3>1. UNCHANGED <<server, gvrDetails, resyncCh>> /\ cdc.at = "wait" /\ cdc' = [cdc EXCEPT !.at = "query"]
      BY <2>5 DEF wake
    <3>2. cdc' \in CdcStates /\ cdc'.at = "query"
      BY <1>2, <3>1 DEF CdcStates
    <3> QED
      BY <1>1, <3>1, <3>2 DEF MonitorsTypeOK, NoticeIsCurrent, Informed
  <2> QED
    BY <2>1, <2>2, <2>3, <2>4, <2>5 DEF DiscoveryLoop
<1>4. MonitorsTypeOK'
  BY <1>0, <1>1, <1>3 DEF MonitorsTypeOK
<1>5. ASSUME ~overlap' PROVE AtMostOneResync' /\ Monitoring' /\ ListsAreCurrent'
  <2>1. AtMostOneResync /\ Monitoring /\ ListsAreCurrent
    BY <1>0, <1>5 DEF MonitorsInv
  <2>2. \A t \in Terms : Resyncing(t)' <=> Resyncing(t)
    BY <1>0 DEF Resyncing
  <2>3. Monitoring'
    BY <1>0, <1>3, <2>1, <2>2 DEF Monitoring, Monitored
  <2> QED
    BY <1>0, <2>1, <2>2, <2>3 DEF AtMostOneResync, Resyncing, ListsAreCurrent, Monitored
<1>6. NoOrphanMonitor'
  BY <1>0 DEF MonitorsInv, NoOrphanMonitor, InHand, Started
<1> QED
  BY <1>3, <1>4, <1>5, <1>6 DEF MonitorsInv

\* A step of term t moves its loop to state l.
LEMMA LoopFacts ==
  ASSUME MonitorsInv, NEW t \in Terms, NEW l \in LoopStates, Step(t, l)
  PROVE  /\ loop' \in [Terms -> LoopStates] /\ loop'[t] = l
         /\ \A u \in Terms \ {t} : loop'[u] = loop[u]
         /\ loop[t] \in LoopStates
  BY DEF MonitorsInv, MonitorsTypeOK, Step

\* Discovery is not touched, and the loop is not in resyncMonitors, before or after.
LEMMA OutsideInv ==
  ASSUME MonitorsInv, NEW t \in Terms, NEW l \in LoopStates, Step(t, l),
         l.at \notin {"compare", "start", "add", "drain", "close"}, ~Resyncing(t),
         UNCHANGED <<discoveryVars, monitors, running, overlap>>
  PROVE  MonitorsInv'
<1>0. UNCHANGED <<server, gvrDetails, cdc, resyncCh, monitors, running, overlap>>
  BY DEF discoveryVars
<1>1. loop' \in [Terms -> LoopStates] /\ loop'[t] = l /\ \A u \in Terms \ {t} : loop'[u] = loop[u]
  BY LoopFacts
<1>2. MonitorsTypeOK' /\ NoticeIsCurrent'
  BY <1>0, <1>1 DEF MonitorsInv, MonitorsTypeOK, NoticeIsCurrent
<1>3. ~Resyncing(t)' /\ \A u \in Terms \ {t} : Resyncing(u)' <=> Resyncing(u)
  BY <1>1 DEF Resyncing
<1>4. ASSUME ~overlap PROVE AtMostOneResync' /\ Monitoring' /\ ListsAreCurrent'
  <2>1. AtMostOneResync /\ Monitoring /\ ListsAreCurrent
    BY <1>4 DEF MonitorsInv
  <2>2. AtMostOneResync'
    BY <1>1, <2>1 DEF AtMostOneResync, Resyncing
  <2>3. Monitoring'
    BY <1>0, <1>1, <1>3, <2>1 DEF Monitoring, Monitored
  <2>4. ListsAreCurrent'
    BY <1>0, <1>1, <2>1 DEF ListsAreCurrent, Monitored
  <2> QED
    BY <2>2, <2>3, <2>4
<1>5. NoOrphanMonitor'
  <2>1. InHand(t) = {} /\ \A u \in Terms \ {t} : InHand(u)' = InHand(u)
    BY <1>1 DEF InHand, Started, Resyncing
  <2> QED
    BY <1>0, <2>1 DEF MonitorsInv, NoOrphanMonitor
<1> QED
  BY <1>0, <1>2, <1>4, <1>5 DEF MonitorsInv

LEMMA EndTermInv ==
  ASSUME MonitorsInv, NEW t \in Terms, EndTerm(t)
  PROVE  MonitorsInv'
<1> DEFINE l == [loop[t] EXCEPT !.live = FALSE]
<1>0. Step(t, l) /\ UNCHANGED <<server, gvrDetails, cdc, resyncCh, monitors, running, overlap>>
  BY DEF EndTerm, discoveryVars
<1>1. /\ l \in LoopStates /\ l.at = loop[t].at /\ l.expected = loop[t].expected
      /\ l.toStart = loop[t].toStart /\ l.toStop = loop[t].toStop /\ l.drained = loop[t].drained
  BY DEF MonitorsInv, MonitorsTypeOK, LoopStates
<1> HIDE DEF l
<1>2. loop' \in [Terms -> LoopStates] /\ loop'[t] = l /\ \A u \in Terms \ {t} : loop'[u] = loop[u]
  BY <1>0, <1>1, LoopFacts
<1>3. \A u \in Terms : /\ loop'[u].at = loop[u].at /\ loop'[u].expected = loop[u].expected
                       /\ loop'[u].toStart = loop[u].toStart /\ loop'[u].toStop = loop[u].toStop
                       /\ loop'[u].drained = loop[u].drained
  BY <1>1, <1>2
<1>4. MonitorsTypeOK' /\ NoticeIsCurrent'
  BY <1>0, <1>2 DEF MonitorsInv, MonitorsTypeOK, NoticeIsCurrent
<1>5. ASSUME ~overlap PROVE AtMostOneResync' /\ Monitoring' /\ ListsAreCurrent'
  <2>1. AtMostOneResync /\ Monitoring /\ ListsAreCurrent
    BY <1>5 DEF MonitorsInv
  <2>2. AtMostOneResync'
    BY <1>3, <2>1 DEF AtMostOneResync, Resyncing
  <2>3. Monitoring'
    BY <1>0, <1>3, <2>1 DEF Monitoring, Monitored, Resyncing
  <2>4. ListsAreCurrent'
    BY <1>0, <1>3, <2>1 DEF ListsAreCurrent, Monitored
  <2> QED
    BY <2>2, <2>3, <2>4
<1>6. NoOrphanMonitor'
  <2>1. \A u \in Terms : InHand(u)' = InHand(u)
    BY <1>3 DEF InHand, Started
  <2> QED
    BY <1>0, <2>1 DEF MonitorsInv, NoOrphanMonitor
<1> QED
  BY <1>0, <1>4, <1>5, <1>6 DEF MonitorsInv

\* The notice is taken and the types published by then are read.
LEMMA ResyncInv ==
  ASSUME MonitorsInv, NEW t \in Terms, resyncMonitors(t)
  PROVE  MonitorsInv'
<1> DEFINE l == [Outside("compare", loop[t].live) EXCEPT !.expected = gvrDetails]
<1>0. /\ loop[t].at = "select" /\ resyncCh' = FALSE /\ Step(t, l)
      /\ overlap' = (overlap \/ \E u \in Terms \ {t} : Resyncing(u))
      /\ UNCHANGED <<server, gvrDetails, cdc, monitors, running>>
  BY DEF resyncMonitors
<1>1. l \in LoopStates /\ l.at = "compare" /\ l.expected = gvrDetails
  BY DEF MonitorsInv, MonitorsTypeOK, LoopStates, Outside
<1> HIDE DEF l
<1>2. loop' \in [Terms -> LoopStates] /\ loop'[t] = l /\ \A u \in Terms \ {t} : loop'[u] = loop[u]
  BY <1>0, <1>1, LoopFacts
<1>3. overlap' \in BOOLEAN /\ (~overlap' => ~overlap /\ \A u \in Terms \ {t} : ~Resyncing(u))
  BY <1>0, Zenon
<1>4. MonitorsTypeOK' /\ NoticeIsCurrent'
  BY <1>0, <1>2, <1>3 DEF MonitorsInv, MonitorsTypeOK, NoticeIsCurrent
<1>5. ASSUME ~overlap' PROVE AtMostOneResync' /\ Monitoring' /\ ListsAreCurrent'
  <2>1. \A u \in Terms \ {t} : ~Resyncing(u)
    BY <1>3, <1>5
  <2>2. Resyncing(t)' /\ \A u \in Terms \ {t} : ~Resyncing(u)'
    BY <1>1, <1>2, <2>1 DEF Resyncing
  <2>3. AtMostOneResync'
    BY <2>2 DEF AtMostOneResync
  <2>4. Monitoring'
    BY <1>0, <1>1, <1>2, <2>2 DEF Monitoring, Informed
  <2>5. \A u \in Terms : loop'[u].at \notin {"start", "add", "drain", "close"}
    BY <1>1, <1>2, <2>2 DEF Resyncing
  <2>6. ListsAreCurrent'
    BY <2>5 DEF ListsAreCurrent
  <2> QED
    BY <2>3, <2>4, <2>6
<1>6. NoOrphanMonitor'
  <2>1. InHand(t) = {} /\ \A u \in Terms \ {t} : InHand(u)' = InHand(u)
    BY <1>0, <1>2 DEF InHand, Started
  <2> QED
    BY <1>0, <1>3, <2>1 DEF MonitorsInv, NoOrphanMonitor
<1> QED
  BY <1>4, <1>5, <1>6 DEF MonitorsInv

LEMMA CompareInv ==
  ASSUME MonitorsInv, NEW t \in Terms, compareMonitors(t)
  PROVE  MonitorsInv'
<1> DEFINE M == Monitored(monitors)
           E == loop[t].expected
           l == [loop[t] EXCEPT !.at = "start",
                 !.toStart = {g \in E : shouldMonitorType(g) /\ g \notin M}, !.toStop = M \ E]
<1>0. /\ loop[t].at = "compare" /\ Step(t, l)
      /\ UNCHANGED <<server, gvrDetails, cdc, resyncCh, monitors, running, overlap>>
  BY DEF compareMonitors, discoveryVars
<1>1. loop[t] \in LoopStates /\ E \subseteq Gvrs /\ M \subseteq Listable /\ Listable \subseteq Gvrs
  BY MonitorsAssumption DEF MonitorsInv, MonitorsTypeOK, LoopStates, Monitored, Monitors
<1>2. {g \in E : shouldMonitorType(g) /\ g \notin M} = (E \cap Listable) \ M
  BY DEF shouldMonitorType
<1>e. E = loop[t].expected
  OBVIOUS
<1> DEFINE A == {g \in E : shouldMonitorType(g) /\ g \notin M}
           B == M \ E
<1>f. A = (E \cap Listable) \ M /\ B = M \ E /\ l = [loop[t] EXCEPT !.at = "start", !.toStart = A, !.toStop = B]
      /\ A \subseteq Listable /\ B \subseteq Gvrs
  BY <1>1, <1>2
<1> HIDE DEF A, B, M, E, l
<1>3. /\ l \in LoopStates /\ l.at = "start" /\ l.expected = E
      /\ l.toStart = (E \cap Listable) \ M /\ l.toStop = M \ E
  BY <1>1, <1>e, <1>f DEF LoopStates
<1>4. loop' \in [Terms -> LoopStates] /\ loop'[t] = l /\ \A u \in Terms \ {t} : loop'[u] = loop[u]
  BY <1>0, <1>3, LoopFacts
<1>5. MonitorsTypeOK' /\ NoticeIsCurrent'
  BY <1>0, <1>4 DEF MonitorsInv, MonitorsTypeOK, NoticeIsCurrent
<1>6. Resyncing(t) /\ \A u \in Terms : (Resyncing(u)' <=> Resyncing(u)) /\ loop'[u].expected = loop[u].expected
  BY <1>0, <1>3, <1>4 DEF Resyncing, E
<1>7. Monitored(monitors)' = M
  BY <1>0 DEF Monitored, M
<1>8. ASSUME ~overlap PROVE AtMostOneResync' /\ Monitoring' /\ ListsAreCurrent'
  <2>1. AtMostOneResync /\ Monitoring /\ ListsAreCurrent
    BY <1>8 DEF MonitorsInv
  <2>2. AtMostOneResync'
    BY <1>6, <2>1 DEF AtMostOneResync
  <2>3. Monitoring'
    BY <1>0, <1>6, <1>7, <2>1 DEF Monitoring, M
  <2>4. ListsAreCurrent'
    <3>1. \A u \in Terms \ {t} : loop'[u].at \notin {"start", "add", "drain", "close"}
      BY <1>6, <2>2 DEF AtMostOneResync, Resyncing
    <3> QED
      BY <1>3, <1>4, <1>7, <3>1 DEF ListsAreCurrent
  <2> QED
    BY <2>2, <2>3, <2>4
<1>9. NoOrphanMonitor'
  <2>1. InHand(t) = {} /\ \A u \in Terms \ {t} : InHand(u)' = InHand(u)
    BY <1>0, <1>4 DEF InHand, Started
  <2> QED
    BY <1>0, <2>1 DEF MonitorsInv, NoOrphanMonitor
<1> QED
  BY <1>0, <1>5, <1>8, <1>9 DEF MonitorsInv

\* The monitors that are started outside the lock are in the hands of their term.
LEMMA StartInv ==
  ASSUME MonitorsInv, NEW t \in Terms, startMonitor(t)
  PROVE  MonitorsInv'
<1> DEFINE l == [loop[t] EXCEPT !.at = "add"]
<1>0. /\ loop[t].at = "start" /\ Step(t, l) /\ running' = running \cup Started(t)
      /\ UNCHANGED <<server, gvrDetails, cdc, resyncCh, monitors, overlap>>
  BY DEF startMonitor, discoveryVars
<1>1. /\ l \in LoopStates /\ l.at = "add" /\ l.expected = loop[t].expected
      /\ l.toStart = loop[t].toStart /\ l.toStop = loop[t].toStop
  BY DEF MonitorsInv, MonitorsTypeOK, LoopStates
<1> HIDE DEF l
<1>2. loop' \in [Terms -> LoopStates] /\ loop'[t] = l /\ \A u \in Terms \ {t} : loop'[u] = loop[u]
  BY <1>0, <1>1, LoopFacts
<1>3. MonitorsTypeOK' /\ NoticeIsCurrent'
  BY <1>0, <1>2 DEF MonitorsInv, MonitorsTypeOK, NoticeIsCurrent
<1>4. \A u \in Terms : (Resyncing(u)' <=> Resyncing(u)) /\ loop'[u].expected = loop[u].expected
  BY <1>0, <1>1, <1>2 DEF Resyncing
<1>5. Monitored(monitors)' = Monitored(monitors)
  BY <1>0 DEF Monitored
<1>6. ASSUME ~overlap PROVE AtMostOneResync' /\ Monitoring' /\ ListsAreCurrent'
  <2>1. AtMostOneResync /\ Monitoring /\ ListsAreCurrent
    BY <1>6 DEF MonitorsInv
  <2>2. AtMostOneResync'
    BY <1>4, <2>1 DEF AtMostOneResync
  <2>3. Monitoring'
    BY <1>0, <1>4, <1>5, <2>1 DEF Monitoring
  <2>4. ListsAreCurrent'
    <3>1. \A u \in Terms \ {t} : loop'[u].at \notin {"start", "add", "drain", "close"}
      BY <1>0, <1>4, <2>2 DEF AtMostOneResync, Resyncing
    <3> QED
      BY <1>0, <1>1, <1>2, <1>5, <2>1, <3>1 DEF ListsAreCurrent
  <2> QED
    BY <2>2, <2>3, <2>4
<1>7. NoOrphanMonitor'
  <2>1. InHand(t)' = Started(t) /\ InHand(t) = {} /\ \A u \in Terms \ {t} : InHand(u)' = InHand(u)
    BY <1>0, <1>1, <1>2 DEF InHand, Started
  <2> QED
    BY <1>0, <2>1 DEF MonitorsInv, NoOrphanMonitor
<1> QED
  BY <1>0, <1>3, <1>6, <1>7 DEF MonitorsInv

LEMMA AddInv ==
  ASSUME MonitorsInv, NEW t \in Terms, addMonitors(t)
  PROVE  MonitorsInv'
<1> DEFINE M == Monitored(monitors)
           S == loop[t].toStart
           l == [loop[t] EXCEPT !.at = "drain"]
<1>0. /\ loop[t].at = "add" /\ Step(t, l)
      /\ monitors' = {m \in monitors : m.gvr \notin S} \cup Started(t)
      /\ UNCHANGED <<server, gvrDetails, cdc, resyncCh, running, overlap>>
  BY DEF addMonitors, discoveryVars
<1>1. /\ loop[t] \in LoopStates /\ S \subseteq Listable /\ monitors \subseteq Monitors
  BY DEF MonitorsInv, MonitorsTypeOK, LoopStates
<1>2. /\ l \in LoopStates /\ l.at = "drain" /\ l.expected = loop[t].expected /\ l.toStop = loop[t].toStop
  BY <1>1 DEF LoopStates
<1> HIDE DEF l
<1>3. loop' \in [Terms -> LoopStates] /\ loop'[t] = l /\ \A u \in Terms \ {t} : loop'[u] = loop[u]
  BY <1>0, <1>2, LoopFacts
<1>4. Started(t) \subseteq Monitors /\ Started(t) = [gvr : S, term : {t}]
  BY <1>1 DEF Started, Monitors
<1>5. monitors' \subseteq Monitors
  BY <1>0, <1>1, <1>4
<1>6. MonitorsTypeOK' /\ NoticeIsCurrent'
  BY <1>0, <1>3, <1>5 DEF MonitorsInv, MonitorsTypeOK, NoticeIsCurrent
<1>7. Resyncing(t) /\ \A u \in Terms : (Resyncing(u)' <=> Resyncing(u)) /\ loop'[u].expected = loop[u].expected
  BY <1>0, <1>2, <1>3 DEF Resyncing
<1>8. Monitored(monitors)' = M \cup S
  <2>1. {x.gvr : x \in Started(t)} = S
    <3>1. \A g \in S : [gvr |-> g, term |-> t] \in Started(t) /\ [gvr |-> g, term |-> t].gvr = g
      BY <1>4
    <3>2. \A x \in Started(t) : x.gvr \in S
      BY <1>4
    <3> QED
      BY <3>1, <3>2
  <2>2. Monitored(monitors)' = {m.gvr : m \in {x \in monitors : x.gvr \notin S}} \cup {x.gvr : x \in Started(t)}
    BY <1>0 DEF Monitored
  <2>3. {m.gvr : m \in {x \in monitors : x.gvr \notin S}} = M \ S
    BY DEF Monitored
  <2> QED
    BY <2>1, <2>2, <2>3
<1> HIDE DEF M, S
<1>9. ASSUME ~overlap PROVE AtMostOneResync' /\ Monitoring' /\ ListsAreCurrent' /\ NoOrphanMonitor'
  <2>1. AtMostOneResync /\ Monitoring /\ ListsAreCurrent
    BY <1>9 DEF MonitorsInv
  <2>2. S = (loop[t].expected \cap Listable) \ M /\ loop[t].toStop = M \ loop[t].expected /\ M \subseteq Listable
    BY <1>0, <1>1, <2>1 DEF ListsAreCurrent, M, S, Monitored, Monitors
  <2>3. AtMostOneResync'
    BY <1>7, <2>1 DEF AtMostOneResync
  <2>4. Monitoring'
    BY <1>0, <1>7, <2>1 DEF Monitoring
  <2>5. ListsAreCurrent'
    <3>1. \A u \in Terms \ {t} : loop'[u].at \notin {"start", "add", "drain", "close"}
      BY <1>7, <2>3 DEF AtMostOneResync, Resyncing
    <3>2. l.toStop \subseteq M \cup S /\ (M \cup S) \ l.toStop = l.expected \cap Listable
      BY <1>2, <2>2
    <3> QED
      BY <1>2, <1>3, <1>8, <3>1, <3>2 DEF ListsAreCurrent
  <2>6. \A m \in monitors : m.gvr \notin S
    BY <2>2 DEF M, Monitored
  <2>7. InHand(t) = Started(t) /\ \A u \in Terms \ {t} : InHand(u)' = InHand(u)
    BY <1>0, <1>3 DEF InHand, Started
  <2>8. NoOrphanMonitor'
    BY <1>0, <2>6, <2>7 DEF MonitorsInv, NoOrphanMonitor
  <2> QED
    BY <2>3, <2>4, <2>5, <2>8
<1> QED
  BY <1>0, <1>6, <1>9 DEF MonitorsInv, NoOrphanMonitor

\* The monitors that are drained leave the map for the hands of the term.
LEMMA DrainInv ==
  ASSUME MonitorsInv, NEW t \in Terms, drainMonitors(t)
  PROVE  MonitorsInv'
<1> DEFINE M == Monitored(monitors)
           S == loop[t].toStop
           l == [loop[t] EXCEPT !.at = "close", !.drained = Drained(t)]
<1>0. /\ loop[t].at = "drain" /\ Step(t, l) /\ monitors' = monitors \ Drained(t)
      /\ UNCHANGED <<server, gvrDetails, cdc, resyncCh, running, overlap>>
  BY DEF drainMonitors, discoveryVars
<1>1. loop[t] \in LoopStates /\ monitors \subseteq Monitors /\ Drained(t) \subseteq Monitors
  BY DEF MonitorsInv, MonitorsTypeOK, Drained
<1>2. /\ l \in LoopStates /\ l.at = "close" /\ l.expected = loop[t].expected /\ l.toStop = S
      /\ l.drained = Drained(t)
  BY <1>1 DEF LoopStates
<1> HIDE DEF l
<1>3. loop' \in [Terms -> LoopStates] /\ loop'[t] = l /\ \A u \in Terms \ {t} : loop'[u] = loop[u]
  BY <1>0, <1>2, LoopFacts
<1>4. MonitorsTypeOK' /\ NoticeIsCurrent'
  BY <1>0, <1>1, <1>3 DEF MonitorsInv, MonitorsTypeOK, NoticeIsCurrent
<1>5. Resyncing(t) /\ \A u \in Terms : (Resyncing(u)' <=> Resyncing(u)) /\ loop'[u].expected = loop[u].expected
  BY <1>0, <1>2, <1>3 DEF Resyncing
<1>6. Monitored(monitors)' = M \ S /\ (S \subseteq M => S \subseteq Monitored(Drained(t)))
  BY <1>0 DEF Monitored, Drained
<1> HIDE DEF M, S
<1>7. ASSUME ~overlap PROVE AtMostOneResync' /\ Monitoring' /\ ListsAreCurrent'
  <2>1. AtMostOneResync /\ Monitoring /\ ListsAreCurrent
    BY <1>7 DEF MonitorsInv
  <2>2. S \subseteq M /\ M \ S = loop[t].expected \cap Listable
    BY <1>0, <2>1 DEF ListsAreCurrent, M, S
  <2>3. AtMostOneResync'
    BY <1>5, <2>1 DEF AtMostOneResync
  <2>4. Monitoring'
    BY <1>0, <1>5, <2>1 DEF Monitoring
  <2>5. ListsAreCurrent'
    <3>1. \A u \in Terms \ {t} : loop'[u].at \notin {"start", "add", "drain", "close"}
      BY <1>5, <2>3 DEF AtMostOneResync, Resyncing
    <3>2. S \subseteq Monitored(Drained(t)) /\ Monitored(l.drained) = Monitored(Drained(t))
      BY <1>2, <1>6, <2>2
    <3>3. Monitored(loop'[t].drained) = Monitored(Drained(t))
      BY <1>3, <3>2
    <3> QED
      BY <1>2, <1>3, <1>6, <2>2, <3>1, <3>2, <3>3 DEF ListsAreCurrent
  <2> QED
    BY <2>3, <2>4, <2>5
<1>8. NoOrphanMonitor'
  <2>1. InHand(t)' = Drained(t) /\ InHand(t) = {} /\ \A u \in Terms \ {t} : InHand(u)' = InHand(u)
    BY <1>0, <1>2, <1>3 DEF InHand, Started
  <2> QED
    BY <1>0, <2>1 DEF MonitorsInv, NoOrphanMonitor
<1> QED
  BY <1>0, <1>4, <1>7, <1>8 DEF MonitorsInv

\* The resync is over: what was in the hands of the term no longer runs.
LEMMA CloseInv ==
  ASSUME MonitorsInv, NEW t \in Terms, closeMonitors(t)
  PROVE  MonitorsInv'
<1> DEFINE l == Outside("select", loop[t].live)
<1>0. /\ loop[t].at = "close" /\ Step(t, l) /\ running' = running \ loop[t].drained
      /\ UNCHANGED <<server, gvrDetails, cdc, resyncCh, monitors, overlap>>
  BY DEF closeMonitors, discoveryVars
<1>1. l \in LoopStates /\ l.at = "select"
  BY DEF MonitorsInv, MonitorsTypeOK, LoopStates, Outside
<1> HIDE DEF l
<1>2. loop' \in [Terms -> LoopStates] /\ loop'[t] = l /\ \A u \in Terms \ {t} : loop'[u] = loop[u]
  BY <1>0, <1>1, LoopFacts
<1>3. MonitorsTypeOK' /\ NoticeIsCurrent'
  BY <1>0, <1>2 DEF MonitorsInv, MonitorsTypeOK, NoticeIsCurrent
<1>4. Resyncing(t) /\ ~Resyncing(t)' /\ \A u \in Terms \ {t} : Resyncing(u)' <=> Resyncing(u)
  BY <1>0, <1>1, <1>2 DEF Resyncing
<1>5. Monitored(monitors)' = Monitored(monitors)
  BY <1>0 DEF Monitored
<1>6. ASSUME ~overlap PROVE AtMostOneResync' /\ Monitoring' /\ ListsAreCurrent'
  <2>1. AtMostOneResync /\ Monitoring /\ ListsAreCurrent
    BY <1>6 DEF MonitorsInv
  <2>2. Monitored(monitors) = loop[t].expected \cap Listable
    BY <1>0, <2>1 DEF ListsAreCurrent
  <2>3. \A u \in Terms : ~Resyncing(u)'
    BY <1>4, <2>1 DEF AtMostOneResync
  <2>4. AtMostOneResync' /\ ListsAreCurrent'
    BY <2>3 DEF AtMostOneResync, ListsAreCurrent, Resyncing
  <2>5. Informed(Monitored(monitors), resyncCh, gvrDetails, cdc)
    BY <1>4, <2>1, <2>2 DEF Monitoring
  <2>6. Monitoring'
    BY <1>0, <1>5, <2>3, <2>5 DEF Monitoring
  <2> QED
    BY <2>4, <2>6
<1>7. NoOrphanMonitor'
  <2>1. InHand(t) = loop[t].drained /\ \A u \in Terms \ {t} : InHand(u)' = InHand(u)
    BY <1>0, <1>2 DEF InHand, Started
  <2> QED
    BY <1>0, <2>1 DEF MonitorsInv, NoOrphanMonitor
<1> QED
  BY <1>0, <1>3, <1>6, <1>7 DEF MonitorsInv

\* The process starts anew.
LEMMA CrashInv ==
  ASSUME MonitorsInv, NEW t \in Terms, closeNil(t)
  PROVE  MonitorsInv'
<1>0. /\ server' = server /\ gvrDetails' = {} /\ cdc' = [at |-> "query", lists |-> {}, old |-> {}]
      /\ resyncCh' = FALSE /\ monitors' = {} /\ running' = {} /\ overlap' = FALSE
      /\ loop' = [u \in Terms |-> IF loop[u].at = "none" THEN loop[u] ELSE Outside("ended", FALSE)]
  BY DEF closeNil, DiscoveryRestarts
<1>1. Outside("ended", FALSE) \in LoopStates /\ Outside("ended", FALSE).at = "ended"
  BY DEF Outside, LoopStates
<1>2. loop \in [Terms -> LoopStates] /\ server \subseteq Gvrs
  BY DEF MonitorsInv, MonitorsTypeOK
<1>3. cdc' \in CdcStates /\ cdc'.at = "query"
  BY <1>0 DEF CdcStates
<1>4. loop' \in [Terms -> LoopStates] /\ \A u \in Terms : loop'[u].at \in {"none", "ended"}
  BY <1>0, <1>1, <1>2
<1>5. MonitorsTypeOK' /\ NoticeIsCurrent' /\ NoOrphanMonitor'
  BY <1>0, <1>2, <1>3, <1>4 DEF MonitorsTypeOK, NoticeIsCurrent, NoOrphanMonitor
<1>6. AtMostOneResync' /\ ListsAreCurrent' /\ Monitoring'
  BY <1>0, <1>4 DEF AtMostOneResync, Resyncing, Monitoring, Informed, Monitored, ListsAreCurrent
<1> QED
  BY <1>5, <1>6 DEF MonitorsInv

LEMMA StepInv ==
  ASSUME MonitorsInv, [Next]_vars
  PROVE  MonitorsInv'
<1>1. /\ Outside("select", TRUE) \in LoopStates /\ Outside("select", TRUE).at = "select"
      /\ Outside("stuck", FALSE) \in LoopStates /\ Outside("stuck", FALSE).at = "stuck"
  BY DEF Outside, LoopStates
<1>2. ASSUME NEW t \in Terms, BeginTerm(t) PROVE MonitorsInv'
  <2>1. ~Resyncing(t)
    BY <1>2 DEF BeginTerm, Resyncing
  <2> QED
    BY <1>1, <1>2, <2>1, OutsideInv DEF BeginTerm
<1>3. ASSUME NEW t \in Terms, drainAllMonitors(t) PROVE MonitorsInv'
  <2>1. ~Resyncing(t)
    BY <1>3 DEF drainAllMonitors, Resyncing
  <2> QED
    BY <1>1, <1>3, <2>1, OutsideInv DEF drainAllMonitors
<1>4. ASSUME UNCHANGED vars PROVE MonitorsInv'
  <2>1. UNCHANGED <<server, gvrDetails, cdc, resyncCh, loop, monitors, running, overlap>>
    BY <1>4 DEF vars, discoveryVars, monitorVars
  <2> QED
    BY <2>1 DEF MonitorsInv, MonitorsTypeOK, NoticeIsCurrent, AtMostOneResync, Resyncing, Monitoring, Monitored,
       ListsAreCurrent, NoOrphanMonitor, InHand, Started
<1> QED
  BY <1>2, <1>3, <1>4, DiscoveryInv, EndTermInv, ResyncInv, CompareInv, StartInv, AddInv, DrainInv, CloseInv, CrashInv
     DEF Next, LoopStep

-----------------------------------------------------------------------------
(* Theorems *)

\* The inductive invariant.
THEOREM MonitorsInvariant == Spec => []MonitorsInv
<1>1. MonitorsInv /\ [Next]_vars => MonitorsInv'
  BY StepInv
<1> QED
  BY <1>1, InitInv, PTL DEF Spec

\* The monitors are those of the published types whenever discovery and the loop
\* are at rest: the channel of one slot, the send that gives up when it is full
\* and the comparison by size lose no change.
THEOREM MonitorsAreInformed == Spec => []MonitorsFollowDiscovery
<1>1. MonitorsInv => MonitorsFollowDiscovery
  BY DEF MonitorsInv, Monitoring, Informed, MonitorsFollowDiscovery
<1> QED
  BY <1>1, MonitorsInvariant, PTL

\* Every monitor that runs is in ctrl.monitors or in the hands of the resync that
\* started it or drained it, so long as no two terms were in resyncMonitors
\* together: what compareMonitors found is still so when addMonitors and
\* drainMonitors act on it, although each of the three takes the lock anew and
\* monitors are started and closed between the holds.
THEOREM MonitorsAreReachable == Spec => []NoOrphanMonitor
<1>1. MonitorsInv => NoOrphanMonitor
  BY DEF MonitorsInv
<1> QED
  BY <1>1, MonitorsInvariant, PTL

\* What a resync is to close was in ctrl.monitors when it was drained.
ClosesWhatItFinds ==
  ~overlap => \A t \in Terms : loop[t].at = "close" => loop[t].toStop \subseteq Monitored(loop[t].drained)

\* monitor.close is never called on nil by terms that do not overlap: closeNil,
\* the end of the process, is out of reach.
THEOREM NoNilMonitor == Spec => []ClosesWhatItFinds
<1>1. MonitorsInv => ClosesWhatItFinds
  BY DEF MonitorsInv, ListsAreCurrent, ClosesWhatItFinds
<1> QED
  BY <1>1, MonitorsInvariant, PTL

-----------------------------------------------------------------------------
(* The pipeline *)

KeptFns == [fn : Fns, expiry : Nat]
Computations == [fn : Fns, at : Nat]

PipelineTypeOK ==
  /\ now \in Nat
  /\ object \in [rv : 1..MaxRv, gone : BOOLEAN]
  /\ store \in [Procs -> 0..MaxRv] /\ hasSynced \in [Procs -> BOOLEAN] /\ wentBack \in BOOLEAN
  /\ tasks \in [Procs -> Seq(Fns)]
  /\ worker \in [Procs -> [leader : BOOLEAN, queue : Seq(KeptFns)]]
  /\ lease \in Procs \cup {None}
  /\ isWriteLeader \in [Procs -> Nat] /\ ending \in [Procs -> Seq(Nat)]
  /\ casts \in [Procs -> Seq(BOOLEAN)] /\ swapped \in BOOLEAN
  /\ cache \in [1..MaxRv -> Fns \cup {None}] /\ snapshot \in 0..MaxRv
  /\ computed \in [Procs -> SUBSET Computations] /\ held \in [Procs -> SUBSET Nat]

\* The writer fn was made from what object o really was; b: a list was stale.
Sound(fn, o, b) ==
  /\ fn.new <= o.rv /\ (~b => fn.old <= fn.new)
  /\ fn.kind = "snapshot" => o.gone

\* It writes something.
SoundWriter(fn, o, b) == Sound(fn, o, b) /\ ~IsNil(fn)

InformersSound ==
  \A p \in Procs :
    /\ store[p] <= object.rv
    /\ ~hasSynced[p] => store[p] = 0
    /\ \A i \in 1..Len(tasks[p]) : Sound(tasks[p][i], object, wentBack)

WritersSound ==
  /\ \A p \in Procs : \A i \in 1..Len(worker[p].queue) : SoundWriter(worker[p].queue[i].fn, object, wentBack)
  /\ \A rv \in 1..MaxRv :
       cache[rv] # None =>
         SoundWriter(cache[rv], object, wentBack) /\ cache[rv].kind = "patch" /\ StoreKey(cache[rv]) = rv
  /\ snapshot # 0 => object.gone /\ snapshot <= object.rv

\* What the last broadcast says, received or not.
LastCast(p) == IF casts[p] = <<>> THEN worker[p].leader ELSE casts[p][Len(casts[p])]

LeadersSound ==
  \A p \in Procs :
    /\ worker[p].leader => worker[p].queue = <<>>
    /\ isWriteLeader[p] = Len(ending[p]) + (IF lease = p THEN 1 ELSE 0)
    /\ ~swapped => (LastCast(p) <=> isWriteLeader[p] > 0)

\* p writes, and will until L after t.
Steady(p, t) ==
  /\ worker[p].leader /\ casts[p] = <<>>
  /\ lease = p \/ \E i \in 1..Len(ending[p]) : ending[p][i] >= t + L

\* Who had the lease at tick t, less than L ago, writes.
HoldersWrite ==
  ~swapped => \A p \in Procs : \A t \in held[p] : t < now /\ (now < t + L => Steady(p, t))

\* What p computed as c is in its queue.
Waiting(p, c) == \E i \in 1..Len(worker[p].queue) : worker[p].queue[i].fn = c.fn /\ worker[p].queue[i].expiry = c.at + L

\* L or more lies between the lease at t and the computation c after it, and more
\* than L between c and the lease after it.
Apart(t, c) == ~(c.at < t + L /\ t <= c.at + L)

\* What is not stored is kept or has expired, and its process has not had the lease
\* near it.
NothingLost ==
  ~swapped => \A p \in Procs : \A c \in computed[p] :
    Stored(c.fn) \/ ((Waiting(p, c) \/ now > c.at + L) /\ \A t \in held[p] : Apart(t, c))

PipelineInv == PipelineTypeOK /\ InformersSound /\ WritersSound /\ LeadersSound /\ HoldersWrite /\ NothingLost

-----------------------------------------------------------------------------
(* Lemmas about the pipeline *)

\* A set of positions that is not empty has a last one.
LEMMA LastPosition ==
  ASSUME NEW n \in Nat, NEW S \in SUBSET (1..n), S # {}
  PROVE  Max(S) \in S
<1> DEFINE R == OpToRel(<, Nat)
           T == {n - x : x \in S}
<1>1. \A x, y \in Nat : <<x, y>> \in R <=> x < y
  BY DEF OpToRel
<1>2. IsWellFoundedOn(R, Nat)
  BY NatLessThanWellFounded, Zenon
<1> HIDE DEF R
<1>3. \A x \in S : x \in Nat /\ n - x \in Nat
  OBVIOUS
<1>4. T \subseteq Nat /\ T # {}
  BY <1>3
<1>5. PICK t \in T : \A y \in T : ~(<<y, t>> \in R)
  <2> HIDE DEF T
  <2> QED
    BY <1>2, <1>4, WFMin, Zenon
<1>6. PICK x \in S : t = n - x
  OBVIOUS
<1>7. ASSUME NEW y \in S PROVE x >= y
  <2>1. n - y \in T /\ n - y \in Nat /\ t \in Nat
    BY <1>3, <1>4
  <2>2. ~(n - y < t)
    BY <1>1, <1>5, <2>1
  <2> QED
    BY <1>3, <1>6, <2>1, <2>2
<1>8. \E m \in S : \A y \in S : m >= y
  BY <1>7
<1> QED
  BY <1>8 DEF Max

LEMMA StoreKeyType ==
  ASSUME NEW fn \in Fns
  PROVE  StoreKey(fn) \in 1..MaxRv
  BY PipelineAssumption DEF Fns, StoreKey, ChooseResourceVersion

\* What is stored stays, each of fns is stored or refused, and nothing else is.
LEMMA StoreAllStep ==
  ASSUME PipelineTypeOK, NEW fns \in Seq(Fns), StoreAll(fns)
  PROVE  /\ cache' \in [1..MaxRv -> Fns \cup {None}] /\ snapshot' \in 0..MaxRv
         /\ \A fn \in Fns : Stored(fn) => Stored(fn)'
         /\ \A fn \in Fns : (\E j \in 1..Len(fns) : fns[j] = fn) => Stored(fn)'
         /\ \A rv \in 1..MaxRv :
              \/ cache'[rv] = cache[rv]
              \/ \E j \in 1..Len(fns) : cache'[rv] = fns[j] /\ fns[j].kind = "patch" /\ StoreKey(fns[j]) = rv
         /\ \/ snapshot' = snapshot
            \/ \E j \in 1..Len(fns) : fns[j].kind = "snapshot" /\ snapshot' = fns[j].new
<1>0. Len(fns) \in Nat /\ DOMAIN fns = 1..Len(fns) /\ \A j \in 1..Len(fns) : fns[j] \in Fns
  OBVIOUS
<1> DEFINE done(refused) == {j \in DOMAIN fns : fns[j] \notin refused}
           keyed(refused, rv) == {j \in done(refused) : fns[j].kind = "patch" /\ StoreKey(fns[j]) = rv}
           snaps(refused) == {j \in done(refused) : fns[j].kind = "snapshot"}
<1>1. PICK refused \in SUBSET ToSet(fns) :
        /\ cache' = [rv \in 1..MaxRv |-> IF keyed(refused, rv) = {} THEN cache[rv] ELSE fns[Max(keyed(refused, rv))]]
        /\ snapshot' = IF snaps(refused) = {} THEN snapshot ELSE fns[Max(snaps(refused))].new
        /\ failed' = failed \cup refused
  BY DEF StoreAll
<1> DEFINE K(rv) == keyed(refused, rv)
           Z == snaps(refused)
<1>2. /\ \A rv \in 1..MaxRv : K(rv) # {} => Max(K(rv)) \in K(rv)
      /\ Z # {} => Max(Z) \in Z
  <2>1. \A rv \in 1..MaxRv : K(rv) \in SUBSET (1..Len(fns))
    BY <1>0
  <2>2. Z \in SUBSET (1..Len(fns))
    BY <1>0
  <2> HIDE DEF K, Z
  <2> QED
    BY <1>0, <2>1, <2>2, LastPosition
<1>3. \A rv : \A j \in K(rv) : j \in 1..Len(fns) /\ fns[j] \in Fns /\ fns[j].kind = "patch" /\ StoreKey(fns[j]) = rv
  BY <1>0
<1>4. \A j \in Z : j \in 1..Len(fns) /\ fns[j] \in Fns /\ fns[j].kind = "snapshot"
  BY <1>0
<1>5. \A j \in 1..Len(fns) :
        \/ fns[j] \in refused
        \/ fns[j].kind = "patch" /\ j \in K(StoreKey(fns[j]))
        \/ fns[j].kind = "snapshot" /\ j \in Z
  BY <1>0 DEF Fns
<1>6. /\ \A rv \in 1..MaxRv : cache'[rv] = IF K(rv) = {} THEN cache[rv] ELSE fns[Max(K(rv))]
      /\ cache' = [rv \in 1..MaxRv |-> IF K(rv) = {} THEN cache[rv] ELSE fns[Max(K(rv))]]
      /\ snapshot' = IF Z = {} THEN snapshot ELSE fns[Max(Z)].new
      /\ failed' = failed \cup refused
  BY <1>1
<1> HIDE DEF K, Z
<1>7. \A rv \in 1..MaxRv :
        \/ cache'[rv] = cache[rv] /\ K(rv) = {}
        \/ \E j \in 1..Len(fns) :
             cache'[rv] = fns[j] /\ fns[j] \in Fns /\ fns[j].kind = "patch" /\ StoreKey(fns[j]) = rv
  BY <1>2, <1>3, <1>6
<1>8. \/ snapshot' = snapshot /\ Z = {}
      \/ \E j \in 1..Len(fns) : fns[j] \in Fns /\ fns[j].kind = "snapshot" /\ snapshot' = fns[j].new
  BY <1>2, <1>4, <1>6
<1>9. cache' \in [1..MaxRv -> Fns \cup {None}]
  <2>1. cache \in [1..MaxRv -> Fns \cup {None}]
    BY DEF PipelineTypeOK
  <2>2. \A rv \in 1..MaxRv : cache'[rv] \in Fns \cup {None}
    BY <1>7, <2>1
  <2> QED
    BY <1>6, <2>2
<1>10. snapshot' \in 0..MaxRv
  <2>1. snapshot \in 0..MaxRv
    BY DEF PipelineTypeOK
  <2>2. \A fn \in Fns : fn.new \in 1..MaxRv
    BY DEF Fns
  <2> QED
    BY <1>8, <2>1, <2>2
<1>11. ASSUME NEW fn \in Fns, Stored(fn) PROVE Stored(fn)'
  <2>1. CASE fn \in failed
    BY <1>6, <2>1 DEF Stored
  <2>2. CASE fn.kind = "snapshot" /\ snapshot # 0
    <3>1. \A f \in Fns : f.new # 0
      BY DEF Fns
    <3>2. snapshot' # 0
      BY <1>8, <2>2, <3>1
    <3> QED
      BY <2>2, <3>2 DEF Stored
  <2>3. CASE fn.kind = "patch" /\ cache[StoreKey(fn)] # None
    <3>1. cache'[StoreKey(fn)] # None
      BY <1>7, <2>3, StoreKeyType, PipelineAssumption
    <3> QED
      BY <2>3, <3>1 DEF Stored
  <2> QED
    BY <1>11, <2>1, <2>2, <2>3 DEF Stored
<1>12. ASSUME NEW fn \in Fns, NEW j \in 1..Len(fns), fns[j] = fn PROVE Stored(fn)'
  <2>1. CASE fn \in refused
    BY <1>6, <2>1 DEF Stored
  <2>2. CASE fn.kind = "patch" /\ j \in K(StoreKey(fn))
    <3>1. cache'[StoreKey(fn)] # None
      BY <1>7, <2>2, StoreKeyType, PipelineAssumption
    <3> QED
      BY <2>2, <3>1 DEF Stored
  <2>3. CASE fn.kind = "snapshot" /\ j \in Z
    <3>1. \A f \in Fns : f.new # 0
      BY DEF Fns
    <3>2. snapshot' # 0
      BY <1>8, <2>3, <3>1
    <3> QED
      BY <2>3, <3>2 DEF Stored
  <2> QED
    BY <1>5, <1>12, <2>1, <2>2, <2>3
<1> QED
  BY <1>7, <1>8, <1>9, <1>10, <1>11, <1>12

\* What is true of the object stays true.
LEMMA SoundStays ==
  ASSUME NEW fn \in Fns, NEW o \in [rv : 1..MaxRv, gone : BOOLEAN], NEW r \in [rv : 1..MaxRv, gone : BOOLEAN],
         NEW b \in BOOLEAN, NEW c \in BOOLEAN, o.rv <= r.rv, o.gone => r.gone, b => c, Sound(fn, o, b)
  PROVE  Sound(fn, r, c)
<1>1. fn.new \in Nat /\ o.rv \in Nat /\ r.rv \in Nat
  BY DEF Fns
<1> QED
  BY <1>1 DEF Sound

\* What a step has to do so that nothing is lost.
LEMMA LostStays ==
  ASSUME PipelineTypeOK, NothingLost, UNCHANGED <<now, held>>, ~swapped' => ~swapped,
         computed' \in [Procs -> SUBSET Computations],
         \A fn \in Fns : Stored(fn) => Stored(fn)',
         \A p \in Procs : \A c \in Computations :
           Waiting(p, c) => Stored(c.fn)' \/ Waiting(p, c)' \/ now > c.at + L,
         ~swapped' => \A p \in Procs : \A c \in computed'[p] \ computed[p] :
           Stored(c.fn)' \/ (Waiting(p, c)' /\ \A t \in held[p] : Apart(t, c))
  PROVE  NothingLost'
<1> SUFFICES ASSUME ~swapped', NEW p \in Procs, NEW c \in computed'[p]
             PROVE  Stored(c.fn)' \/ ((Waiting(p, c)' \/ now > c.at + L) /\ \A t \in held[p] : Apart(t, c))
  BY DEF NothingLost, Apart
<1>1. c \in Computations /\ c.fn \in Fns
  BY DEF Computations
<1>2. CASE c \in computed[p]
  BY <1>1, <1>2 DEF NothingLost
<1>3. CASE c \notin computed[p]
  BY <1>3
<1> QED
  BY <1>2, <1>3

\* What each part of the invariant depends on.
LEMMA StoredStays == ASSUME UNCHANGED cacheVars, NEW fn PROVE Stored(fn)' <=> Stored(fn)
  BY DEF cacheVars, Stored

LEMMA WaitingStays == ASSUME UNCHANGED worker, NEW p, NEW c PROVE Waiting(p, c)' <=> Waiting(p, c)
  BY DEF Waiting

LEMMA SteadyStays == ASSUME UNCHANGED <<worker, casts, lease, ending>>, NEW p, NEW t PROVE Steady(p, t)' <=> Steady(p, t)
  BY DEF Steady

LEMMA HoldersStay ==
  ASSUME HoldersWrite, UNCHANGED <<now, held>>, ~swapped' => ~swapped,
         ~swapped' => \A p \in Procs : \A t \in held[p] : now < t + L /\ Steady(p, t) => Steady(p, t)'
  PROVE  HoldersWrite'
  BY DEF HoldersWrite

\* Steps that leave the worker, its computations and the elector alone.
LEMMA HistoryStays ==
  ASSUME PipelineTypeOK, HoldersWrite, NothingLost,
         UNCHANGED <<now, worker, casts, lease, ending, held, computed, swapped, cache, snapshot, failed>>
  PROVE  HoldersWrite' /\ NothingLost'
<1>1. /\ \A fn : Stored(fn)' <=> Stored(fn)
      /\ \A p, c : Waiting(p, c)' <=> Waiting(p, c)
      /\ \A p, t : Steady(p, t)' <=> Steady(p, t)
  BY StoredStays, WaitingStays, SteadyStays DEF cacheVars
<1>2. computed' \in [Procs -> SUBSET Computations] /\ \A p \in Procs : computed'[p] \ computed[p] = {}
  BY DEF PipelineTypeOK
<1>3. HoldersWrite'
  BY <1>1, HoldersStay
<1>4. NothingLost'
  BY <1>1, <1>2, LostStays
<1> QED
  BY <1>3, <1>4

LEMMA LeadersStay ==
  ASSUME LeadersSound, UNCHANGED <<worker, casts, lease, ending, isWriteLeader, swapped>>
  PROVE  LeadersSound'
  BY DEF LeadersSound, LastCast

LEMMA WritersStay ==
  ASSUME PipelineTypeOK, WritersSound, UNCHANGED <<worker, cache, snapshot>>,
         object' \in [rv : 1..MaxRv, gone : BOOLEAN], object.rv <= object'.rv, object.gone => object'.gone,
         wentBack' \in BOOLEAN, wentBack => wentBack'
  PROVE  WritersSound'
<1>0. object \in [rv : 1..MaxRv, gone : BOOLEAN] /\ wentBack \in BOOLEAN /\ snapshot \in Nat
      /\ object.rv \in Nat /\ object'.rv \in Nat
  BY DEF PipelineTypeOK
<1>1. \A fn \in Fns : SoundWriter(fn, object, wentBack) => SoundWriter(fn, object', wentBack')
  BY <1>0, SoundStays DEF SoundWriter
<1>3. \A p \in Procs : \A i \in 1..Len(worker[p].queue) : worker[p].queue[i].fn \in Fns
  <2> SUFFICES ASSUME NEW p \in Procs, NEW i \in 1..Len(worker[p].queue) PROVE worker[p].queue[i].fn \in Fns
    OBVIOUS
  <2>1. worker[p].queue \in Seq(KeptFns)
    BY DEF PipelineTypeOK
  <2>2. worker[p].queue[i] \in KeptFns
    BY <2>1
  <2> QED
    BY <2>2 DEF KeptFns
<1>4. \A rv \in 1..MaxRv : cache[rv] # None => cache[rv] \in Fns
  BY DEF PipelineTypeOK
<1>6. \A p \in Procs : \A i \in 1..Len(worker[p].queue) : SoundWriter(worker[p].queue[i].fn, object', wentBack')
  BY <1>1, <1>3 DEF WritersSound
<1>7. \A rv \in 1..MaxRv :
        cache[rv] # None =>
          SoundWriter(cache[rv], object', wentBack') /\ cache[rv].kind = "patch" /\ StoreKey(cache[rv]) = rv
  BY <1>1, <1>4 DEF WritersSound
<1>8. snapshot # 0 => object'.gone /\ snapshot <= object'.rv
  BY <1>0 DEF WritersSound
<1> QED
  BY <1>6, <1>7, <1>8 DEF WritersSound

LEMMA TaskTypes ==
  ASSUME PipelineTypeOK, NEW p \in Procs
  PROVE  /\ tasks[p] \in Seq(Fns) /\ Len(tasks[p]) \in Nat /\ \A i \in 1..Len(tasks[p]) : tasks[p][i] \in Fns
         /\ worker[p] \in [leader : BOOLEAN, queue : Seq(KeptFns)]
         /\ worker[p].leader \in BOOLEAN /\ worker[p].queue \in Seq(KeptFns) /\ Len(worker[p].queue) \in Nat
         /\ \A i \in 1..Len(worker[p].queue) :
              /\ worker[p].queue[i] \in KeptFns /\ worker[p].queue[i].fn \in Fns /\ worker[p].queue[i].expiry \in Nat
<1>1. tasks[p] \in Seq(Fns) /\ worker[p] \in [leader : BOOLEAN, queue : Seq(KeptFns)]
  BY DEF PipelineTypeOK
<1>2. worker[p].leader \in BOOLEAN /\ worker[p].queue \in Seq(KeptFns)
  BY <1>1
<1>3. Len(tasks[p]) \in Nat /\ \A i \in 1..Len(tasks[p]) : tasks[p][i] \in Fns
  BY <1>1
<1>4. Len(worker[p].queue) \in Nat /\ \A i \in 1..Len(worker[p].queue) : worker[p].queue[i] \in KeptFns
  BY <1>2
<1> QED
  BY <1>1, <1>2, <1>3, <1>4 DEF KeptFns

LEMMA WriteInv == ASSUME PipelineInv, Write PROVE PipelineInv'
<1> USE DEF informerVars, leaderVars, cacheVars
<1>0. /\ PipelineTypeOK /\ InformersSound /\ WritersSound /\ LeadersSound /\ HoldersWrite /\ NothingLost
      /\ UNCHANGED <<now, store, hasSynced, wentBack, tasks, worker, lease, isWriteLeader, ending, held, casts, swapped,
                     cache, snapshot, failed, computed>>
  BY DEF PipelineInv, Write
<1>1. object \in [rv : 1..MaxRv, gone : BOOLEAN] /\ wentBack \in BOOLEAN
  BY <1>0 DEF PipelineTypeOK
<1>2. object' \in [rv : 1..MaxRv, gone : BOOLEAN] /\ object.rv <= object'.rv /\ (object.gone => object'.gone)
  <2>1. CASE object.rv < MaxRv /\ object' = [object EXCEPT !.rv = @ + 1]
    <3>1. object = [rv |-> object.rv, gone |-> object.gone] /\ object.rv \in 1..MaxRv /\ object.gone \in BOOLEAN
      BY <1>1
    <3>2. object' = [rv |-> object.rv + 1, gone |-> object.gone]
      BY <2>1, <3>1
    <3>3. object.rv + 1 \in 1..MaxRv
      BY <2>1, <3>1, PipelineAssumption
    <3> QED
      BY <3>1, <3>2, <3>3
  <2>2. CASE object' = [object EXCEPT !.gone = TRUE]
    <3>1. object = [rv |-> object.rv, gone |-> object.gone] /\ object.rv \in 1..MaxRv
      BY <1>1
    <3>2. object' = [rv |-> object.rv, gone |-> TRUE]
      BY <2>2, <3>1
    <3>3. object.rv <= object.rv
      BY <3>1, PipelineAssumption
    <3> QED
      BY <3>1, <3>2, <3>3
  <2> QED
    BY <2>1, <2>2 DEF Write
<1>3. PipelineTypeOK'
  BY <1>0, <1>2 DEF PipelineTypeOK
<1>4. WritersSound'
  BY <1>0, <1>1, <1>2, WritersStay
<1>5. InformersSound'
  <2> SUFFICES ASSUME NEW p \in Procs
               PROVE  /\ store[p] <= object'.rv
                      /\ ~hasSynced[p] => store[p] = 0
                      /\ \A i \in 1..Len(tasks[p]) : Sound(tasks[p][i], object', wentBack)
    BY <1>0 DEF InformersSound
  <2>1. store[p] \in Nat /\ object.rv \in Nat /\ object'.rv \in Nat
    BY <1>0, <1>1, <1>2 DEF PipelineTypeOK
  <2>2. store[p] <= object.rv /\ (~hasSynced[p] => store[p] = 0)
        /\ \A i \in 1..Len(tasks[p]) : Sound(tasks[p][i], object, wentBack)
    BY <1>0 DEF InformersSound
  <2>3. \A i \in 1..Len(tasks[p]) : Sound(tasks[p][i], object', wentBack)
    BY <1>0, <1>1, <1>2, <2>2, TaskTypes, SoundStays
  <2> QED
    BY <1>2, <2>1, <2>2, <2>3
<1>6. LeadersSound'
  BY <1>0, LeadersStay
<1>7. HoldersWrite' /\ NothingLost'
  BY <1>0, HistoryStays
<1> QED
  BY <1>3, <1>4, <1>5, <1>6, <1>7 DEF PipelineInv

\* The task that set hands to the worker, if it hands one.
LEMMA SetTask ==
  ASSUME PipelineTypeOK, InformersSound, NEW p \in Procs, NEW new \in 0..MaxRv, set(p, new),
         new <= object.rv, new = 0 => object.gone, ~wentBack' => new = 0 \/ store[p] <= new
  PROVE  /\ tasks' \in [Procs -> Seq(Fns)] /\ \A q \in Procs : q # p => tasks'[q] = tasks[q]
         /\ \/ tasks'[p] = tasks[p]
            \/ \E fn \in Fns : /\ tasks'[p] = Append(tasks[p], fn)
                               /\ fn.old = store[p] /\ store[p] # 0 /\ Sound(fn, object, wentBack')
<1> DEFINE old == store[p]
<1>0. /\ tasks \in [Procs -> Seq(Fns)] /\ tasks[p] \in Seq(Fns) /\ old \in 0..MaxRv /\ object.rv \in 1..MaxRv
      /\ old <= object.rv
  BY DEF PipelineTypeOK, InformersSound
<1>1. CASE old # 0 /\ new # 0
  <2>1. tasks' = [tasks EXCEPT ![p] = Append(tasks[p], Patch(old, new))]
    BY <1>1 DEF set, processSwapResult
  <2>2. Patch(old, new) \in Fns /\ Patch(old, new).old = old /\ Patch(old, new).new = new /\ Patch(old, new).kind = "patch"
    <3>1. old \in 1..MaxRv /\ new \in 1..MaxRv
      BY <1>0, <1>1, PipelineAssumption
    <3> QED
      BY <3>1 DEF Patch, Fns
  <2>3. Sound(Patch(old, new), object, wentBack')
    BY <1>1, <2>2 DEF Sound
  <2> HIDE DEF old
  <2>4. Append(tasks[p], Patch(old, new)) \in Seq(Fns)
    BY <1>0, <2>2
  <2>5. tasks' \in [Procs -> Seq(Fns)] /\ tasks'[p] = Append(tasks[p], Patch(old, new))
        /\ \A q \in Procs : q # p => tasks'[q] = tasks[q]
    BY <1>0, <2>1, <2>4
  <2> QED
    BY <1>1, <2>2, <2>3, <2>5 DEF old
<1>2. CASE old # 0 /\ new = 0
  <2>1. tasks' = [tasks EXCEPT ![p] = Append(tasks[p], Snapshot(old))]
    BY <1>2 DEF set, processSwapResult
  <2>2. Snapshot(old) \in Fns /\ Snapshot(old).old = old /\ Snapshot(old).new = old /\ Snapshot(old).kind = "snapshot"
    <3>1. old \in 1..MaxRv
      BY <1>0, <1>2, PipelineAssumption
    <3> QED
      BY <3>1 DEF Snapshot, Fns
  <2>3. Sound(Snapshot(old), object, wentBack')
    <3>1. old <= old
      BY <1>0
    <3> QED
      BY <1>0, <1>2, <2>2, <3>1 DEF Sound
  <2> HIDE DEF old
  <2>4. Append(tasks[p], Snapshot(old)) \in Seq(Fns)
    BY <1>0, <2>2
  <2>5. tasks' \in [Procs -> Seq(Fns)] /\ tasks'[p] = Append(tasks[p], Snapshot(old))
        /\ \A q \in Procs : q # p => tasks'[q] = tasks[q]
    BY <1>0, <2>1, <2>4
  <2> QED
    BY <1>2, <2>2, <2>3, <2>5 DEF old
<1>3. CASE old = 0
  <2>1. tasks' = [tasks EXCEPT ![p] = tasks[p]]
    BY <1>3 DEF set, processSwapResult
  <2> QED
    BY <1>0, <2>1
<1> QED
  BY <1>1, <1>2, <1>3

LEMMA SetInv ==
  ASSUME PipelineInv, NEW p \in Procs, NEW new \in 0..MaxRv, set(p, new),
         new <= object.rv, new = 0 => object.gone, ~hasSynced[p] \/ store[p] # 0,
         hasSynced' = [hasSynced EXCEPT ![p] = TRUE],
         wentBack' = (wentBack \/ (new # 0 /\ new < store[p])),
         UNCHANGED <<now, object, worker, leaderVars, casts, cacheVars, computed, swapped>>
  PROVE  PipelineInv'
<1> USE DEF leaderVars, cacheVars
<1>0. /\ PipelineTypeOK /\ InformersSound /\ WritersSound /\ LeadersSound /\ HoldersWrite /\ NothingLost
      /\ UNCHANGED <<lease, isWriteLeader, ending, held, cache, snapshot, failed>>
  BY DEF PipelineInv
<1>1. /\ object \in [rv : 1..MaxRv, gone : BOOLEAN] /\ object.rv \in Nat /\ wentBack \in BOOLEAN /\ wentBack' \in BOOLEAN
      /\ store \in [Procs -> 0..MaxRv] /\ store[p] \in Nat /\ new \in Nat /\ hasSynced \in [Procs -> BOOLEAN]
      /\ wentBack => wentBack'
  BY <1>0 DEF PipelineTypeOK
<1>2. ~wentBack' => ~wentBack /\ (new = 0 \/ store[p] <= new)
  <2>1. ~wentBack' => ~wentBack /\ ~(new # 0 /\ new < store[p])
    BY Zenon
  <2>2. ~(new # 0 /\ new < store[p]) => new = 0 \/ store[p] <= new
    BY <1>1
  <2> QED
    BY <2>1, <2>2, Zenon
<1>3. /\ tasks' \in [Procs -> Seq(Fns)] /\ \A q \in Procs : q # p => tasks'[q] = tasks[q]
      /\ \/ tasks'[p] = tasks[p]
         \/ \E fn \in Fns : /\ tasks'[p] = Append(tasks[p], fn)
                            /\ fn.old = store[p] /\ store[p] # 0 /\ Sound(fn, object, wentBack')
  BY <1>0, <1>2, SetTask
<1>4. /\ store' = [store EXCEPT ![p] = new] /\ store' \in [Procs -> 0..MaxRv] /\ store'[p] = new
      /\ \A q \in Procs : q # p => store'[q] = store[q]
  BY <1>1 DEF set, Swap
<1>5. /\ hasSynced' \in [Procs -> BOOLEAN] /\ hasSynced'[p] /\ \A q \in Procs : q # p => hasSynced'[q] = hasSynced[q]
  BY <1>1
<1>6. PipelineTypeOK'
  BY <1>0, <1>1, <1>3, <1>4, <1>5 DEF PipelineTypeOK
<1>7. ASSUME NEW i \in 1..Len(tasks'[p])
      PROVE  \/ i \in 1..Len(tasks[p]) /\ tasks'[p][i] = tasks[p][i]
             \/ /\ tasks'[p][i] \in Fns /\ tasks'[p][i].old = store[p] /\ store[p] # 0
                /\ Sound(tasks'[p][i], object, wentBack')
  <2>1. CASE tasks'[p] = tasks[p]
    BY <1>7, <2>1
  <2>2. ASSUME NEW fn \in Fns, tasks'[p] = Append(tasks[p], fn)
        PROVE  (i \in 1..Len(tasks[p]) /\ tasks'[p][i] = tasks[p][i]) \/ tasks'[p][i] = fn
    <3>1. tasks[p] \in Seq(Fns)
      BY <1>0, TaskTypes
    <3> QED
      BY <1>7, <2>2, <3>1
  <2> QED
    BY <1>3, <2>1, <2>2
<1>8. WritersSound'
  <2>1. object.rv <= object.rv
    BY <1>1
  <2> QED
    BY <1>0, <1>1, <2>1, WritersStay
<1>9. InformersSound'
  <2> SUFFICES ASSUME NEW q \in Procs
               PROVE  /\ store'[q] <= object.rv
                      /\ ~hasSynced'[q] => store'[q] = 0
                      /\ \A i \in 1..Len(tasks'[q]) : Sound(tasks'[q][i], object, wentBack')
    BY DEF InformersSound
  <2>1. store[q] <= object.rv /\ (~hasSynced[q] => store[q] = 0)
        /\ \A i \in 1..Len(tasks[q]) : Sound(tasks[q][i], object, wentBack) /\ tasks[q][i] \in Fns
    BY <1>0, TaskTypes DEF InformersSound
  <2>2. object.rv <= object.rv
    BY <1>1
  <2>3. \A i \in 1..Len(tasks[q]) : Sound(tasks[q][i], object, wentBack')
    BY <1>1, <2>1, <2>2, SoundStays
  <2>4. CASE q = p
    BY <1>4, <1>5, <1>7, <2>3, <2>4
  <2>5. CASE q # p
    BY <1>3, <1>4, <1>5, <2>1, <2>3, <2>5
  <2> QED
    BY <2>4, <2>5
<1>10. LeadersSound'
  BY <1>0, LeadersStay
<1>12. HoldersWrite' /\ NothingLost'
  BY <1>0, HistoryStays
<1> QED
  BY <1>6, <1>8, <1>9, <1>10, <1>12 DEF PipelineInv

LEMMA InformerInv == ASSUME PipelineInv, NEW p \in Procs, Watch(p) \/ Replace(p) PROVE PipelineInv'
<1>0. /\ object \in [rv : 1..MaxRv, gone : BOOLEAN] /\ object.rv \in 1..MaxRv /\ store[p] \in 0..MaxRv
      /\ hasSynced \in [Procs -> BOOLEAN] /\ wentBack \in BOOLEAN
  BY DEF PipelineInv, PipelineTypeOK
<1>1. ASSUME Watch(p) PROVE PipelineInv'
  <2>1. /\ hasSynced' = [hasSynced EXCEPT ![p] = TRUE] /\ store[p] # 0
        /\ UNCHANGED <<now, object, worker, leaderVars, casts, cacheVars, computed, swapped, wentBack>>
    BY <1>0, <1>1 DEF Watch
  <2>2. CASE store[p] < object.rv /\ set(p, store[p] + 1)
    <3>1. PICK n : n = store[p] + 1
      OBVIOUS
    <3>2. n \in 0..MaxRv /\ n <= object.rv /\ n # 0 /\ ~(n < store[p]) /\ set(p, n)
      BY <1>0, <2>2, <3>1, PipelineAssumption
    <3>3. wentBack' = (wentBack \/ (n # 0 /\ n < store[p]))
      BY <1>0, <2>1, <3>2
    <3> QED
      BY <2>1, <3>2, <3>3, SetInv
  <2>3. CASE object.gone /\ set(p, 0)
    <3>1. 0 \in 0..MaxRv /\ 0 <= object.rv
      BY <1>0, PipelineAssumption
    <3>2. wentBack' = (wentBack \/ (0 # 0 /\ 0 < store[p]))
      BY <1>0, <2>1
    <3> QED
      BY <2>1, <2>3, <3>1, <3>2, SetInv
  <2> QED
    BY <1>1, <2>2, <2>3 DEF Watch
<1>2. ASSUME Replace(p) PROVE PipelineInv'
  <2>1. /\ hasSynced' = [hasSynced EXCEPT ![p] = TRUE] /\ (~hasSynced[p] \/ store[p] # 0)
        /\ UNCHANGED <<now, object, worker, leaderVars, casts, cacheVars, computed, swapped>>
    BY <1>2 DEF Replace
  <2>2. ASSUME NEW rv \in 1..object.rv, set(p, rv), wentBack' = (wentBack \/ rv < store[p]) PROVE PipelineInv'
    <3>1. rv \in 0..MaxRv /\ rv <= object.rv /\ rv # 0
      BY <1>0, PipelineAssumption
    <3>2. wentBack' = (wentBack \/ (rv # 0 /\ rv < store[p]))
      BY <2>2, <3>1
    <3> QED
      BY <2>1, <2>2, <3>1, <3>2, SetInv
  <2>3. CASE object.gone /\ set(p, 0) /\ UNCHANGED wentBack
    <3>1. 0 \in 0..MaxRv /\ 0 <= object.rv
      BY <1>0, PipelineAssumption
    <3>2. wentBack' = (wentBack \/ (0 # 0 /\ 0 < store[p]))
      BY <1>0, <2>3
    <3> QED
      BY <2>1, <2>3, <3>1, <3>2, SetInv
  <2> QED
    BY <1>2, <2>2, <2>3 DEF Replace
<1> QED
  BY <1>1, <1>2

\* What is stored is sound if what is written is.
LEMMA CacheStaysSound ==
  ASSUME PipelineTypeOK, WritersSound, NEW fns \in Seq(Fns), StoreAll(fns),
         \A j \in 1..Len(fns) : SoundWriter(fns[j], object, wentBack)
  PROVE  /\ \A rv \in 1..MaxRv :
              cache'[rv] # None =>
                SoundWriter(cache'[rv], object, wentBack) /\ cache'[rv].kind = "patch" /\ StoreKey(cache'[rv]) = rv
         /\ snapshot' # 0 => object.gone /\ snapshot' <= object.rv
<1>1. ASSUME NEW rv \in 1..MaxRv, cache'[rv] # None
      PROVE  SoundWriter(cache'[rv], object, wentBack) /\ cache'[rv].kind = "patch" /\ StoreKey(cache'[rv]) = rv
  <2>1. CASE cache'[rv] = cache[rv]
    <3>1. cache[rv] # None
      BY <1>1, <2>1
    <3>2. SoundWriter(cache[rv], object, wentBack) /\ cache[rv].kind = "patch" /\ StoreKey(cache[rv]) = rv
      BY <3>1 DEF WritersSound
    <3> QED
      BY <2>1, <3>2
  <2>2. ASSUME NEW j \in 1..Len(fns), cache'[rv] = fns[j], fns[j].kind = "patch", StoreKey(fns[j]) = rv
        PROVE  SoundWriter(cache'[rv], object, wentBack) /\ cache'[rv].kind = "patch" /\ StoreKey(cache'[rv]) = rv
    BY <2>2
  <2> QED
    BY <2>1, <2>2, StoreAllStep
<1>2. ASSUME snapshot' # 0 PROVE object.gone /\ snapshot' <= object.rv
  <2>1. CASE snapshot' = snapshot
    BY <1>2, <2>1 DEF WritersSound
  <2>2. ASSUME NEW j \in 1..Len(fns), fns[j].kind = "snapshot", snapshot' = fns[j].new PROVE object.gone /\ snapshot' <= object.rv
    BY <2>2 DEF SoundWriter, Sound
  <2> QED
    BY <2>1, <2>2, StoreAllStep
<1> QED
  BY <1>1, <1>2

\* The queue of a process after it has kept a writer.
LEMMA KeepQueue ==
  ASSUME PipelineTypeOK, NEW p \in Procs, NEW f \in Fns, NEW Q, Q = Keep(worker[p].queue, f)
  PROVE  /\ Q \in Seq(KeptFns)
         /\ \A i \in 1..Len(Q) : Q[i].fn = f \/ \E j \in 1..Len(worker[p].queue) : Q[i].fn = worker[p].queue[j].fn
         /\ \E i \in 1..Len(Q) : Q[i].fn = f /\ Q[i].expiry = now + L
         /\ \A j \in 1..Len(worker[p].queue) :
              now > worker[p].queue[j].expiry \/ \E i \in 1..Len(Q) : Q[i] = worker[p].queue[j]
<1> DEFINE q == worker[p].queue
           r == IF q # <<>> /\ now > Head(q).expiry THEN Tail(q) ELSE q
           e == [fn |-> f, expiry |-> now + L]
<1>0. q \in Seq(KeptFns) /\ Len(q) \in Nat /\ (\A i \in 1..Len(q) : q[i].expiry \in Nat) /\ now \in Nat
  BY TaskTypes DEF PipelineTypeOK
<1>1. e \in KeptFns /\ e.fn = f /\ e.expiry = now + L
  BY <1>0, PipelineAssumption DEF KeptFns
<1>2. Q = Append(r, e)
  BY DEF Keep
<1> HIDE DEF q, e
<1>3. /\ r \in Seq(KeptFns) /\ \A i \in 1..Len(r) : \E j \in 1..Len(q) : r[i] = q[j]
      /\ \A j \in 1..Len(q) : now > q[j].expiry \/ \E i \in 1..Len(r) : r[i] = q[j]
  <2>1. CASE q # <<>> /\ now > Head(q).expiry
    <3>1. r = Tail(q) /\ Tail(q) \in Seq(KeptFns) /\ Len(Tail(q)) = Len(q) - 1 /\ \A i \in 1..Len(Tail(q)) : Tail(q)[i] = q[i + 1]
      BY <1>0, <2>1
    <3>2. \A i \in 1..Len(r) : i + 1 \in 1..Len(q) /\ r[i] = q[i + 1]
      <4> HIDE DEF r
      <4>1. \A i \in 1..(Len(q) - 1) : i + 1 \in 1..Len(q)
        BY <1>0
      <4> QED
        BY <3>1, <4>1
    <3>3. ASSUME NEW j \in 1..Len(q) PROVE now > q[j].expiry \/ \E i \in 1..Len(r) : r[i] = q[j]
      <4>1. CASE j = 1
        BY <1>0, <2>1, <4>1
      <4>2. CASE j # 1
        <5>1. PICK k \in 1..(Len(q) - 1) : j = k + 1
          <6>1. j - 1 \in 1..(Len(q) - 1) /\ j = (j - 1) + 1
            BY <1>0, <4>2
          <6> QED
            BY <6>1
        <5>2. k \in 1..Len(r) /\ r[k] = q[j]
          <6> HIDE DEF r
          <6> QED
            BY <3>1, <5>1
        <5> QED
          BY <5>2
      <4> QED
        BY <4>1, <4>2
    <3> QED
      BY <3>1, <3>2, <3>3
  <2>2. CASE ~(q # <<>> /\ now > Head(q).expiry)
    BY <1>0, <2>2
  <2> QED
    BY <2>1, <2>2
<1> HIDE DEF r
<1>4. /\ Q \in Seq(KeptFns) /\ Len(r) \in Nat /\ Len(Q) = Len(r) + 1 /\ Q[Len(r) + 1] = e
      /\ \A i \in 1..Len(r) : Q[i] = r[i]
  BY <1>1, <1>2, <1>3
<1>5. ASSUME NEW i \in 1..Len(Q) PROVE Q[i].fn = f \/ \E j \in 1..Len(q) : Q[i].fn = q[j].fn
  <2>1. CASE i = Len(r) + 1
    BY <1>1, <1>4, <2>1
  <2>2. CASE i # Len(r) + 1
    <3>1. i \in 1..Len(r)
      BY <1>4, <2>2
    <3>2. PICK j \in 1..Len(q) : r[i] = q[j]
      BY <1>3, <3>1
    <3>3. Q[i] = q[j]
      BY <1>4, <3>1, <3>2
    <3> QED
      BY <3>3
  <2> QED
    BY <2>1, <2>2
<1>6. \E i \in 1..Len(Q) : Q[i].fn = f /\ Q[i].expiry = now + L
  <2>1. Len(r) + 1 \in 1..Len(Q)
    BY <1>4
  <2> QED
    BY <1>1, <1>4, <2>1
<1>7. ASSUME NEW j \in 1..Len(q) PROVE now > q[j].expiry \/ \E i \in 1..Len(Q) : Q[i] = q[j]
  <2>1. ASSUME NEW i \in 1..Len(r) PROVE i \in 1..Len(Q)
    BY <1>4
  <2> QED
    BY <1>3, <1>4, <2>1
<1> QED
  BY <1>4, <1>5, <1>6, <1>7 DEF q

LEMMA RunTaskInv == ASSUME PipelineInv, NEW p \in Procs, runTask(p) PROVE PipelineInv'
<1> USE DEF informerVars, leaderVars, cacheVars
<1>0. /\ PipelineTypeOK /\ InformersSound /\ WritersSound /\ LeadersSound /\ HoldersWrite /\ NothingLost
      /\ UNCHANGED <<now, object, store, hasSynced, wentBack, lease, isWriteLeader, ending, held, casts, swapped>>
      /\ tasks[p] # <<>> /\ tasks' = [tasks EXCEPT ![p] = Tail(@)]
  BY DEF PipelineInv, runTask
<1>1. tasks[p] \in Seq(Fns) /\ Len(tasks[p]) \in Nat /\ \A i \in 1..Len(tasks[p]) : tasks[p][i] \in Fns
  BY <1>0, TaskTypes
<1>2. PICK f \in Fns : f = Head(tasks[p]) /\ f = tasks[p][1] /\ 1 \in 1..Len(tasks[p])
  BY <1>0, <1>1
<1>3. /\ tasks' \in [Procs -> Seq(Fns)] /\ \A q \in Procs : q # p => tasks'[q] = tasks[q]
      /\ \A i \in 1..Len(tasks'[p]) : \E j \in 1..Len(tasks[p]) : tasks'[p][i] = tasks[p][j]
  <2>1. Tail(tasks[p]) \in Seq(Fns) /\ Len(Tail(tasks[p])) = Len(tasks[p]) - 1
        /\ \A i \in 1..Len(Tail(tasks[p])) : Tail(tasks[p])[i] = tasks[p][i + 1]
    BY <1>0, <1>1
  <2>2. tasks \in [Procs -> Seq(Fns)]
    BY <1>0 DEF PipelineTypeOK
  <2>3. tasks' \in [Procs -> Seq(Fns)] /\ tasks'[p] = Tail(tasks[p]) /\ \A q \in Procs : q # p => tasks'[q] = tasks[q]
    BY <1>0, <2>1, <2>2
  <2>4. \A i \in 1..Len(tasks'[p]) : i + 1 \in 1..Len(tasks[p]) /\ tasks'[p][i] = tasks[p][i + 1]
    BY <1>1, <2>1, <2>3
  <2> QED
    BY <2>3, <2>4
<1>4. /\ computed' = [computed EXCEPT ![p] = IF IsNil(f) THEN @ ELSE @ \cup {[fn |-> f, at |-> now]}]
      /\ \/ IsNil(f) /\ UNCHANGED <<worker, cache, snapshot, failed>>
         \/ ~IsNil(f) /\ worker[p].leader /\ StoreAll(<<f>>) /\ UNCHANGED worker
         \/ /\ ~IsNil(f) /\ ~worker[p].leader
            /\ worker' = [worker EXCEPT ![p].queue = Keep(@, f)]
            /\ UNCHANGED <<cache, snapshot, failed>>
  BY <1>2 DEF runTask
<1>5. /\ computed' \in [Procs -> SUBSET Computations] /\ \A q \in Procs : q # p => computed'[q] = computed[q]
      /\ \A c \in computed'[p] : c \in computed[p] \/ (c.fn = f /\ c.at = now /\ ~IsNil(f))
  <2>1. computed \in [Procs -> SUBSET Computations] /\ now \in Nat
    BY <1>0 DEF PipelineTypeOK
  <2>2. PICK n : n = [fn |-> f, at |-> now]
    OBVIOUS
  <2>3. n \in Computations /\ n.fn = f /\ n.at = now
    BY <2>1, <2>2 DEF Computations
  <2>4. computed' = [computed EXCEPT ![p] = IF IsNil(f) THEN @ ELSE @ \cup {n}]
    BY <1>4, <2>2
  <2> QED
    BY <2>1, <2>3, <2>4
<1>6. Sound(f, object, wentBack)
  BY <1>0, <1>2 DEF InformersSound
<1>7. InformersSound'
  <2> SUFFICES ASSUME NEW q \in Procs, NEW i \in 1..Len(tasks'[q]) PROVE Sound(tasks'[q][i], object, wentBack)
    BY <1>0 DEF InformersSound
  <2> QED
    BY <1>0, <1>3 DEF InformersSound
<1>10. /\ worker \in [Procs -> [leader : BOOLEAN, queue : Seq(KeptFns)]]
       /\ cache \in [1..MaxRv -> Fns \cup {None}] /\ snapshot \in 0..MaxRv
  BY <1>0 DEF PipelineTypeOK
<1> DEFINE Handled ==
      /\ worker' \in [Procs -> [leader : BOOLEAN, queue : Seq(KeptFns)]]
      /\ \A q \in Procs : /\ worker'[q].leader = worker[q].leader
                          /\ worker[q].leader => worker'[q].queue = worker[q].queue
                          /\ \A i \in 1..Len(worker'[q].queue) : SoundWriter(worker'[q].queue[i].fn, object, wentBack)
      /\ cache' \in [1..MaxRv -> Fns \cup {None}] /\ snapshot' \in 0..MaxRv
      /\ \A rv \in 1..MaxRv :
           cache'[rv] # None =>
             SoundWriter(cache'[rv], object, wentBack) /\ cache'[rv].kind = "patch" /\ StoreKey(cache'[rv]) = rv
      /\ snapshot' # 0 => object.gone /\ snapshot' <= object.rv
      /\ \A g \in Fns : Stored(g) => Stored(g)'
      /\ \A q \in Procs : \A c \in Computations : Waiting(q, c) => Waiting(q, c)' \/ now > c.at + L
      /\ ~IsNil(f) => IF worker[p].leader THEN Stored(f)' ELSE \A c : c.fn = f /\ c.at = now => Waiting(p, c)'
<1>11. ASSUME IsNil(f), UNCHANGED <<worker, cache, snapshot, failed>> PROVE Handled
  <2>1. (\A g : Stored(g)' <=> Stored(g)) /\ \A q, c : Waiting(q, c)' <=> Waiting(q, c)
    BY <1>11, StoredStays, WaitingStays
  <2> QED
    BY <1>0, <1>10, <1>11, <2>1 DEF WritersSound
<1>12. ASSUME ~IsNil(f), worker[p].leader, StoreAll(<<f>>), UNCHANGED worker PROVE Handled
  <2>1. PICK fns \in Seq(Fns) : fns = <<f>> /\ Len(fns) = 1 /\ fns[1] = f
    <3>1. <<f>> \in Seq(Fns) /\ Len(<<f>>) = 1 /\ <<f>>[1] = f
      OBVIOUS
    <3> QED
      BY <3>1, Zenon
  <2>2. StoreAll(fns) /\ \A j \in 1..Len(fns) : j = 1 /\ SoundWriter(fns[j], object, wentBack)
    BY <1>6, <1>12, <2>1 DEF SoundWriter
  <2>3. /\ cache' \in [1..MaxRv -> Fns \cup {None}] /\ snapshot' \in 0..MaxRv
        /\ \A g \in Fns : Stored(g) => Stored(g)'
        /\ \A g \in Fns : (\E j \in 1..Len(fns) : fns[j] = g) => Stored(g)'
    BY <1>0, <2>2, StoreAllStep
  <2>4. Stored(f)'
    <3>1. 1 \in 1..Len(fns)
      BY <2>1
    <3> QED
      BY <2>1, <2>3, <3>1
  <2>5. /\ \A rv \in 1..MaxRv :
             cache'[rv] # None =>
               SoundWriter(cache'[rv], object, wentBack) /\ cache'[rv].kind = "patch" /\ StoreKey(cache'[rv]) = rv
        /\ snapshot' # 0 => object.gone /\ snapshot' <= object.rv
    BY <1>0, <2>2, CacheStaysSound
  <2>6. \A q, c : Waiting(q, c)' <=> Waiting(q, c)
    BY <1>12, WaitingStays
  <2> QED
    BY <1>0, <1>10, <1>12, <2>3, <2>4, <2>5, <2>6 DEF WritersSound
<1>13. ASSUME ~IsNil(f), ~worker[p].leader, worker' = [worker EXCEPT ![p].queue = Keep(@, f)],
              UNCHANGED <<cache, snapshot, failed>>
       PROVE  Handled
  <2>1. PICK Q : Q = Keep(worker[p].queue, f)
    OBVIOUS
  <2>2. /\ Q \in Seq(KeptFns)
        /\ \A i \in 1..Len(Q) : Q[i].fn = f \/ \E j \in 1..Len(worker[p].queue) : Q[i].fn = worker[p].queue[j].fn
        /\ \E i \in 1..Len(Q) : Q[i].fn = f /\ Q[i].expiry = now + L
        /\ \A j \in 1..Len(worker[p].queue) :
             now > worker[p].queue[j].expiry \/ \E i \in 1..Len(Q) : Q[i] = worker[p].queue[j]
    BY <1>0, <2>1, KeepQueue
  <2>3. /\ worker' \in [Procs -> [leader : BOOLEAN, queue : Seq(KeptFns)]]
        /\ worker'[p].leader = worker[p].leader /\ worker'[p].queue = Q
        /\ \A q \in Procs : q # p => worker'[q] = worker[q]
    <3>1. worker[p] = [leader |-> worker[p].leader, queue |-> worker[p].queue] /\ worker[p].leader \in BOOLEAN
      BY <1>10
    <3>2. worker' = [worker EXCEPT ![p] = [worker[p] EXCEPT !.queue = Q]]
      BY <1>13, <2>1
    <3>3. [worker[p] EXCEPT !.queue = Q] = [leader |-> worker[p].leader, queue |-> Q]
      BY <3>1
    <3>4. [leader |-> worker[p].leader, queue |-> Q] \in [leader : BOOLEAN, queue : Seq(KeptFns)]
      BY <2>2, <3>1
    <3> QED
      BY <1>10, <3>2, <3>3, <3>4
  <2>4. ASSUME NEW q \in Procs, NEW i \in 1..Len(worker'[q].queue)
        PROVE  SoundWriter(worker'[q].queue[i].fn, object, wentBack)
    <3>1. CASE q = p
      BY <1>0, <1>6, <1>13, <2>2, <2>3, <2>4, <3>1 DEF WritersSound, SoundWriter
    <3>2. CASE q # p
      BY <1>0, <2>3, <2>4, <3>2 DEF WritersSound
    <3> QED
      BY <3>1, <3>2
  <2>5. \A g : Stored(g)' <=> Stored(g)
    BY <1>13, StoredStays
  <2>6. ASSUME NEW q \in Procs, NEW c \in Computations, Waiting(q, c) PROVE Waiting(q, c)' \/ now > c.at + L
    <3>1. PICK j \in 1..Len(worker[q].queue) : worker[q].queue[j].fn = c.fn /\ worker[q].queue[j].expiry = c.at + L
      BY <2>6 DEF Waiting
    <3>2. CASE q = p
      <4>1. CASE now > worker[p].queue[j].expiry
        BY <3>1, <3>2, <4>1
      <4>2. ASSUME NEW i \in 1..Len(Q), Q[i] = worker[p].queue[j] PROVE Waiting(q, c)'
        BY <2>3, <3>1, <3>2, <4>2 DEF Waiting
      <4> QED
        BY <2>2, <3>1, <3>2, <4>1, <4>2
    <3>3. CASE q # p
      BY <2>3, <3>1, <3>3 DEF Waiting
    <3> QED
      BY <3>2, <3>3
  <2>7. ASSUME NEW c, c.fn = f, c.at = now PROVE Waiting(p, c)'
    <3>1. \E i \in 1..Len(worker'[p].queue) : worker'[p].queue[i].fn = c.fn /\ worker'[p].queue[i].expiry = c.at + L
      BY <2>2, <2>3, <2>7
    <3> QED
      BY <3>1 DEF Waiting
  <2>8. \A q \in Procs : /\ worker'[q].leader = worker[q].leader
                         /\ worker[q].leader => worker'[q].queue = worker[q].queue
    BY <1>13, <2>3
  <2> QED
    BY <1>0, <1>10, <1>13, <2>3, <2>4, <2>5, <2>6, <2>7, <2>8 DEF WritersSound
<1>14. Handled
  BY <1>4, <1>11, <1>12, <1>13
<1>15. PipelineTypeOK'
  BY <1>0, <1>3, <1>5, <1>14 DEF PipelineTypeOK
<1>16. WritersSound'
  BY <1>0, <1>14 DEF WritersSound
<1>17. LeadersSound'
  BY <1>0, <1>14 DEF LeadersSound, LastCast
<1>18. HoldersWrite'
  <2>1. \A q \in Procs : \A t : Steady(q, t) => Steady(q, t)'
    BY <1>0, <1>14 DEF Steady
  <2> QED
    BY <1>0, <2>1, HoldersStay
<1>19. NothingLost'
  <2>1. ASSUME ~swapped', NEW q \in Procs, NEW c \in computed'[q] \ computed[q]
        PROVE  Stored(c.fn)' \/ (Waiting(q, c)' /\ \A t \in held[q] : Apart(t, c))
    <3>1. q = p /\ c.fn = f /\ c.at = now /\ ~IsNil(f)
      BY <1>5, <2>1
    <3>2. CASE worker[p].leader
      BY <1>14, <3>1, <3>2
    <3>3. CASE ~worker[p].leader
      <4>1. Waiting(p, c)'
        BY <1>14, <3>1, <3>3
      <4>2. \A t \in held[p] : ~(now < t + L)
        BY <1>0, <2>1, <3>3 DEF HoldersWrite, Steady
      <4> QED
        BY <3>1, <4>1, <4>2 DEF Apart
    <3> QED
      BY <3>2, <3>3
  <2>2. /\ \A g \in Fns : Stored(g) => Stored(g)'
        /\ \A q \in Procs : \A c \in Computations : Waiting(q, c) => Waiting(q, c)' \/ now > c.at + L
    BY <1>14
  <2> HIDE DEF Handled
  <2> QED
    BY <1>0, <1>5, <2>1, <2>2, LostStays
<1> QED
  BY <1>7, <1>15, <1>16, <1>17, <1>18, <1>19 DEF PipelineInv

LEMMA RemoveAtOne ==
  ASSUME NEW S, NEW s \in Seq(S), NEW i \in 1..Len(s)
  PROVE  /\ RemoveAt(s, i) \in Seq(S)
         /\ i = 1 => Len(RemoveAt(s, i)) = Len(s) - 1 /\ \A k \in 1..(Len(s) - 1) : RemoveAt(s, i)[k] = s[k + 1]
<1> DEFINE a == SubSeq(s, 1, i - 1)
           b == SubSeq(s, i + 1, Len(s))
<1>0. Len(s) \in Nat /\ i \in Nat /\ i >= 1 /\ i <= Len(s)
  OBVIOUS
<1>1. a \in Seq(S) /\ b \in Seq(S)
  <2>1. \A k \in 1..(i - 1) : k \in 1..Len(s)
    BY <1>0
  <2>2. \A k \in (i + 1)..Len(s) : k \in 1..Len(s)
    BY <1>0
  <2>3. a \in Seq(S)
    BY <1>0, <2>1
  <2>4. b \in Seq(S)
    BY <1>0, <2>2
  <2> QED
    BY <2>3, <2>4
<1>2. RemoveAt(s, i) = a \o b
  BY DEF RemoveAt
<1>3. ASSUME i = 1 PROVE Len(a \o b) = Len(s) - 1 /\ \A k \in 1..(Len(s) - 1) : (a \o b)[k] = s[k + 1]
  <2>1. Len(a) = 0 /\ Len(b) = Len(s) - 1 /\ \A k \in 1..(Len(s) - 1) : b[k] = s[k + 1]
    <3>1. Len(a) = 0
      BY <1>0, <1>3
    <3>2. Len(b) = Len(s) - 1
      <4>1. b = SubSeq(s, 2, Len(s))
        BY <1>3
      <4>2. CASE Len(s) = 1
        BY <1>0, <4>1, <4>2
      <4>3. CASE Len(s) >= 2
        BY <1>0, <4>1, <4>3
      <4>4. Len(s) = 1 \/ Len(s) >= 2
        <5>1. PICK n \in Nat : n = Len(s) /\ n >= 1
          BY <1>0, <1>3
        <5>2. n = 1 \/ n >= 2
          BY <5>1
        <5> QED
          BY <5>1, <5>2
      <4> HIDE DEF b
      <4> QED
        BY <4>2, <4>3, <4>4
    <3>3. \A k \in 1..(Len(s) - 1) : b[k] = s[k + 1]
      BY <1>0, <1>3
    <3> QED
      BY <3>1, <3>2, <3>3
  <2> HIDE DEF a, b
  <2>2. Len(a \o b) = Len(s) - 1
    BY <1>0, <1>1, <2>1
  <2>3. \A k \in 1..(Len(s) - 1) : (a \o b)[k] = b[k]
    BY <1>0, <1>1, <2>1
  <2> QED
    BY <2>1, <2>2, <2>3
<1> HIDE DEF a, b
<1>4. a \o b \in Seq(S)
  BY <1>1
<1> QED
  BY <1>2, <1>3, <1>4

LEMMA SetWriteLeaderInv == ASSUME PipelineInv, NEW p \in Procs, setWriteLeader(p) PROVE PipelineInv'
<1> USE DEF informerVars, leaderVars, cacheVars
<1>0. /\ PipelineTypeOK /\ InformersSound /\ WritersSound /\ LeadersSound /\ HoldersWrite /\ NothingLost
      /\ UNCHANGED <<now, object, store, hasSynced, wentBack, tasks, lease, isWriteLeader, ending, held, computed>>
  BY DEF PipelineInv, setWriteLeader
<1> DEFINE old == worker[p].queue
<1>1. PICK i \in DOMAIN casts[p] :
        /\ StoreAll([j \in DOMAIN old |-> old[j].fn])
        /\ worker' = [worker EXCEPT ![p] = [leader |-> casts[p][i], queue |-> <<>>]]
        /\ casts' = [casts EXCEPT ![p] = RemoveAt(@, i)]
        /\ swapped' = (swapped \/ i > 1)
  BY DEF setWriteLeader
<1>2. /\ casts \in [Procs -> Seq(BOOLEAN)] /\ casts[p] \in Seq(BOOLEAN) /\ Len(casts[p]) \in Nat
      /\ i \in 1..Len(casts[p]) /\ casts[p][i] \in BOOLEAN /\ swapped \in BOOLEAN
      /\ worker \in [Procs -> [leader : BOOLEAN, queue : Seq(KeptFns)]]
  <2>1. /\ casts \in [Procs -> Seq(BOOLEAN)] /\ swapped \in BOOLEAN
        /\ worker \in [Procs -> [leader : BOOLEAN, queue : Seq(KeptFns)]]
    BY <1>0 DEF PipelineTypeOK
  <2>2. casts[p] \in Seq(BOOLEAN)
    BY <2>1
  <2>3. Len(casts[p]) \in Nat /\ i \in 1..Len(casts[p])
    BY <2>2
  <2>4. casts[p][i] \in BOOLEAN
    BY <2>2, <2>3
  <2> QED
    BY <2>1, <2>2, <2>3, <2>4
<1>3. PICK fns \in Seq(Fns) :
        StoreAll(fns) /\ Len(fns) = Len(old) /\ \A j \in 1..Len(old) : fns[j] = old[j].fn
  <2>1. old \in Seq(KeptFns) /\ Len(old) \in Nat /\ \A j \in 1..Len(old) : old[j].fn \in Fns
    BY <1>0, TaskTypes
  <2> HIDE DEF old
  <2>2. DOMAIN old = 1..Len(old)
    BY <2>1
  <2> DEFINE g == [j \in DOMAIN old |-> old[j].fn]
  <2>3. g \in Seq(Fns) /\ Len(g) = Len(old) /\ \A j \in 1..Len(old) : g[j] = old[j].fn
    BY <2>1, <2>2
  <2>4. StoreAll(g)
    BY <1>1 DEF old
  <2> HIDE DEF g
  <2> QED
    BY <2>3, <2>4
<1>4. \A j \in 1..Len(fns) : SoundWriter(fns[j], object, wentBack)
  BY <1>0, <1>3 DEF WritersSound
<1>5. /\ cache' \in [1..MaxRv -> Fns \cup {None}] /\ snapshot' \in 0..MaxRv
      /\ \A fn \in Fns : Stored(fn) => Stored(fn)'
      /\ \A fn \in Fns : (\E j \in 1..Len(fns) : fns[j] = fn) => Stored(fn)'
  BY <1>0, <1>3, StoreAllStep
<1>6. /\ \A rv \in 1..MaxRv :
           cache'[rv] # None =>
             SoundWriter(cache'[rv], object, wentBack) /\ cache'[rv].kind = "patch" /\ StoreKey(cache'[rv]) = rv
      /\ snapshot' # 0 => object.gone /\ snapshot' <= object.rv
  BY <1>0, <1>3, <1>4, CacheStaysSound
<1>7. /\ worker' \in [Procs -> [leader : BOOLEAN, queue : Seq(KeptFns)]]
      /\ worker'[p].leader = casts[p][i] /\ worker'[p].queue = <<>>
      /\ \A q \in Procs : q # p => worker'[q] = worker[q]
  <2>1. [leader |-> casts[p][i], queue |-> <<>>] \in [leader : BOOLEAN, queue : Seq(KeptFns)]
    BY <1>2
  <2> QED
    BY <1>1, <1>2, <2>1
<1>8. /\ casts' \in [Procs -> Seq(BOOLEAN)] /\ casts'[p] = RemoveAt(casts[p], i)
      /\ \A q \in Procs : q # p => casts'[q] = casts[q]
  <2>1. RemoveAt(casts[p], i) \in Seq(BOOLEAN)
    BY <1>2, RemoveAtOne
  <2> QED
    BY <1>1, <1>2, <2>1
<1>9. (~swapped' => ~swapped /\ i = 1) /\ swapped' \in BOOLEAN
  <2>1. (~swapped' => ~swapped /\ ~(i > 1)) /\ swapped' \in BOOLEAN
    BY <1>1, <1>2, Zenon
  <2>2. ~(i > 1) => i = 1
    BY <1>2
  <2> QED
    BY <2>1, <2>2, Zenon
<1>10. PipelineTypeOK'
  BY <1>0, <1>5, <1>7, <1>8, <1>9 DEF PipelineTypeOK
<1>11. InformersSound'
  BY <1>0 DEF InformersSound
<1>12. WritersSound'
  <2>1. \A q \in Procs : \A k \in 1..Len(worker'[q].queue) : SoundWriter(worker'[q].queue[k].fn, object, wentBack)
    <3> SUFFICES ASSUME NEW q \in Procs, NEW k \in 1..Len(worker'[q].queue)
                 PROVE  SoundWriter(worker'[q].queue[k].fn, object, wentBack)
      OBVIOUS
    <3>1. q # p
      BY <1>7
    <3> QED
      BY <1>0, <1>7, <3>1 DEF WritersSound
  <2> QED
    BY <1>0, <1>6, <2>1 DEF WritersSound
<1>13. ASSUME ~swapped' PROVE LastCast(p)' <=> LastCast(p)
  <2> DEFINE n == Len(casts[p])
  <2>1. n \in Nat /\ n >= 1 /\ casts[p] # <<>> /\ LastCast(p) = casts[p][n]
    BY <1>2 DEF LastCast
  <2>2. casts'[p] \in Seq(BOOLEAN) /\ Len(casts'[p]) = n - 1 /\ (\A k \in 1..(n - 1) : casts'[p][k] = casts[p][k + 1])
        /\ worker'[p].leader = casts[p][1]
    <3>1. i = 1
      BY <1>9, <1>13
    <3>2. /\ Len(RemoveAt(casts[p], i)) = n - 1
          /\ \A k \in 1..(n - 1) : RemoveAt(casts[p], i)[k] = casts[p][k + 1]
      BY <1>2, <3>1, RemoveAtOne
    <3> QED
      BY <1>7, <1>8, <3>1, <3>2
  <2> HIDE DEF n
  <2>3. CASE n = 1
    <3>1. casts'[p] = <<>>
      BY <2>2, <2>3
    <3>2. LastCast(p)' = casts[p][1]
      BY <2>2, <3>1 DEF LastCast
    <3> QED
      BY <2>1, <2>3, <3>2
  <2>4. CASE n > 1
    <3>1. casts'[p] # <<>> /\ n - 1 \in 1..(n - 1) /\ (n - 1) + 1 = n
      BY <2>1, <2>2, <2>4
    <3>2. casts'[p][n - 1] = casts[p][n]
      BY <2>2, <3>1
    <3>3. LastCast(p)' = casts'[p][n - 1]
      BY <2>2, <3>1 DEF LastCast
    <3> QED
      BY <2>1, <3>2, <3>3
  <2> QED
    BY <2>1, <2>3, <2>4
<1>14. LeadersSound'
  <2> SUFFICES ASSUME NEW q \in Procs
               PROVE  /\ worker'[q].leader => worker'[q].queue = <<>>
                      /\ isWriteLeader'[q] = Len(ending'[q]) + (IF lease' = q THEN 1 ELSE 0)
                      /\ ~swapped' => (LastCast(q)' <=> isWriteLeader'[q] > 0)
    BY DEF LeadersSound
  <2>1. /\ worker[q].leader => worker[q].queue = <<>>
        /\ isWriteLeader[q] = Len(ending[q]) + (IF lease = q THEN 1 ELSE 0)
        /\ ~swapped => (LastCast(q) <=> isWriteLeader[q] > 0)
    BY <1>0 DEF LeadersSound
  <2>2. isWriteLeader'[q] = Len(ending'[q]) + (IF lease' = q THEN 1 ELSE 0) /\ isWriteLeader'[q] = isWriteLeader[q]
    BY <1>0, <2>1
  <2>3. CASE q = p
    BY <1>7, <1>9, <1>13, <2>1, <2>2, <2>3
  <2>4. CASE q # p
    <3>1. LastCast(q)' = LastCast(q)
      BY <1>7, <1>8, <2>4 DEF LastCast
    <3> QED
      BY <1>7, <1>9, <2>1, <2>2, <2>4, <3>1
  <2> QED
    BY <2>3, <2>4
<1>15. HoldersWrite'
  <2>1. \A q \in Procs : \A t : Steady(q, t) => Steady(q, t)'
    <3> SUFFICES ASSUME NEW q \in Procs, NEW t, Steady(q, t) PROVE Steady(q, t)'
      OBVIOUS
    <3>1. q # p
      BY <1>2 DEF Steady
    <3> QED
      BY <1>0, <1>7, <1>8, <3>1 DEF Steady
  <2> QED
    BY <1>0, <1>9, <2>1, HoldersStay
<1>16. NothingLost'
  <2>1. ASSUME NEW q \in Procs, NEW c \in Computations, Waiting(q, c) PROVE Stored(c.fn)' \/ Waiting(q, c)'
    <3>0. c.fn \in Fns
      BY DEF Computations
    <3>1. CASE q = p
      BY <1>3, <1>5, <2>1, <3>0, <3>1 DEF Waiting
    <3>2. CASE q # p
      BY <1>7, <2>1, <3>2 DEF Waiting
    <3> QED
      BY <3>1, <3>2
  <2>2. computed' \in [Procs -> SUBSET Computations] /\ \A q \in Procs : computed'[q] \ computed[q] = {}
    BY <1>0 DEF PipelineTypeOK
  <2> QED
    BY <1>0, <1>5, <1>9, <2>1, <2>2, LostStays
<1> QED
  BY <1>10, <1>11, <1>12, <1>14, <1>15, <1>16 DEF PipelineInv

LEMMA LastOfAppend ==
  ASSUME NEW S, NEW s \in Seq(S), NEW e \in S
  PROVE  Append(s, e) # <<>> /\ Append(s, e)[Len(Append(s, e))] = e
  OBVIOUS

\* What the elector changes, and what of it the rest of the invariant sees.
LEMMA ElectorInv ==
  ASSUME PipelineInv, NEW p \in Procs, NEW changed \in BOOLEAN, NEW b \in BOOLEAN,
         broadcastWriteLeader(p, changed, b),
         UNCHANGED <<now, object, informerVars, tasks, worker, held, cacheVars, computed, swapped>>,
         lease' \in Procs \cup {None}, isWriteLeader' \in [Procs -> Nat], ending' \in [Procs -> Seq(Nat)],
         \A q \in Procs : isWriteLeader'[q] = Len(ending'[q]) + (IF lease' = q THEN 1 ELSE 0),
         \A q \in Procs : q # p => isWriteLeader'[q] = isWriteLeader[q],
         changed => (b <=> isWriteLeader'[p] > 0),
         ~changed => (isWriteLeader'[p] > 0 <=> isWriteLeader[p] > 0),
         \A q \in Procs : \A t \in held[q] : t < now /\ now < t + L /\ Steady(q, t) =>
           /\ lease' = q \/ \E i \in 1..Len(ending'[q]) : ending'[q][i] >= t + L
           /\ q = p => ~changed
  PROVE  PipelineInv'
<1> USE DEF informerVars, leaderVars, cacheVars
<1>0. /\ PipelineTypeOK /\ InformersSound /\ WritersSound /\ LeadersSound /\ HoldersWrite /\ NothingLost
      /\ UNCHANGED <<store, hasSynced, wentBack, cache, snapshot, failed>>
  BY DEF PipelineInv
<1>1. casts \in [Procs -> Seq(BOOLEAN)] /\ casts[p] \in Seq(BOOLEAN)
  BY <1>0 DEF PipelineTypeOK
<1>2. /\ casts' \in [Procs -> Seq(BOOLEAN)] /\ \A q \in Procs : q # p => casts'[q] = casts[q]
      /\ casts'[p] = IF changed THEN Append(casts[p], b) ELSE casts[p]
  <2>1. Append(casts[p], b) \in Seq(BOOLEAN)
    BY <1>1
  <2>2. PICK c \in Seq(BOOLEAN) : c = IF changed THEN Append(casts[p], b) ELSE casts[p]
    BY <1>1, <2>1
  <2>3. casts' = [casts EXCEPT ![p] = c]
    BY <2>2 DEF broadcastWriteLeader
  <2> QED
    BY <1>1, <2>2, <2>3
<1>3. PipelineTypeOK'
  BY <1>0, <1>2 DEF PipelineTypeOK
<1>4. InformersSound'
  BY <1>0 DEF InformersSound
<1>5. WritersSound'
  BY <1>0 DEF WritersSound
<1>6. LastCast(p)' = IF changed THEN b ELSE LastCast(p)
  <2>1. CASE changed
    <3>1. casts'[p] = Append(casts[p], b)
      BY <1>2, <2>1
    <3>2. casts'[p] # <<>> /\ casts'[p][Len(casts'[p])] = b
      <4>1. PICK c \in Seq(BOOLEAN) : c = casts[p]
        BY <1>1
      <4>2. Append(c, b) # <<>> /\ Append(c, b)[Len(Append(c, b))] = b
        BY LastOfAppend
      <4> QED
        BY <3>1, <4>1, <4>2
    <3> QED
      BY <2>1, <3>2 DEF LastCast
  <2>2. CASE ~changed
    BY <1>2, <2>2 DEF LastCast
  <2> QED
    BY <2>1, <2>2
<1>7. LeadersSound'
  <2> SUFFICES ASSUME NEW q \in Procs
               PROVE  /\ worker[q].leader => worker[q].queue = <<>>
                      /\ ~swapped => (LastCast(q)' <=> isWriteLeader'[q] > 0)
    BY DEF LeadersSound
  <2>1. /\ worker[q].leader => worker[q].queue = <<>>
        /\ ~swapped => (LastCast(q) <=> isWriteLeader[q] > 0)
    BY <1>0 DEF LeadersSound
  <2>2. CASE q = p
    <3>1. CASE changed
      BY <1>6, <2>1, <2>2, <3>1
    <3>2. CASE ~changed
      <4>1. LastCast(q)' = LastCast(q)
        BY <1>6, <2>2, <3>2
      <4> QED
        BY <2>1, <2>2, <3>2, <4>1
    <3> QED
      BY <3>1, <3>2
  <2>3. CASE q # p
    <3>1. LastCast(q)' = LastCast(q)
      BY <1>2, <2>3 DEF LastCast
    <3> QED
      BY <2>1, <2>3, <3>1
  <2> QED
    BY <2>2, <2>3
<1>8. HoldersWrite'
  <2>1. ASSUME ~swapped, NEW q \in Procs, NEW t \in held[q], now < t + L, Steady(q, t) PROVE Steady(q, t)'
    <3>1. t < now
      BY <1>0, <2>1 DEF HoldersWrite
    <3>2. casts'[q] = casts[q]
      BY <1>2, <2>1, <3>1
    <3> QED
      BY <2>1, <3>1, <3>2 DEF Steady
  <2> QED
    BY <1>0, <2>1, HoldersStay
<1>9. NothingLost'
  <2>1. /\ \A fn : Stored(fn)' <=> Stored(fn)
        /\ \A q, c : Waiting(q, c)' <=> Waiting(q, c)
    BY <1>0, StoredStays, WaitingStays
  <2>2. computed' \in [Procs -> SUBSET Computations] /\ \A q \in Procs : computed'[q] \ computed[q] = {}
    BY <1>0 DEF PipelineTypeOK
  <2> QED
    BY <1>0, <2>1, <2>2, LostStays
<1> QED
  BY <1>3, <1>4, <1>5, <1>7, <1>8, <1>9 DEF PipelineInv

LEMMA ElectorTypes ==
  ASSUME PipelineInv, NEW p \in Procs
  PROVE  /\ isWriteLeader \in [Procs -> Nat] /\ ending \in [Procs -> Seq(Nat)] /\ ending[p] \in Seq(Nat)
         /\ isWriteLeader[p] \in Nat /\ Len(ending[p]) \in Nat /\ now \in Nat /\ swapped \in BOOLEAN
         /\ \A i \in 1..Len(ending[p]) : ending[p][i] \in Nat
         /\ isWriteLeader[p] = Len(ending[p]) + (IF lease = p THEN 1 ELSE 0)
         /\ p # None /\ held[p] \subseteq Nat
<1>1. /\ isWriteLeader \in [Procs -> Nat] /\ ending \in [Procs -> Seq(Nat)] /\ now \in Nat /\ swapped \in BOOLEAN
      /\ isWriteLeader[p] = Len(ending[p]) + (IF lease = p THEN 1 ELSE 0)
  BY DEF PipelineInv, PipelineTypeOK, LeadersSound
<1>2. ending[p] \in Seq(Nat)
  BY <1>1
<1>3. Len(ending[p]) \in Nat /\ \A i \in 1..Len(ending[p]) : ending[p][i] \in Nat
  BY <1>2
<1> QED
  BY <1>1, <1>2, <1>3, PipelineAssumption DEF PipelineInv, PipelineTypeOK

LEMMA AcquireWriteInv == ASSUME PipelineInv, NEW p \in Procs, AcquireWrite(p) PROVE PipelineInv'
<1>0. /\ isWriteLeader \in [Procs -> Nat] /\ ending \in [Procs -> Seq(Nat)] /\ ending[p] \in Seq(Nat)
      /\ isWriteLeader[p] \in Nat /\ Len(ending[p]) \in Nat /\ now \in Nat
      /\ isWriteLeader[p] = Len(ending[p]) + (IF lease = p THEN 1 ELSE 0) /\ p # None
  BY ElectorTypes
<1>10. \A q \in Procs : /\ isWriteLeader[q] = Len(ending[q]) + (IF lease = q THEN 1 ELSE 0)
                       /\ Len(ending[q]) \in Nat /\ q # None
  BY ElectorTypes
<1>1. PICK c \in BOOLEAN : c <=> isWriteLeader[p] = 0
  OBVIOUS
<1>2. /\ broadcastWriteLeader(p, c, TRUE) /\ lease = None /\ lease' = p /\ ending' = ending
      /\ UNCHANGED <<now, object, informerVars, tasks, worker, held, cacheVars, computed, swapped>>
      /\ isWriteLeader' = [isWriteLeader EXCEPT ![p] = isWriteLeader[p] + 1]
  BY <1>1 DEF AcquireWrite, broadcastWriteLeader
<1>3. /\ isWriteLeader' \in [Procs -> Nat] /\ isWriteLeader'[p] = isWriteLeader[p] + 1
      /\ \A q \in Procs : q # p => isWriteLeader'[q] = isWriteLeader[q]
  <2>1. PICK n \in Nat : n = isWriteLeader[p] + 1
    BY <1>0
  <2> QED
    BY <1>0, <1>2, <2>1
<1>4. lease' \in Procs \cup {None} /\ ending' \in [Procs -> Seq(Nat)]
  BY <1>0, <1>2
<1>5. \A q \in Procs : isWriteLeader'[q] = Len(ending'[q]) + (IF lease' = q THEN 1 ELSE 0)
  <2> SUFFICES ASSUME NEW q \in Procs PROVE isWriteLeader'[q] = Len(ending[q]) + (IF p = q THEN 1 ELSE 0)
    BY <1>2
  <2>1. isWriteLeader[q] = Len(ending[q]) + 0 /\ Len(ending[q]) \in Nat
    BY <1>2, <1>10
  <2>2. CASE q = p
    BY <1>3, <2>1, <2>2
  <2>3. CASE q # p
    BY <1>3, <2>1, <2>3
  <2> QED
    BY <2>2, <2>3
<1>6. (c => (TRUE <=> isWriteLeader'[p] > 0)) /\ (~c => (isWriteLeader'[p] > 0 <=> isWriteLeader[p] > 0))
  <2>1. PICK n \in Nat : n = isWriteLeader[p]
    BY <1>0
  <2>2. isWriteLeader'[p] > 0 /\ (n # 0 => n > 0)
    BY <1>3, <2>1
  <2> QED
    BY <1>1, <2>1, <2>2, Zenon
<1>7. ASSUME NEW q \in Procs, NEW t \in held[q], Steady(q, t)
      PROVE  /\ lease' = q \/ \E i \in 1..Len(ending'[q]) : ending'[q][i] >= t + L
             /\ q = p => ~c
  <2>1. PICK i \in 1..Len(ending[q]) : ending[q][i] >= t + L
    BY <1>2, <1>7, <1>10 DEF Steady
  <2>2. isWriteLeader[q] # 0
    <3>1. Len(ending[q]) \in Nat /\ isWriteLeader[q] = Len(ending[q]) + 0
      BY <1>2, <1>10
    <3> QED
      BY <2>1, <3>1
  <2> QED
    BY <1>1, <1>2, <2>1, <2>2
<1>8. PICK b \in BOOLEAN : broadcastWriteLeader(p, c, b) /\ (c => (b <=> isWriteLeader'[p] > 0))
  BY <1>2, <1>6
<1> QED
  BY <1>2, <1>3, <1>4, <1>5, <1>6, <1>7, <1>8, ElectorInv

LEMMA LoseWriteInv == ASSUME PipelineInv, NEW p \in Procs, LoseWrite(p) PROVE PipelineInv'
<1>0. /\ isWriteLeader \in [Procs -> Nat] /\ ending \in [Procs -> Seq(Nat)] /\ ending[p] \in Seq(Nat)
      /\ isWriteLeader[p] \in Nat /\ Len(ending[p]) \in Nat /\ now \in Nat
      /\ isWriteLeader[p] = Len(ending[p]) + (IF lease = p THEN 1 ELSE 0) /\ p # None
  BY ElectorTypes
<1>10. \A q \in Procs : /\ isWriteLeader[q] = Len(ending[q]) + (IF lease = q THEN 1 ELSE 0)
                       /\ Len(ending[q]) \in Nat /\ q # None
  BY ElectorTypes
<1>1. /\ lease = p /\ lease' = None /\ isWriteLeader' = isWriteLeader /\ casts' = casts
      /\ UNCHANGED <<now, object, informerVars, tasks, worker, held, cacheVars, computed, swapped>>
      /\ ending' = [ending EXCEPT ![p] = Append(ending[p], now + L)]
  BY DEF LoseWrite
<1>2. broadcastWriteLeader(p, FALSE, FALSE)
  <2>1. casts \in [Procs -> Seq(BOOLEAN)]
    BY DEF PipelineInv, PipelineTypeOK
  <2>2. casts = [casts EXCEPT ![p] = casts[p]]
    BY <2>1
  <2> QED
    BY <1>1, <2>2 DEF broadcastWriteLeader
<1>3. PICK t \in Nat : t = now + L
  BY <1>0, PipelineAssumption
<1>4. PICK e \in Seq(Nat) : /\ e = Append(ending[p], t) /\ Len(e) = Len(ending[p]) + 1
                           /\ Len(e) \in 1..Len(e) /\ e[Len(e)] = t
  <2>1. PICK s \in Seq(Nat) : s = ending[p]
    BY <1>0
  <2>2. Append(s, t) \in Seq(Nat) /\ Len(Append(s, t)) = Len(s) + 1 /\ Append(s, t)[Len(s) + 1] = t /\ Len(s) \in Nat
    BY <2>1
  <2>3. PICK e \in Seq(Nat) : e = Append(s, t)
    BY <2>2
  <2>4. Len(e) = Len(s) + 1 /\ Len(e) \in 1..Len(e) /\ e[Len(e)] = t
    BY <2>2, <2>3
  <2> QED
    BY <2>1, <2>3, <2>4
<1>5. /\ ending' \in [Procs -> Seq(Nat)] /\ ending'[p] = e /\ \A q \in Procs : q # p => ending'[q] = ending[q]
  BY <1>0, <1>1, <1>3, <1>4
<1>6. \A q \in Procs : isWriteLeader'[q] = Len(ending'[q]) + (IF lease' = q THEN 1 ELSE 0)
  <2> SUFFICES ASSUME NEW q \in Procs PROVE isWriteLeader[q] = Len(ending'[q]) + (IF None = q THEN 1 ELSE 0)
    BY <1>1
  <2>1. CASE q = p
    BY <1>0, <1>1, <1>4, <1>5, <2>1
  <2>2. CASE q # p
    BY <1>1, <1>5, <1>10, <2>2
  <2> QED
    BY <2>1, <2>2
<1>7. ASSUME NEW q \in Procs, NEW k \in held[q], k < now, Steady(q, k)
      PROVE  \E i \in 1..Len(ending'[q]) : ending'[q][i] >= k + L
  <2>0. k \in Nat
    BY ElectorTypes
  <2>1. CASE q = p
    <3>1. t >= k + L
      BY <1>0, <1>3, <1>7, <2>0, PipelineAssumption
    <3> QED
      BY <1>4, <1>5, <2>1, <3>1
  <2>2. CASE q # p
    BY <1>1, <1>5, <1>7, <2>2 DEF Steady
  <2> QED
    BY <2>1, <2>2
<1> QED
  BY <1>0, <1>1, <1>2, <1>5, <1>6, <1>7, ElectorInv

LEMMA EndWriteInv == ASSUME PipelineInv, NEW p \in Procs, EndWrite(p) PROVE PipelineInv'
<1>0. /\ isWriteLeader \in [Procs -> Nat] /\ ending \in [Procs -> Seq(Nat)] /\ ending[p] \in Seq(Nat)
      /\ isWriteLeader[p] \in Nat /\ Len(ending[p]) \in Nat /\ now \in Nat
      /\ isWriteLeader[p] = Len(ending[p]) + (IF lease = p THEN 1 ELSE 0) /\ p # None
  BY ElectorTypes
<1>10. \A q \in Procs : /\ isWriteLeader[q] = Len(ending[q]) + (IF lease = q THEN 1 ELSE 0)
                       /\ Len(ending[q]) \in Nat /\ q # None
  BY ElectorTypes
<1>1. PICK c \in BOOLEAN : c <=> isWriteLeader[p] = 1
  OBVIOUS
<1>2. /\ broadcastWriteLeader(p, c, FALSE) /\ lease' = lease
      /\ UNCHANGED <<now, object, informerVars, tasks, worker, held, cacheVars, computed, swapped>>
      /\ isWriteLeader' = [isWriteLeader EXCEPT ![p] = isWriteLeader[p] - 1]
      /\ ending' = [ending EXCEPT ![p] = Tail(ending[p])] /\ ending[p] # <<>> /\ Head(ending[p]) <= now
  BY <1>1 DEF EndWrite, broadcastWriteLeader
<1>3. PICK e \in Seq(Nat) :
        /\ e = Tail(ending[p]) /\ Len(ending[p]) = Len(e) + 1 /\ Len(e) \in Nat
        /\ \A i \in 1..Len(e) : e[i] = ending[p][i + 1]
  <2>1. PICK s \in Seq(Nat) : s = ending[p] /\ s # <<>>
    BY <1>0, <1>2
  <2>2. Tail(s) \in Seq(Nat) /\ Len(Tail(s)) = Len(s) - 1 /\ (\A i \in 1..(Len(s) - 1) : Tail(s)[i] = s[i + 1])
        /\ Len(s) \in Nat /\ Len(s) # 0
    BY <2>1
  <2>3. PICK e \in Seq(Nat) : e = Tail(s)
    BY <2>2
  <2>4. Len(e) = Len(s) - 1 /\ Len(s) = Len(e) + 1 /\ Len(e) \in Nat
    BY <2>2, <2>3
  <2> QED
    BY <2>1, <2>2, <2>3, <2>4
<1>4. /\ ending' \in [Procs -> Seq(Nat)] /\ ending'[p] = e /\ \A q \in Procs : q # p => ending'[q] = ending[q]
  BY <1>0, <1>2, <1>3
<1>5. /\ isWriteLeader[p] >= 1 /\ isWriteLeader[p] = Len(e) + 1 + (IF lease = p THEN 1 ELSE 0)
      /\ lease = p \/ Len(e) >= 1 => isWriteLeader[p] # 1
  <2>1. PICK m \in Nat : m = Len(e)
    BY <1>3
  <2>2. isWriteLeader[p] = m + 1 + (IF lease = p THEN 1 ELSE 0)
    BY <1>0, <1>3, <2>1
  <2>3. CASE lease = p
    BY <2>1, <2>2, <2>3
  <2>4. CASE lease # p
    BY <2>1, <2>2, <2>4
  <2> QED
    BY <2>3, <2>4
<1>6. /\ isWriteLeader' \in [Procs -> Nat] /\ isWriteLeader'[p] = isWriteLeader[p] - 1
      /\ \A q \in Procs : q # p => isWriteLeader'[q] = isWriteLeader[q]
  <2>1. PICK n \in Nat : n = isWriteLeader[p] - 1
    BY <1>0, <1>5
  <2> QED
    BY <1>0, <1>2, <2>1
<1>7. \A q \in Procs : isWriteLeader'[q] = Len(ending'[q]) + (IF lease' = q THEN 1 ELSE 0)
  <2> SUFFICES ASSUME NEW q \in Procs PROVE isWriteLeader'[q] = Len(ending'[q]) + (IF lease = q THEN 1 ELSE 0)
    BY <1>2
  <2>1. CASE q = p
    <3>1. PICK m \in Nat : m = Len(e)
      BY <1>3
    <3>2. isWriteLeader'[p] = m + (IF lease = p THEN 1 ELSE 0)
      BY <1>5, <1>6, <3>1
    <3> QED
      BY <1>4, <2>1, <3>1, <3>2
  <2>2. CASE q # p
    BY <1>2, <1>4, <1>6, <1>10, <2>2
  <2> QED
    BY <2>1, <2>2
<1>8. (c => (FALSE <=> isWriteLeader'[p] > 0)) /\ (~c => (isWriteLeader'[p] > 0 <=> isWriteLeader[p] > 0))
  <2>1. PICK n \in Nat : n = isWriteLeader[p] /\ n >= 1
    BY <1>0, <1>5
  <2>2. (n = 1 => ~(isWriteLeader'[p] > 0)) /\ (n # 1 => isWriteLeader'[p] > 0 /\ n > 0)
    BY <1>6, <2>1
  <2> QED
    BY <1>1, <2>1, <2>2, Zenon
<1>9. ASSUME NEW q \in Procs, NEW t \in held[q], now < t + L, Steady(q, t)
      PROVE  /\ lease' = q \/ \E i \in 1..Len(ending'[q]) : ending'[q][i] >= t + L
             /\ q = p => ~c
  <2>a. held[q] \subseteq Nat
    BY ElectorTypes
  <2>b. L \in Nat
    BY PipelineAssumption
  <2>0. t \in Nat /\ t + L \in Nat
    BY <2>a, <2>b
  <2>1. CASE q # p
    BY <1>2, <1>4, <1>9, <2>1 DEF Steady
  <2>2. CASE q = p /\ lease = p
    BY <1>1, <1>2, <1>5, <2>2
  <2>3. CASE q = p /\ lease # p
    <3>1. PICK i \in 1..Len(ending[p]) : ending[p][i] >= t + L
      BY <1>9, <2>3 DEF Steady
    <3>2. Head(ending[p]) = ending[p][1]
      BY <1>0, <1>2
    <3>3. i # 1
      <4>1. ending[p][1] \in Nat /\ ending[p][1] <= now /\ ending[p][i] >= t + L
        <5>1. 1 \in 1..Len(ending[p])
          BY <1>0, <1>3
        <5> QED
          BY <1>0, <1>2, <3>1, <3>2, <5>1
      <4> QED
        BY <1>0, <1>9, <2>0, <4>1
    <3>4. PICK j \in 1..Len(e) : i = j + 1
      <4>1. i - 1 \in 1..Len(e) /\ i = (i - 1) + 1
        BY <1>3, <3>1, <3>3
      <4> QED
        BY <4>1
    <3>5. ending'[p][j] >= t + L
      BY <1>3, <1>4, <3>1, <3>4
    <3>6. isWriteLeader[p] # 1
      <4>1. Len(e) >= 1
        BY <1>3, <3>4
      <4> QED
        BY <1>5, <4>1
    <3> QED
      BY <1>1, <1>4, <2>3, <3>4, <3>5, <3>6
  <2> QED
    BY <2>1, <2>2, <2>3
<1>11. PICK b \in BOOLEAN : broadcastWriteLeader(p, c, b) /\ (c => (b <=> isWriteLeader'[p] > 0))
  BY <1>2, <1>8
<1>12. lease' \in Procs \cup {None}
  BY <1>2 DEF PipelineInv, PipelineTypeOK
<1>13. ~c => (isWriteLeader'[p] > 0 <=> isWriteLeader[p] > 0)
  BY <1>8
<1>14. UNCHANGED <<now, object, informerVars, tasks, worker, held, cacheVars, computed, swapped>>
  BY <1>2
<1> QED
  BY <1>4, <1>6, <1>7, <1>9, <1>11, <1>12, <1>13, <1>14, ElectorInv

LEMMA TickInv == ASSUME PipelineInv, Tick PROVE PipelineInv'
<1> USE DEF informerVars, leaderVars, cacheVars
<1>0. /\ PipelineTypeOK /\ InformersSound /\ WritersSound /\ LeadersSound /\ HoldersWrite /\ NothingLost
      /\ UNCHANGED <<object, store, hasSynced, wentBack, tasks, worker, lease, isWriteLeader, ending, casts, swapped,
                     cache, snapshot, failed, computed>>
      /\ now' = now + 1 /\ \A p \in Procs : casts[p] = <<>>
      /\ held' = [p \in Procs |-> held[p] \cup (IF lease = p THEN {now} ELSE {})]
  BY DEF PipelineInv, Tick
<1>1. now \in Nat /\ now' \in Nat /\ held \in [Procs -> SUBSET Nat] /\ computed \in [Procs -> SUBSET Computations]
  BY <1>0 DEF PipelineTypeOK
<1>2. /\ held' \in [Procs -> SUBSET Nat]
      /\ \A p \in Procs : \A t \in held'[p] : t \in Nat /\ (t \in held[p] \/ (lease = p /\ t = now))
  BY <1>0, <1>1
<1>3. PipelineTypeOK'
  BY <1>0, <1>1, <1>2 DEF PipelineTypeOK
<1>4. InformersSound'
  BY <1>0 DEF InformersSound
<1>5. WritersSound'
  BY <1>0 DEF WritersSound
<1>6. LeadersSound'
  BY <1>0, LeadersStay
<1>7. ASSUME ~swapped, NEW h \in Procs, lease = h PROVE worker[h].leader /\ worker[h].queue = <<>>
  <2>1. LastCast(h) = worker[h].leader
    BY <1>0 DEF LastCast
  <2>2. PICK n \in Nat : n = Len(ending[h])
    BY ElectorTypes
  <2>3. isWriteLeader[h] = n + 1
    BY <1>0, <1>7, <2>2 DEF LeadersSound
  <2>4. isWriteLeader[h] > 0
    BY <2>2, <2>3
  <2>5. (LastCast(h) <=> isWriteLeader[h] > 0) /\ (worker[h].leader => worker[h].queue = <<>>)
    BY <1>0, <1>7 DEF LeadersSound
  <2> QED
    BY <2>1, <2>4, <2>5
<1>8. HoldersWrite'
  <2> SUFFICES ASSUME ~swapped, NEW p \in Procs, NEW t \in held'[p]
               PROVE  t < now' /\ (now' < t + L => Steady(p, t))
    BY <1>0, SteadyStays DEF HoldersWrite
  <2>1. t \in Nat /\ L \in Nat
    BY <1>2, PipelineAssumption
  <2>2. CASE t \in held[p]
    <3>1. t < now /\ (now < t + L => Steady(p, t))
      BY <1>0, <2>2 DEF HoldersWrite
    <3> QED
      BY <1>0, <1>1, <2>1, <3>1
  <2>3. CASE lease = p /\ t = now
    <3>1. t < now'
      BY <1>0, <1>1, <2>3
    <3>2. Steady(p, t)
      BY <1>0, <1>7, <2>3 DEF Steady
    <3> QED
      BY <3>1, <3>2
  <2> QED
    BY <1>2, <2>2, <2>3
<1>9. NothingLost'
  <2> SUFFICES ASSUME ~swapped, NEW p \in Procs, NEW c \in computed[p], ~Stored(c.fn)
               PROVE  (Waiting(p, c) \/ now' > c.at + L) /\ \A t \in held'[p] : Apart(t, c)
    <3>1. /\ \A fn : Stored(fn)' <=> Stored(fn)
          /\ \A q, c : Waiting(q, c)' <=> Waiting(q, c)
      BY <1>0, StoredStays, WaitingStays
    <3> QED
      BY <1>0, <3>1 DEF NothingLost, Apart
  <2>1. c.at \in Nat /\ L \in Nat
    BY <1>1, PipelineAssumption DEF Computations
  <2>2. (Waiting(p, c) \/ now > c.at + L) /\ \A t \in held[p] : Apart(t, c)
    BY <1>0 DEF NothingLost
  <2>3. Waiting(p, c) \/ now' > c.at + L
    BY <1>0, <1>1, <2>1, <2>2
  <2>4. ASSUME lease = p PROVE Apart(now, c)
    <3>1. ~Waiting(p, c)
      BY <1>7, <2>4 DEF Waiting
    <3> QED
      BY <1>1, <2>1, <2>2, <3>1 DEF Apart
  <2> QED
    BY <1>2, <2>2, <2>3, <2>4
<1> QED
  BY <1>3, <1>4, <1>5, <1>6, <1>8, <1>9 DEF PipelineInv

\* A process that starts anew promises nothing about what it had.
LEMMA CrashProcInv == ASSUME PipelineInv, NEW p \in Procs, Crash(p) PROVE PipelineInv'
<1> USE DEF cacheVars
<1>0. /\ PipelineTypeOK /\ InformersSound /\ WritersSound /\ LeadersSound /\ HoldersWrite /\ NothingLost
      /\ UNCHANGED <<now, object, wentBack, cache, snapshot, failed, swapped>>
      /\ store' = [store EXCEPT ![p] = 0] /\ hasSynced' = [hasSynced EXCEPT ![p] = FALSE]
      /\ tasks' = [tasks EXCEPT ![p] = <<>>]
      /\ worker' = [worker EXCEPT ![p] = [leader |-> FALSE, queue |-> <<>>]]
      /\ lease' = (IF lease = p THEN None ELSE lease)
      /\ isWriteLeader' = [isWriteLeader EXCEPT ![p] = 0]
      /\ ending' = [ending EXCEPT ![p] = <<>>] /\ held' = [held EXCEPT ![p] = {}]
      /\ casts' = [casts EXCEPT ![p] = <<>>] /\ computed' = [computed EXCEPT ![p] = {}]
  BY DEF PipelineInv, Crash
<1>1. /\ store' \in [Procs -> 0..MaxRv] /\ store'[p] = 0 /\ hasSynced' \in [Procs -> BOOLEAN]
      /\ \A q \in Procs : q # p => store'[q] = store[q] /\ hasSynced'[q] = hasSynced[q]
  <2>1. 0 \in 0..MaxRv
    BY PipelineAssumption
  <2> QED
    BY <1>0, <2>1 DEF PipelineTypeOK
<1>2. /\ tasks' \in [Procs -> Seq(Fns)] /\ tasks'[p] = <<>> /\ \A q \in Procs : q # p => tasks'[q] = tasks[q]
  BY <1>0 DEF PipelineTypeOK
<1>3. /\ worker' \in [Procs -> [leader : BOOLEAN, queue : Seq(KeptFns)]]
      /\ ~worker'[p].leader /\ worker'[p].queue = <<>> /\ \A q \in Procs : q # p => worker'[q] = worker[q]
  <2>1. [leader |-> FALSE, queue |-> <<>>] \in [leader : BOOLEAN, queue : Seq(KeptFns)]
    OBVIOUS
  <2>2. worker \in [Procs -> [leader : BOOLEAN, queue : Seq(KeptFns)]]
    BY <1>0 DEF PipelineTypeOK
  <2> QED
    BY <1>0, <2>1, <2>2
<1>4. /\ isWriteLeader' \in [Procs -> Nat] /\ isWriteLeader'[p] = 0
      /\ \A q \in Procs : q # p => isWriteLeader'[q] = isWriteLeader[q]
  BY <1>0 DEF PipelineTypeOK
<1>5. /\ ending' \in [Procs -> Seq(Nat)] /\ ending'[p] = <<>> /\ \A q \in Procs : q # p => ending'[q] = ending[q]
  BY <1>0 DEF PipelineTypeOK
<1>6. /\ casts' \in [Procs -> Seq(BOOLEAN)] /\ casts'[p] = <<>> /\ \A q \in Procs : q # p => casts'[q] = casts[q]
  BY <1>0 DEF PipelineTypeOK
<1>7. /\ computed' \in [Procs -> SUBSET Computations] /\ computed'[p] = {}
      /\ held' \in [Procs -> SUBSET Nat] /\ held'[p] = {}
      /\ \A q \in Procs : q # p => computed'[q] = computed[q] /\ held'[q] = held[q]
  BY <1>0 DEF PipelineTypeOK
<1>8. lease' \in Procs \cup {None} /\ lease' # p /\ \A q \in Procs : q # p => (lease' = q <=> lease = q)
  BY <1>0, PipelineAssumption DEF PipelineTypeOK
<1>9. PipelineTypeOK'
  BY <1>0, <1>1, <1>2, <1>3, <1>4, <1>5, <1>6, <1>7, <1>8 DEF PipelineTypeOK
<1>10. InformersSound'
  <2> SUFFICES ASSUME NEW q \in Procs
               PROVE  /\ store'[q] <= object.rv
                      /\ ~hasSynced'[q] => store'[q] = 0
                      /\ \A i \in 1..Len(tasks'[q]) : Sound(tasks'[q][i], object, wentBack)
    BY <1>0 DEF InformersSound
  <2>1. CASE q = p
    <3>1. 0 <= object.rv
      BY <1>0, PipelineAssumption DEF PipelineTypeOK
    <3> QED
      BY <1>1, <1>2, <2>1, <3>1
  <2>2. CASE q # p
    BY <1>0, <1>1, <1>2, <2>2 DEF InformersSound
  <2> QED
    BY <2>1, <2>2
<1>11. WritersSound'
  <2>1. ASSUME NEW q \in Procs, NEW i \in 1..Len(worker'[q].queue) PROVE SoundWriter(worker'[q].queue[i].fn, object, wentBack)
    <3>1. q # p
      BY <1>3, <2>1
    <3> QED
      BY <1>0, <1>3, <2>1, <3>1 DEF WritersSound
  <2> QED
    BY <1>0, <2>1 DEF WritersSound
<1>12. LeadersSound'
  <2> SUFFICES ASSUME NEW q \in Procs
               PROVE  /\ worker'[q].leader => worker'[q].queue = <<>>
                      /\ isWriteLeader'[q] = Len(ending'[q]) + (IF lease' = q THEN 1 ELSE 0)
                      /\ ~swapped' => (LastCast(q)' <=> isWriteLeader'[q] > 0)
    BY DEF LeadersSound
  <2>1. CASE q = p
    <3>1. ~LastCast(q)'
      BY <1>3, <1>6, <2>1 DEF LastCast
    <3> QED
      BY <1>3, <1>4, <1>5, <1>8, <2>1, <3>1
  <2>2. CASE q # p
    <3>1. LastCast(q)' = LastCast(q)
      BY <1>3, <1>6, <2>2 DEF LastCast
    <3>2. /\ worker[q].leader => worker[q].queue = <<>>
          /\ isWriteLeader[q] = Len(ending[q]) + (IF lease = q THEN 1 ELSE 0)
          /\ ~swapped => (LastCast(q) <=> isWriteLeader[q] > 0)
      BY <1>0 DEF LeadersSound
    <3> QED
      BY <1>0, <1>3, <1>4, <1>5, <1>8, <2>2, <3>1, <3>2
  <2> QED
    BY <2>1, <2>2
<1>13. HoldersWrite'
  <2> SUFFICES ASSUME ~swapped, NEW q \in Procs, NEW t \in held'[q] PROVE t < now /\ (now < t + L => Steady(q, t)')
    BY <1>0 DEF HoldersWrite
  <2>1. q # p /\ t \in held[q]
    BY <1>7
  <2>2. Steady(q, t) => Steady(q, t)'
    BY <1>3, <1>5, <1>6, <1>8, <2>1 DEF Steady
  <2> QED
    BY <1>0, <2>1, <2>2 DEF HoldersWrite
<1>14. NothingLost'
  <2> SUFFICES ASSUME ~swapped, NEW q \in Procs, NEW c \in computed'[q]
               PROVE  Stored(c.fn)' \/ ((Waiting(q, c)' \/ now > c.at + L) /\ \A t \in held'[q] : Apart(t, c))
    BY <1>0 DEF NothingLost, Apart
  <2>1. q # p /\ c \in computed[q] /\ held'[q] = held[q]
    BY <1>7
  <2>2. (Stored(c.fn)' <=> Stored(c.fn)) /\ (Waiting(q, c)' <=> Waiting(q, c))
    BY <1>0, <1>3, <2>1, StoredStays DEF Waiting
  <2> QED
    BY <1>0, <2>1, <2>2 DEF NothingLost
<1> QED
  BY <1>9, <1>10, <1>11, <1>12, <1>13, <1>14 DEF PipelineInv

LEMMA PipelineInitInv == PipelineInit => PipelineInv
<1> SUFFICES ASSUME PipelineInit PROVE PipelineInv
  OBVIOUS
<1>1. PipelineTypeOK
  <2>1. object \in [rv : 1..MaxRv, gone : BOOLEAN] /\ store \in [Procs -> 0..MaxRv] /\ snapshot \in 0..MaxRv
    BY PipelineAssumption DEF PipelineInit
  <2>2. worker \in [Procs -> [leader : BOOLEAN, queue : Seq(KeptFns)]]
    BY DEF PipelineInit
  <2>3. casts \in [Procs -> Seq(BOOLEAN)] /\ tasks \in [Procs -> Seq(Fns)] /\ ending \in [Procs -> Seq(Nat)]
    BY DEF PipelineInit
  <2> QED
    BY <2>1, <2>2, <2>3 DEF PipelineInit, PipelineTypeOK
<1>2. InformersSound
  BY DEF PipelineInit, InformersSound
<1>3. WritersSound
  BY DEF PipelineInit, WritersSound
<1>4. LeadersSound
  <2> SUFFICES ASSUME NEW p \in Procs
               PROVE  /\ worker[p].leader => worker[p].queue = <<>>
                      /\ isWriteLeader[p] = Len(ending[p]) + (IF lease = p THEN 1 ELSE 0)
                      /\ ~swapped => (LastCast(p) <=> isWriteLeader[p] > 0)
    BY DEF LeadersSound
  <2>1. /\ worker[p].leader = FALSE /\ casts[p] = <<>> /\ isWriteLeader[p] = 0 /\ ending[p] = <<>> /\ lease # p
    BY PipelineAssumption DEF PipelineInit
  <2>2. ~LastCast(p)
    BY <2>1 DEF LastCast
  <2> QED
    BY <2>1, <2>2
<1>5. HoldersWrite /\ NothingLost
  BY DEF PipelineInit, HoldersWrite, NothingLost
<1> QED
  BY <1>1, <1>2, <1>3, <1>4, <1>5 DEF PipelineInv

LEMMA PipelineStutter == ASSUME PipelineInv, UNCHANGED pipelineVars PROVE PipelineInv'
<1> USE DEF pipelineVars, clusterVars, informerVars, leaderVars, cacheVars
<1>0. /\ PipelineTypeOK /\ InformersSound /\ WritersSound /\ LeadersSound /\ HoldersWrite /\ NothingLost
  BY DEF PipelineInv
<1>1. PipelineTypeOK'
  BY <1>0 DEF PipelineTypeOK
<1>2. InformersSound'
  BY <1>0 DEF InformersSound
<1>3. WritersSound'
  BY <1>0 DEF WritersSound
<1>4. LeadersSound'
  BY <1>0, LeadersStay
<1>5. HoldersWrite' /\ NothingLost'
  BY <1>0, HistoryStays
<1> QED
  BY <1>1, <1>2, <1>3, <1>4, <1>5 DEF PipelineInv

LEMMA PipelineStep == PipelineInv /\ [PipelineNext]_pipelineVars => PipelineInv'
  BY WriteInv, TickInv, InformerInv, RunTaskInv, SetWriteLeaderInv, AcquireWriteInv, LoseWriteInv, EndWriteInv,
     CrashProcInv, PipelineStutter DEF PipelineNext

-----------------------------------------------------------------------------
(* Theorems about the pipeline *)

\* Whatever the informers, the workers, the elector and etcd do, in any number of
\* processes that may crash, and however long nobody has the write lease: what is
\* written was made from versions that the object had (processSwapResult, onUpdate,
\* onDelete), a process that writes keeps nothing and its broadcasts end with what
\* it counts, a process that had the lease less than L ago writes
\* (resyncMonitorsLoop), and what it does not write is kept for L (runWorker).
THEOREM PipelineInvariant == PipelineSpec => []PipelineInv
  BY PipelineInitInv, PipelineStep, PTL DEF PipelineSpec

\* A patch is stored or refused by etcd if the process that computed it had the write
\* lease less than L before or at most L after and has not crashed since, however
\* often the lease changes hands and however long it is vacant in between (runWorker,
\* resyncMonitorsLoop), for every number of processes and versions and every L.
THEOREM NoPatchIsLost == PipelineSpec => []NoPatchLost
<1>1. PipelineInv => NoPatchLost
  BY DEF PipelineInv, NothingLost, Apart, NoPatchLost
<1> QED
  BY <1>1, PipelineInvariant, PTL

\* The diff that the decorator logs with an update is of versions that span it, and
\* what it logs with a deletion is a version that the object had (tryDecorate,
\* Fetch), in both settings of the version that keys the cache.
THEOREM DecorationIsSound == PipelineSpec => []DecorationCoversUpdate
<1>1. ASSUME PipelineInv PROVE DecorationCoversUpdate
  <2>0. /\ WritersSound /\ cache \in [1..MaxRv -> Fns \cup {None}] /\ snapshot \in 0..MaxRv
        /\ object.rv \in 1..MaxRv
    BY <1>1 DEF PipelineInv, PipelineTypeOK
  <2>1. ASSUME ~wentBack, NEW old \in 1..(object.rv - 1), NEW new \in {0, old + 1},
               tryDecorate(Message("update", old, new)) # None
        PROVE  LET patch == tryDecorate(Message("update", old, new)) IN
                 patch.kind = "patch" /\ patch.old <= old /\ old < patch.new
    <3>1. old \in Nat /\ new \in Nat /\ old # new
      BY <2>0, <2>1, PipelineAssumption
    <3>2. tryDecorate(Message("update", old, new)) = Fetch(old, new)
      BY <3>1 DEF tryDecorate, tryUpdateOnce, Message
    <3>3. PICK rv : rv = ChooseResourceVersion(old, new)
      OBVIOUS
    <3>4. rv \in 1..MaxRv /\ Fetch(old, new) = cache[rv] /\ cache[rv] # None
      <4>1. DOMAIN cache = 1..MaxRv
        BY <2>0
      <4> QED
        BY <2>1, <3>2, <3>3, <4>1 DEF Fetch
    <3>5. PICK fn \in Fns : fn = cache[rv] /\ fn.kind = "patch" /\ StoreKey(fn) = rv /\ SoundWriter(fn, object, wentBack)
      BY <2>0, <3>4 DEF WritersSound
    <3>6. fn.old \in Nat /\ fn.new \in Nat /\ fn.old < fn.new
      BY <2>1, <3>5 DEF Fns, SoundWriter, Sound, IsNil
    <3>7. CASE UseOldResourceVersion
      <4>1. fn.old = old
        BY <3>3, <3>5, <3>7 DEF StoreKey, ChooseResourceVersion
      <4> QED
        BY <3>1, <3>2, <3>4, <3>5, <3>6, <4>1
    <3>8. CASE ~UseOldResourceVersion
      <4>1. fn.new = new
        BY <3>3, <3>5, <3>8 DEF StoreKey, ChooseResourceVersion
      <4>2. new = old + 1
        BY <2>1, <3>4, <3>5, <3>6, <4>1
      <4>3. fn.old <= old /\ old < fn.new
        BY <3>1, <3>6, <4>1, <4>2
      <4> QED
        BY <3>2, <3>4, <3>5, <4>3
    <3> QED
      BY <3>7, <3>8
  <2>2. ASSUME tryDecorate(Message("delete", 0, 0)) # None
        PROVE  LET logged == tryDecorate(Message("delete", 0, 0)) IN
                 logged.kind = "snapshot" /\ object.gone /\ logged.new <= object.rv
    <3>1. tryDecorate(Message("delete", 0, 0)) = FetchSnapshot("deletion")
      BY DEF tryDecorate, tryCreateDeleteOnce, Message, VerbToSnapshotName
    <3>2. snapshot # 0 /\ FetchSnapshot("deletion") = Snapshot(snapshot)
      BY <2>2, <3>1 DEF FetchSnapshot
    <3>3. object.gone /\ snapshot <= object.rv
      BY <2>0, <3>2 DEF WritersSound
    <3>4. Snapshot(snapshot).kind = "snapshot" /\ Snapshot(snapshot).new = snapshot
      BY DEF Snapshot
    <3> QED
      BY <3>1, <3>2, <3>3, <3>4
  <2> QED
    BY <2>1, <2>2 DEF DecorationCoversUpdate
<1> QED
  BY <1>1, PipelineInvariant, PTL
=============================================================================
