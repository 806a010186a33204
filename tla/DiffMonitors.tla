---------------------------- MODULE DiffMonitors ----------------------------
(***************************************************************************)
(* The diff controller of one process keeps a monitor (an informer) for    *)
(* each type that discovery has published, from the first notice of its    *)
(* term as watch leader on.  The elector may begin a term while the loop   *)
(* of the last one is still under way.                                     *)
(***************************************************************************)
EXTENDS Discovery

CONSTANTS
  Listable,      \* the types with verbs list and watch that the filter admits
  MaxTerms       \* bound: terms as watch leader

ASSUME MonitorsAssumption == Listable \subseteq Gvrs /\ MaxTerms \in Nat

Terms == 1..MaxTerms

VARIABLES
  loop,          \* resyncMonitorsLoop of a term: [at, live, expected, toStart, toStop, drained]
  lockHeld,      \* monitorsLock is held for good
  monitors,      \* ctrl.monitors: [gvr, term]
  running,       \* the monitors whose context is live
  overlap        \* history: two terms were in resyncMonitors together

monitorVars == <<loop, lockHeld, monitors, running, overlap>>
vars == <<discoveryVars, monitorVars>>

\* A loop that is not in resyncMonitors.
Outside(at, live) ==
  [at |-> at, live |-> live, expected |-> {}, toStart |-> {}, toStop |-> {}, drained |-> {}]

Init ==
  /\ DiscoveryInit
  /\ loop = [t \in Terms |-> Outside("none", FALSE)]
  /\ lockHeld = FALSE
  /\ monitors = {}
  /\ running = {}
  /\ overlap = FALSE

Resyncing(t) == loop[t].at \in {"compare", "start", "add", "drain", "close"}
Monitored(m) == {x.gvr : x \in m}
Step(t, l) == loop' = [loop EXCEPT ![t] = l]

-----------------------------------------------------------------------------
\* The elector begins the next term, and ends it.
BeginTerm(t) ==
  /\ loop[t].at = "none" /\ \A u \in 1..(t - 1) : loop[u].at # "none" /\ ~loop[u].live
  /\ Step(t, Outside("select", TRUE))
  /\ UNCHANGED <<discoveryVars, lockHeld, monitors, running, overlap>>

EndTerm(t) ==
  /\ loop[t].live
  /\ Step(t, [loop[t] EXCEPT !.live = FALSE])
  /\ UNCHANGED <<discoveryVars, lockHeld, monitors, running, overlap>>

\* case <-discoveryResyncCh, then GetAll.
resyncMonitors(t) ==
  /\ loop[t].at = "select" /\ resyncCh
  /\ resyncCh' = FALSE
  /\ Step(t, [Outside("compare", loop[t].live) EXCEPT !.expected = gvrDetails])
  /\ overlap' = (overlap \/ \E u \in Terms \ {t} : Resyncing(u))
  /\ UNCHANGED <<server, gvrDetails, cdc, resyncRequestCh, lookup, changes, lockHeld, monitors, running>>

shouldMonitorType(g) == g \in Listable

compareMonitors_keep(t) ==
  /\ loop[t].at = "compare" /\ ~lockHeld
  /\ Step(t, [loop[t] EXCEPT !.at = "start",
       !.toStart = {g \in loop[t].expected : shouldMonitorType(g) /\ g \notin Monitored(monitors)}])
  /\ UNCHANGED <<discoveryVars, lockHeld, monitors, running, overlap>>

compareMonitors(t) ==
  /\ loop[t].at = "compare" /\ ~lockHeld
  /\ Step(t, [loop[t] EXCEPT !.at = "start",
       !.toStart = {g \in loop[t].expected : shouldMonitorType(g) /\ g \notin Monitored(monitors)},
       !.toStop = Monitored(monitors) \ loop[t].expected])
  /\ UNCHANGED <<discoveryVars, lockHeld, monitors, running, overlap>>

Started(t) == [gvr : loop[t].toStart, term : {t}]

\* startMonitor for each, without the lock; the context of a monitor is not that
\* of the term.
startMonitor(t) ==
  /\ loop[t].at = "start"
  /\ running' = running \cup Started(t)
  /\ Step(t, [loop[t] EXCEPT !.at = "add"])
  /\ UNCHANGED <<discoveryVars, lockHeld, monitors, overlap>>

\* A monitor replaces the one of its type.
addMonitors(t) ==
  /\ loop[t].at = "add" /\ ~lockHeld
  /\ monitors' = {m \in monitors : m.gvr \notin loop[t].toStart} \cup Started(t)
  /\ Step(t, [loop[t] EXCEPT !.at = "drain"])
  /\ UNCHANGED <<discoveryVars, lockHeld, running, overlap>>

Drained(t) == {m \in monitors : m.gvr \in loop[t].toStop}

drainMonitors_open(t) ==
  /\ loop[t].at = "drain" /\ ~lockHeld
  /\ monitors' = monitors \ Drained(t)
  /\ Step(t, Outside("select", loop[t].live))
  /\ UNCHANGED <<discoveryVars, lockHeld, running, overlap>>

\* The monitors leave the map; a type that another term has drained meanwhile
\* yields nil.
drainMonitors(t) ==
  /\ loop[t].at = "drain" /\ ~lockHeld
  /\ monitors' = monitors \ Drained(t)
  /\ Step(t, [loop[t] EXCEPT !.at = "close", !.drained = Drained(t)])
  /\ UNCHANGED <<discoveryVars, lockHeld, running, overlap>>

\* monitor.close for each, without the lock, and the retry loop is content.
closeMonitors(t) ==
  /\ loop[t].at = "close" /\ loop[t].toStop \subseteq Monitored(loop[t].drained)
  /\ running' = running \ loop[t].drained
  /\ Step(t, Outside("select", loop[t].live))
  /\ UNCHANGED <<discoveryVars, lockHeld, monitors, overlap>>

\* monitor.close of nil panics, and RecoverPanic does not recover: the process
\* ends, with every monitor, and starts anew.
closeNil(t) ==
  /\ loop[t].at = "close" /\ ~(loop[t].toStop \subseteq Monitored(loop[t].drained))
  /\ loop' = [u \in Terms |-> IF loop[u].at = "none" THEN loop[u] ELSE Outside("ended", FALSE)]
  /\ lockHeld' = FALSE /\ monitors' = {} /\ running' = {} /\ overlap' = FALSE
  /\ DiscoveryRestarts

\* case <-ctx.Done(): the loop takes monitorsLock, and drainAllMonitors waits for
\* that same lock.
drainAllMonitors(t) ==
  /\ loop[t].at = "select" /\ ~loop[t].live /\ ~lockHeld
  /\ lockHeld' = TRUE
  /\ Step(t, Outside("stuck", FALSE))
  /\ UNCHANGED <<discoveryVars, monitors, running, overlap>>

LoopStep(t) ==
  \/ resyncMonitors(t) \/ compareMonitors(t) \/ startMonitor(t) \/ addMonitors(t)
  \/ drainMonitors(t) \/ closeMonitors(t) \/ closeNil(t) \/ drainAllMonitors(t)

Next ==
  \/ (ServerChanges \/ LookupAgain \/ \E g \in Gvrs : Lookup(g)) /\ UNCHANGED monitorVars
  \/ DiscoveryLoop /\ UNCHANGED monitorVars
  \/ \E t \in Terms : BeginTerm(t) \/ EndTerm(t) \/ LoopStep(t)

\* The goroutines of discovery and of each loop run, and the API server answers
\* often enough.
Fairness ==
  /\ WF_vars(wake /\ UNCHANGED monitorVars)
  /\ WF_vars(notify /\ UNCHANGED monitorVars)
  /\ WF_vars(publish /\ UNCHANGED monitorVars)
  /\ SF_vars(query /\ cdc'.at = "publish" /\ UNCHANGED monitorVars)
  /\ \A t \in Terms : WF_vars(LoopStep(t))

Spec == Init /\ [][Next]_vars /\ Fairness

-----------------------------------------------------------------------------
\* Whenever no notice is pending and no resync is under way, the monitors of a
\* leader that has worked one off are those of the published types: the single
\* slot of the channel loses no change, because the types are published before
\* the notice and read after it.  (Terms that overlap may disturb this.)
MonitorsFollowDiscovery ==
  cdc.at # "notify" /\ ~resyncCh /\ ~overlap /\ (\A t \in Terms : ~Resyncing(t)) =>
    Monitored(monitors) = gvrDetails \cap Listable

\* The monitors that term t has started and is to add, or has drained and is to
\* close.
InHand(t) ==
  (IF loop[t].at = "add" THEN Started(t) ELSE {}) \cup
  (IF loop[t].at = "close" THEN loop[t].drained ELSE {})

\* Every monitor that runs can be reached: through ctrl.monitors, to be closed
\* some day, or in the hands of the resync that has started it and is to add it,
\* or has drained it and is to close it.  A resync acts on lists that it made
\* under an earlier hold of the lock; only terms that were in resyncMonitors
\* together leave a monitor behind.
NoOrphanMonitor ==
  ~overlap => \A m \in running : m \in monitors \/ \E t \in Terms : m \in InHand(t)

\* Not so: a monitor that runs is in ctrl.monitors, or will be added or closed.
\* A term that has started monitors waits for monitorsLock, which the loop of the
\* term before may by then hold for good (drainAllMonitors): they run outside the
\* map, and no terms have overlapped in resyncMonitors.
StartedIsAdded ==
  lockHeld /\ ~overlap => \A t \in Terms : loop[t].at = "add" => Started(t) \subseteq monitors

\* A monitored type that disappears from the cluster loses its monitor in the
\* end, and a new one gets it, while the first term lasts; when it is over,
\* monitorsLock is held for good and the monitors stay as they are.
ServedIsMonitored ==
  \A g \in Listable :
    /\ g \in server ~> g \in Monitored(monitors) \/ g \notin server \/ ~loop[1].live
    /\ g \notin server ~> g \notin Monitored(monitors) \/ g \in server \/ ~loop[1].live
=============================================================================
