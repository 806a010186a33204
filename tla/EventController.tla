-------------------------- MODULE EventController ---------------------------
(***************************************************************************)
(* The event controller under its leader election.  The leader lists and   *)
(* watches the events of the cluster, skips those before the time that the *)
(* config map had when its term began, sends the others to the aggregator  *)
(* and now and then saves the time of the latest.  Time is in ticks, and   *)
(* the saved time in whole seconds (RFC 3339).  One worker to the term.    *)
(***************************************************************************)
EXTENDS Elector

CONSTANTS
  TicksPerSecond,
  MaxAge,        \* 5 minutes, in ticks
  Cap,           \* capacity of configMapUpdateCh
  MaxTime, MaxEvents   \* bounds

ASSUME ClockAssumption == TicksPerSecond \in Nat \ {0} /\ None \notin Nat

VARIABLES
  now,
  events,        \* the events of the cluster: event i happened at events[i]
  configMap,     \* of the API server: [ts, rv], ts = None before it exists, 0 if it does not parse
  past,          \* past[rv]: the time it had at resource version rv (for stale reads)
  isLeader,      \* ctrl.isLeader, by process
  lastEventTime, \* ctrl.lastEventTime, by process
  updateCh,      \* configMapUpdateCh, by process: event times
  sync,          \* syncConfigMap of a term: [at, ts, rv, changed]
  worker,        \* the worker of a term: [at, event, seen]
  accepted,      \* history: the latest event time that went to configMapUpdateCh, or 0
  skipped,       \* history: the latest event time dropped as BeforeRestart, or 0
  reset          \* history: the latest time that replaced one that did not parse, or 0

mapVars == <<configMap, past>>
procVars == <<isLeader, lastEventTime, updateCh>>
history == <<accepted, skipped, reset>>
vars == <<electorVars, now, events, mapVars, procVars, sync, worker, history>>

InSeconds(t) == t - (t % TicksPerSecond)

NoWorker == [at |-> "none", event |-> 0, seen |-> {}]

Later(t, u) == IF t < u THEN u ELSE t

Init ==
  /\ ElectorInit
  /\ now = 2 * TicksPerSecond - 1     \* a second is about to begin
  /\ events = <<>>
  /\ \/ configMap = [ts |-> None, rv |-> 0] /\ past = <<>>
     \/ configMap = [ts |-> 0, rv |-> 1] /\ past = <<0>>     \* made by somebody else
  /\ isLeader = [p \in Procs |-> FALSE]
  /\ lastEventTime = [p \in Procs |-> 0]
  /\ updateCh = [p \in Procs |-> <<>>]
  /\ sync = [t \in Terms |-> [at |-> "none", ts |-> 0, rv |-> 0, changed |-> FALSE]]
  /\ worker = [t \in Terms |-> NoWorker]
  /\ accepted = 0
  /\ skipped = 0
  /\ reset = 0

-----------------------------------------------------------------------------
(* The cluster *)

Tick == now < MaxTime /\ now' = now + 1 /\ UNCHANGED <<electorVars, events, mapVars, procVars, sync, worker, history>>

Happens ==
  /\ Len(events) < MaxEvents
  /\ events' = Append(events, now)
  /\ UNCHANGED <<electorVars, now, mapVars, procVars, sync, worker, history>>

Save(ts) ==
  /\ configMap' = [ts |-> ts, rv |-> configMap.rv + 1]
  /\ past' = Append(past, ts)

-----------------------------------------------------------------------------
(* syncConfigMap *)

Sync(t, s) == sync' = [sync EXCEPT ![t] = s]

\* The term ends: runLeader returns, and the deferred store clears the flag, also
\* when the next term of the process has begun already.
Return(t) ==
  /\ Sync(t, [at |-> "ended", ts |-> 0, rv |-> 0, changed |-> FALSE])
  /\ isLeader' = [isLeader EXCEPT ![run[t].proc] = FALSE]
  /\ RunReturns(t)

\* runLeader: set the flag, start the reflector and the workers.
runLeader(t) ==
  /\ run[t].on /\ sync[t].at = "none"
  /\ isLeader' = [isLeader EXCEPT ![run[t].proc] = TRUE]
  /\ Sync(t, [sync[t] EXCEPT !.at = "get"])
  /\ UNCHANGED <<electorVars, now, events, mapVars, lastEventTime, updateCh, worker, history>>

\* A copy of the config map in which nothing is to be saved.
Fresh(ts, rv) == [at |-> "poll", ts |-> ts, rv |-> rv, changed |-> FALSE]

\* A time that does not parse is reset to the current one, but not in the copy.
Begin(t, ts, rv) ==
  /\ Sync(t, Fresh(ts, rv))
  /\ lastEventTime' = [lastEventTime EXCEPT ![run[t].proc] = IF ts = 0 THEN now ELSE ts]
  /\ reset' = IF ts = 0 THEN Later(reset, now) ELSE reset
  /\ worker' = [worker EXCEPT ![t].at = "idle"]

\* Get the config map, from a cache that may lag, or create it; then the
\* workers may start.  An error ends the term.
getConfigMap(t) ==
  /\ run[t].on /\ sync[t].at = "get"
  /\ \/ /\ configMap.ts = None
        /\ Save(InSeconds(now))
        /\ Begin(t, InSeconds(now), configMap.rv + 1)
        /\ UNCHANGED <<electorVars, isLeader>>
     \/ /\ \E rv \in DOMAIN past : Begin(t, past[rv], rv)
        /\ UNCHANGED <<electorVars, isLeader, mapVars>>
     \/ Return(t) /\ UNCHANGED <<mapVars, lastEventTime, worker, reset>>
  /\ UNCHANGED <<now, events, updateCh, accepted, skipped>>

\* The function that handleEvent sends: the saved time only moves forward, and one
\* that does not parse is before every other.
updater(s, time) ==
  [at |-> s.at, ts |-> IF s.ts < time THEN InSeconds(time) ELSE s.ts, rv |-> s.rv, changed |-> TRUE]

\* pollConfigLoop: an update, or the end of the interval.
pollConfigLoop(t) ==
  LET p == run[t].proc IN
  /\ run[t].on /\ sync[t].at = "poll"
  /\ \/ /\ updateCh[p] # <<>>
        /\ Sync(t, updater(sync[t], Head(updateCh[p])))
        /\ updateCh' = [updateCh EXCEPT ![p] = Tail(@)]
     \/ sync[t].changed /\ Sync(t, [sync[t] EXCEPT !.at = "update"]) /\ UNCHANGED updateCh
  /\ UNCHANGED <<electorVars, now, events, mapVars, isLeader, lastEventTime, worker, history>>

\* pollConfigLoop reports shutdown: the last update has a context that is done
\* and fails, and the term ends.
finalize(t) ==
  /\ run[t].on /\ sync[t].at = "poll" /\ ~run[t].live
  /\ Return(t)
  /\ UNCHANGED <<now, events, mapVars, lastEventTime, updateCh, worker, history>>

updateConfigMap_blind(t) ==
  /\ run[t].on /\ sync[t].at = "update"
  /\ Save(sync[t].ts)
  /\ Sync(t, Fresh(sync[t].ts, configMap.rv + 1))
  /\ UNCHANGED <<electorVars, now, events, procVars, worker, history>>

\* Update: succeeds at the resource version of the copy, else the copy is
\* fetched again; another error keeps the copy for the next time.
updateConfigMap(t) ==
  /\ run[t].on /\ sync[t].at = "update"
  /\ \/ /\ run[t].live /\ sync[t].rv = configMap.rv
        /\ Save(sync[t].ts)
        /\ Sync(t, Fresh(sync[t].ts, configMap.rv + 1))
     \/ /\ run[t].live /\ sync[t].rv # configMap.rv
        /\ Sync(t, Fresh(configMap.ts, configMap.rv))
        /\ UNCHANGED mapVars
     \/ Sync(t, Fresh(sync[t].ts, sync[t].rv)) /\ UNCHANGED mapVars
  /\ UNCHANGED <<electorVars, now, events, procVars, worker, history>>

-----------------------------------------------------------------------------
(* The workers *)

BeforeRestart_second(p, time) == InSeconds(time) <= lastEventTime[p]
BeforeRestart(p, time) == time < lastEventTime[p]

\* handleEvent up to the send to configMapUpdateCh: an event that the term has
\* not seen, from the list or the watch.  The select of the worker may take one
\* that is queued although ctx is done, even when the next term has begun; a
\* worker that has returned is one that takes no more.
handleEvent(t) ==
  LET p == run[t].proc IN
  /\ worker[t].at = "idle"
  /\ \E e \in DOMAIN events \ worker[t].seen :
       \/ /\ ~isLeader[p] \/ BeforeRestart(p, events[e]) \/ now - events[e] > MaxAge
          /\ worker' = [worker EXCEPT ![t].seen = @ \cup {e}]
          /\ skipped' = IF isLeader[p] /\ BeforeRestart(p, events[e]) THEN Later(skipped, events[e]) ELSE skipped
       \/ /\ isLeader[p] /\ ~BeforeRestart(p, events[e]) /\ now - events[e] <= MaxAge
          /\ worker' = [worker EXCEPT ![t] = [at |-> "update", event |-> e, seen |-> @.seen \cup {e}]]
          /\ UNCHANGED skipped
  /\ UNCHANGED <<electorVars, now, events, mapVars, procVars, sync, accepted, reset>>

\* The send blocks while the channel is full, whatever becomes of the term; then
\* filter, discovery and Aggregator.Send, which change nothing here.
sendUpdate(t) ==
  LET p == run[t].proc IN
  /\ worker[t].at = "update" /\ Len(updateCh[p]) < Cap
  /\ updateCh' = [updateCh EXCEPT ![p] = Append(@, events[worker[t].event])]
  /\ accepted' = Later(accepted, events[worker[t].event])
  /\ worker' = [worker EXCEPT ![t] = [at |-> "idle", event |-> 0, seen |-> worker[t].seen]]
  /\ UNCHANGED <<electorVars, now, events, mapVars, isLeader, lastEventTime, sync, skipped, reset>>

-----------------------------------------------------------------------------
eventVars == <<now, events, mapVars, procVars, sync, worker, history>>

\* The process dies, or fails to refresh the config map and panics at the next
\* update (its copy has no Data).
RestartProcess(p) ==
  /\ pc[p] = "lead" /\ terms < MaxTerms
  /\ Restart(p)
  /\ isLeader' = [isLeader EXCEPT ![p] = FALSE]
  /\ lastEventTime' = [lastEventTime EXCEPT ![p] = 0]
  /\ updateCh' = [updateCh EXCEPT ![p] = <<>>]
  /\ worker' = [t \in Terms |-> IF run[t].proc = p THEN NoWorker ELSE worker[t]]
  /\ UNCHANGED <<now, events, mapVars, sync, history>>

Elect(p) == ElectorStep(p) /\ UNCHANGED eventVars
LoseLease(p) == (\E s \in Slots : Lose(p, s)) /\ UNCHANGED eventVars

TermStep(t) ==
  \/ runLeader(t) \/ getConfigMap(t) \/ pollConfigLoop(t) \/ updateConfigMap(t) \/ finalize(t)
  \/ handleEvent(t) \/ sendUpdate(t)

Next ==
  \/ Tick \/ Happens
  \/ \E p \in Procs : Elect(p) \/ LoseLease(p) \/ RestartProcess(p)
  \/ \E t \in Terms : TermStep(t)

Spec == Init /\ [][Next]_vars

-----------------------------------------------------------------------------
\* The saved time never moves back, whichever processes write it in whichever
\* order, with copies of whichever age (updater, updateConfigMap).
SavedNeverDecreases == [][configMap.ts # None => configMap'.ts >= configMap.ts]_configMap

\* An event is skipped as "before the restart" only if the controllers had
\* accepted a later one, or if it is older than the config map, or than the time
\* that a leader took instead of one that did not parse.
SkippedWereOvertaken ==
  skipped # 0 => skipped < accepted \/ skipped < past[1] \/ skipped < reset
=============================================================================
