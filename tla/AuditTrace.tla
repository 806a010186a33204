----------------------------- MODULE AuditTrace -----------------------------
(***************************************************************************)
(* The audit path as a whole: the pipeline delivers each event to two      *)
(* consumer groups.  The audit consumer sends the events it accepts to the *)
(* aggregator, which starts the link jobs; the kelemetrix consumer turns   *)
(* every event into metrics.                                               *)
(***************************************************************************)
EXTENDS AuditPipeline, Kelemetrix, ObjectLinks

CONSTANT Deployments  \* [groups, linkWorkers, maxConfigs]: what is enabled; a bound on changes of the filter

ObjectOf(e) == [cluster |-> e.cluster, type |-> ObjectRef(e).type, name |-> ObjectRef(e).name]

\* Objects has every object that an event is about, and every one a link leads to.
ASSUME ObjectsAssumption ==
  /\ \A e \in Events : ObjectRef(e) # None => ObjectOf(e) \in Objects
  /\ \A i \in DOMAIN Linkers : \A o, p \in Objects :
       objectKey(o) = objectKey(p) /\ ~LookupFails(Linkers[i], p) =>
         /\ IsFiniteSet(Lookup(Linkers[i], o, p))
         /\ \A l \in Lookup(Linkers[i], o, p) : l.to \in Objects

\* Quantities are ordered: a float64 that is not a number is left out, and the
\* others are modelled by integers.
ASSUME QuantityAssumption ==
  \A e \in Events, q \in Quantifiers : Quantity(e, q).value \in Int /\ Quantity(e, q).ok \in BOOLEAN

vars == <<auditVars, kelemetrixVars, linkVars>>

Init == \E d \in Deployments : AuditInit(d.groups, d.maxConfigs) /\ LinkInit(d.linkWorkers) /\ KelemetrixInit

\* receiver.handleMessage: an accepted event ensures the span of its object;
\* an error of the aggregator is logged and the event is dropped.
handleMessage(p) ==
  /\ "audit" \in groups /\ Receive("audit", p)
  /\ LET e == Head(mq["audit"][p])
     IN \/ /\ Accepts(e)
           /\ EnsureObjectSpan(ObjectOf(e), e.window, e.response # None)
           /\ UNCHANGED faults
        \/ /\ Accepts(e) /\ faults < MaxFaults /\ faults' = faults + 1
           /\ EnsureFails(ObjectOf(e), e.window)
        \/ ~Accepts(e) /\ UNCHANGED <<spans, untriggered, jobs, faults>>
  /\ UNCHANGED <<linkSpans, work, cache, expired, excused, kelemetrixVars>>

handleMetrics(p) ==
  /\ "kelemetrix" \in groups /\ Receive("kelemetrix", p)
  /\ handleMessageRaw(Head(mq["kelemetrix"][p]))
  /\ UNCHANGED linkVars

Next ==
  \/ AuditNext /\ UNCHANGED <<kelemetrixVars, linkVars>>
  \/ "kelemetrix" \in groups /\ PrepareTagsQuantifiers /\ UNCHANGED <<auditVars, linkVars>>
  \/ \E p \in Partitions : handleMessage(p) \/ handleMetrics(p)
  \/ LinkNext /\ UNCHANGED <<auditVars, kelemetrixVars>>

\* Goroutines run; requests, configuration changes and faults need not happen.
Fairness ==
  /\ \A r \in Requests : WF_vars(handleItems(r) /\ UNCHANGED <<kelemetrixVars, linkVars>>)
  /\ \A w \in Workers : WF_vars((workerLoop(w) \/ Send(w)) /\ UNCHANGED <<kelemetrixVars, linkVars>>)
  /\ WF_vars("kelemetrix" \in groups /\ PrepareTagsQuantifiers /\ UNCHANGED <<auditVars, linkVars>>)
  /\ \A p \in Partitions : WF_vars(handleMessage(p)) /\ WF_vars(handleMetrics(p))
  /\ \A w \in UNION {d.linkWorkers : d \in Deployments} :
       WF_vars(w \in DOMAIN work /\ (TakeJob(w) \/ Execute(w)) /\ UNCHANGED <<auditVars, kelemetrixVars>>)
  /\ \A k \in {objectKey(o) : o \in Objects} : WF_vars(Expire(k) /\ UNCHANGED <<auditVars, kelemetrixVars>>)

Spec == Init /\ [][Next]_vars /\ Fairness

\* The events that name the same object are handled, by every group, in the
\* order in which the webhook took them: none is handled before an earlier one,
\* whatever the hash and however the requests, the producer and the partitions
\* interleave (local.go: "Whether to partition events of the same object to the
\* same worker").
OrderPerObject ==
  \A g \in groups : \A i, j \in DOMAIN received :
    (/\ i < j /\ received[j] \in handled[g]
     /\ received[i].cluster = received[j].cluster
     /\ received[i].ref = received[j].ref /\ received[i].ref # None)
      => received[i] \in handled[g]

\* What the kelemetrix consumer reported of the messages it handled is what its
\* configuration says by name, in whatever order Start met the providers.
MetricsMatchConfig ==
  "kelemetrix" \in groups => emitted = UNION {Expected(e) : e \in handled["kelemetrix"]}

Unfinished(o, t, i) ==
  \/ \E k \in DOMAIN jobs : jobs[k].object = o /\ jobs[k].window = t
  \/ \E w \in DOMAIN work : ~At(w, "idle") /\ Subject(w) = o /\ Window(w) = t /\ work[w].linker <= i

Linked(o, t, linker) ==
  \A l \in Lookup(linker, o, o) :
    /\ [of |-> o, window |-> t, to |-> l.to, dedupId |-> <<l.dedupId>>] \in linkSpans
    /\ [of |-> l.to, window |-> t, to |-> o, dedupId |-> <<l.dedupId, o>>] \in linkSpans

Attended(s, i) ==
  \/ <<s[1], s[2], Linkers[i]>> \in excused
  \/ Unfinished(s[1], s[2], i)
  \/ Linked(s[1], s[2], Linkers[i])

\* No object is forgotten whose span was stored by a call that succeeded: it has
\* both ends of all its links, or a job or a worker still has them to create, or
\* its own lookup failed or found nothing (worker.go: execute; cycles of links
\* included).
LinksComplete == work # <<>> => \A s \in spans \ untriggered, i \in DOMAIN Linkers : Attended(s, i)

\* aggregator.go:89 promises it of every span: "EnsureObjectSpan creates a
\* pseudospan for the object, and triggers any possible relevant linkers".  TLC
\* refutes it: SetReserved fails after it stored the span.
LinkersTriggered == work # <<>> => \A s \in spans, i \in DOMAIN Linkers : Attended(s, i)

\* An object is fetched by one worker at a time until an entry of its key
\* expires: the others wait for its reservation (ObjectCache.Get).
OneFetch ==
  \A v, w \in DOMAIN work :
    (v # w /\ At(v, "fetch") /\ At(w, "fetch") /\ Key(v) = Key(w)) => \E i \in DOMAIN expired : expired[i] = Key(v)

\* The queues drain and every worker comes to rest, again and again: nothing
\* waits for ever on a reservation, and jobs that publish jobs to the queue they
\* come from run out, even around a cycle of links.
EverythingSettles == []<>(AuditQuiet /\ LinkQuiet)
=============================================================================
