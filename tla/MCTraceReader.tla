--------------------------- MODULE MCTraceReader ---------------------------
(***************************************************************************)
(* A deployment d with replica sets r and s, and a pod p of r.  r has two  *)
(* windows, the second of them open: the search starts inside the first.   *)
(* The links between d and s are recorded after the rest.                  *)
(***************************************************************************)
EXTENDS TraceReader

MCTraces == [d |-> [key |-> "d", start |-> 0, end |-> 30],
             r1 |-> [key |-> "r", start |-> 0, end |-> 30],
             r2 |-> [key |-> "r", start |-> 30, end |-> 60],
             s |-> [key |-> "s", start |-> 30, end |-> 60],
             p |-> [key |-> "p", start |-> 0, end |-> 30]]

Event(trace, source, at) ==
    [id |-> <<source, trace, at>>, trace |-> trace, source |-> source, at |-> at,
     to |-> "", role |-> "", class |-> ""]
Link(trace, role, to) ==
    [id |-> <<role, trace, to>>, trace |-> trace, source |-> "object",
     at |-> MCTraces[trace].start, to |-> to, role |-> role, class |-> "children"]

MCLate == {Link("d", "child", "s"), Link("s", "parent", "d"), Event("d", "event", 20)}
MCSpans ==
    {Event("d", "audit", 15), Event("r1", "audit", 20), Event("r1", "event", 5),
     Event("r2", "event", 31), Event("s", "audit", 32), Event("p", "audit", 25),
     Link("d", "child", "r"), Link("r1", "parent", "d"), Link("r2", "parent", "d"),
     Link("r1", "child", "p"), Link("p", "parent", "r")} \cup MCLate

Modifier(includeSiblings, ifAll, distances) ==
    [includeSiblings |-> includeSiblings, ifAll |-> ifAll, distances |-> distances]
Far(direction) == [direction |-> direction, distance |-> 3]
FullTree == Modifier(FALSE, {}, <<Far("up"), Far("down")>>)
Ancestors == Modifier(TRUE, {}, <<[direction |-> "up", distance |-> 1]>>)
OwnedObjects == Modifier(FALSE, {[parents |-> Keys, children |-> Keys, fromParent |-> TRUE,
                                  fromChild |-> FALSE, classes |-> {"children"}]}, <<Far("down")>>)

Prune == [kind |-> "PruneChildless"]
Collapse == [kind |-> "CollapseNesting", sources |-> {"audit", "event"}]
Extract(type) == [kind |-> "ExtractNesting", types |-> {type}]
Group == [kind |-> "GroupByTraceSource", sources |-> {"audit"}]
Compact == [kind |-> "CompactDuration"]
Tags == [kind |-> "PruneTags"]

MCConfigs ==
    <<[selector |-> Modify(FALSE, <<FullTree>>), steps |-> <<>>],
      [selector |-> Modify(FALSE, <<Ancestors, OwnedObjects>>), steps |-> <<>>],
      [selector |-> Modify(TRUE, <<>>), steps |-> <<>>],
      [selector |-> Modify(FALSE, <<>>), steps |-> <<Prune, Tags>>],
      [selector |-> Modify(FALSE, <<>>), steps |-> <<Prune, Extract("object")>>],
      [selector |-> Modify(FALSE, <<>>), steps |-> <<Prune, Collapse, Extract("linkClass"), Compact>>],
      [selector |-> Modify(FALSE, <<>>), steps |-> <<Prune, Collapse, Group, Compact>>]>>
MCSearches == [config : 1..3, keys : {Keys}] \cup [config : 4..7, keys : {{"d", "s"}, {"d", "r"}}]
MCExtended == {RootOf("d"), Event("s", "audit", 32).id}
=============================================================================
