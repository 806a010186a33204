----------------------------- MODULE TraceReader -----------------------------
(***************************************************************************)
(* The reader behind the trace pages: a search lists traces, follows their *)
(* links to further objects, merges what it got into one tree per          *)
(* connected group of objects and remembers, under a cache id, the traces  *)
(* of every group; opening a trace reads them again, follows links again   *)
(* and shows one tree.                                                     *)
(*                                                                         *)
(* The storage holds one trace per object and time window: the object's    *)
(* pseudo span and under it link spans and event spans.  Spans of an open  *)
(* window may arrive at any time.  Each listing of a linked object is a    *)
(* task of its own; tasks finish in any order and publish one at a time.   *)
(***************************************************************************)
EXTENDS LinkSelector, SpanTree

CONSTANTS
    Traces,          \* trace |-> [key, start, end] of its object span
    Spans,           \* [id, trace, source, at, to, role, class] of the spans under them
    Late,            \* the spans that may arrive after the first search
    Configs,         \* the display modes: [selector, steps]
    Searches,        \* searches made: a display mode and the keys that meet the conditions
    FollowLinksInList, CacheExtensions,  \* the values of these options to consider
    Extended,        \* the spans that an extension provider has a trace for
    FollowLimit,     \* frontend-follow-link-limit
    TraceLimit,      \* traces listed per linked object; 0 for no limit
    QueryStart, QueryEnd   \* the time range of the search

ASSUME LimitAssumption == FollowLimit \in Nat /\ TraceLimit \in Nat
ASSUME SpansAssumption ==
    /\ IsFiniteSet(Spans) /\ Late \subseteq Spans
    /\ \A s \in Spans : s.source = "object" => s.role \in {"parent", "child"}
\* The ids of stored spans are none of those that the reader makes up.
ASSUME IdsAssumption ==
    \A s \in Spans : s.id[1] \notin {"none", "root", "class", "extension", "group"}
ASSUME ConfigsAssumption ==
    /\ \A c \in DOMAIN Configs : Configs[c].steps \in Seq({Configs[c].steps[i] : i \in DOMAIN Configs[c].steps})
    /\ \A search \in Searches : search.config \in DOMAIN Configs
ASSUME RangeAssumption == QueryStart \in Nat /\ QueryEnd \in Nat /\ QueryStart < QueryEnd

VARIABLES
    stored,    \* the spans in the storage
    entries,   \* the trace cache: [traces, config, extensions] per cache id
    req,       \* the request being served: its kind and what it was asked
    phase,     \* how far it is
    objects,   \* Merger.objects: key |-> [traces, spans, links, start, end]
    known,     \* followLinkPool.knownKeys
    limits,    \* what is left of each follow limit
    waiting,   \* the objects whose links are still to be looked at
    tasks,     \* listings of linked objects, scheduled or answered
    asked,     \* how often each key was listed
    spent,     \* how many listings each limit paid for
    shown      \* the group shown: its members, the objects in the tree and to do, the
               \* extensions fetched; and the traces of every group

mergeVars == <<objects, known, limits, waiting, tasks, asked, spent>>
vars == <<stored, entries, req, phase, mergeVars, shown, tree, steps>>

Keys == {Traces[t].key : t \in DOMAIN Traces}
Global == "global"
Nothing == [x \in {} |-> x]
IsLink(s) == s.source = "object"
SpansOf(t) == {s \in stored : s.trace = t}
InRange(at) == QueryStart < at /\ at < QueryEnd

Idle == [kind |-> "none", config |-> 0, traces |-> {}, extensions |-> {}]
ClearMerger ==
    /\ objects' = Nothing /\ known' = {} /\ limits' = Nothing /\ waiting' = {} /\ tasks' = {}
    /\ asked' = [k \in Keys |-> 0] /\ spent' = [l \in Keys \cup {Global} |-> 0]
NoTree == [spans |-> Nothing, root |-> NoSpan, frames |-> <<>>, exited |-> {}, panic |-> FALSE]
NothingShown == [members |-> {}, inTree |-> {}, todo |-> <<>>, extensions |-> {}, groups |-> {}]

Init ==
    /\ stored = Spans \ Late
    /\ entries = {} /\ req = Idle /\ phase = "idle"
    /\ objects = Nothing /\ known = {} /\ limits = Nothing /\ waiting = {} /\ tasks = {}
    /\ asked = [k \in Keys |-> 0] /\ spent = [l \in Keys \cup {Global} |-> 0]
    /\ shown = NothingShown /\ tree = NoTree /\ steps = <<>>

\* External: an event or a link reaches the storage.
Arrive(s) ==
    /\ s \notin stored
    /\ stored' = stored \cup {s}
    /\ UNCHANGED <<entries, req, phase, mergeVars, shown, treeVars>>

----------------------------------------------------------------------------
(* Backend.List asks for the real trace sources one after the other; a     *)
(* trace with spans of both comes twice and counts twice.                  *)
Matching(source, keys) ==
    {t \in DOMAIN Traces : Traces[t].key \in keys
        /\ \E s \in SpansOf(t) : s.source = source /\ InRange(s.at)}
Pick(S, limit, taken) ==
    IF limit = 0 THEN {S}
    ELSE IF taken >= limit THEN {{}}
    ELSE {P \in SUBSET S : Cardinality(P) =
            IF Cardinality(S) <= limit - taken THEN Cardinality(S) ELSE limit - taken}
List(keys, limit) ==
    UNION {{a \cup e : e \in Pick(Matching("event", keys), limit, Cardinality(a))}
             : a \in Pick(Matching("audit", keys), limit, 0)}

filterTimeRange_all(s) == InRange(s.at)

\* filterTimeRange: pseudo spans take the range of the request, others are
\* dropped outside of it.
filterTimeRange(s) == IsLink(s) \/ InRange(s.at)

\* A trace as the search lists it, and as opening a trace reads it.
Thumbnail(t) == [trace |-> t, key |-> Traces[t].key, spans |-> SpansOf(t),
                 start |-> Traces[t].start, end |-> Traces[t].end]
Clipped(t) == [Thumbnail(t) EXCEPT !.spans = {s \in @ : filterTimeRange(s)},
                                   !.start = QueryStart, !.end = QueryEnd]

\* mergeRootInterval: the union of the intervals.
mergeRootInterval(batch) ==
    [start |-> CHOOSE s \in {b.start : b \in batch} : \A b \in batch : s <= b.start,
     end |-> CHOOSE e \in {b.end : b \in batch} : \A b \in batch : e >= b.end]

\* newObject and merge: the windows of an object become one object.
mergeObject(batch) ==
    LET range == mergeRootInterval(batch)
        spans == UNION {b.spans : b \in batch}
    IN  [traces |-> {b.trace : b \in batch}, spans |-> spans,
         links |-> {s \in spans : IsLink(s)}, start |-> range.start, end |-> range.end]

AddTraces(objs, batch) ==
    [k \in DOMAIN objs \cup {b.key : b \in batch} |->
       LET new == {b \in batch : b.key = k}
       IN  IF new = {} THEN objs[k] ELSE mergeObject(new)]

----------------------------------------------------------------------------
(* Following links.                                                        *)

\* The link selector for a link of key, whichever end key is.
admit(key, sel, link) ==
    IF link.role = "parent" THEN Admit(sel, link.to, key, FALSE, link.class)
    ELSE Admit(sel, key, link.to, TRUE, link.class)
Charged(left) == IF left < 0 THEN left ELSE left - 1   \* a limit below zero stays there

consider_limitFirst(key, sel, link, st) ==
    LET left == Charged(st.left)
        sub == admit(key, sel, link)
    IN  IF left < 0 THEN [st EXCEPT !.left = left]
        ELSE IF link.to \in st.known THEN [st EXCEPT !.links = @ \cup {link}]
        ELSE IF sub = Nil THEN [st EXCEPT !.left = left]
        ELSE [links |-> st.links \cup {link}, known |-> st.known \cup {link.to}, left |-> left,
              found |-> st.found \cup {[key |-> link.to, selector |-> sub]}]
consider_forgets(key, sel, link, st) ==
    LET left == Charged(st.left)
        sub == admit(key, sel, link)
    IN  IF link.to \in st.known THEN [st EXCEPT !.links = @ \cup {link}]
        ELSE IF left < 0 \/ sub = Nil THEN [st EXCEPT !.left = left]
        ELSE [st EXCEPT !.links = @ \cup {link}, !.left = left,
                        !.found = @ \cup {[key |-> link.to, selector |-> sub]}]

\* One link of an object: a link to a known object is kept; any other costs
\* one of the limit, is kept only if the selector admits it, and then its
\* object becomes known and is listed.
consider(key, sel, link, st) ==
    LET left == Charged(st.left)
        sub == admit(key, sel, link)
    IN  IF link.to \in st.known THEN [st EXCEPT !.links = @ \cup {link}]
        ELSE IF left < 0 \/ sub = Nil THEN [st EXCEPT !.left = left]
        ELSE [links |-> st.links \cup {link}, known |-> st.known \cup {link.to}, left |-> left,
              found |-> st.found \cup {[key |-> link.to, selector |-> sub]}]

\* After n of the links.
considerAll(key, sel, order, start) ==
    LET after[n \in 0..Len(order)] ==
          IF n = 0 THEN start ELSE consider(key, sel, order[n], after[n - 1])
    IN  after

Orders(S) == {seq \in [1..Cardinality(S) -> S] : \A x \in S : \E i \in DOMAIN seq : seq[i] = x}

\* scheduleFrom goes over the links in the order of a map; rest are the
\* other tasks.
scheduleFrom(objs, key, limiter, sel, rest) ==
    \E order \in Orders(objs[key].links) :
      LET start == [links |-> {}, known |-> known, left |-> limits[limiter], found |-> {}]
          st == considerAll(key, sel, order, start)[Len(order)]
      IN  /\ objects' = [objs EXCEPT ![key].links = st.links]
          /\ known' = st.known
          /\ limits' = [limits EXCEPT ![limiter] = st.left]
          /\ tasks' = rest \cup {[key |-> f.key, selector |-> f.selector, limiter |-> limiter,
                                  at |-> "list", got |-> {}] : f \in st.found}

\* FollowLinks starts with the objects at hand, in the order of a map; a
\* search limits each of them, opening a trace all of them together.
followFrom(key) ==
    /\ phase = "follow" /\ key \in waiting
    /\ scheduleFrom(objects, key, IF req.kind = "get" THEN Global ELSE key,
                    Configs[req.config].selector, tasks)
    /\ waiting' = waiting \ {key}
    /\ UNCHANGED <<stored, entries, req, phase, asked, spent, shown, treeVars>>

\* A task lists the traces of its object.
listTask(task) ==
    /\ phase = "follow" /\ waiting = {} /\ task.at = "list"
    /\ \E listed \in List({task.key}, TraceLimit) :
         tasks' = (tasks \ {task})
                    \cup {[task EXCEPT !.at = "publish", !.got = {Thumbnail(t) : t \in listed}]}
    /\ asked' = [asked EXCEPT ![task.key] = @ + 1]
    /\ spent' = [spent EXCEPT ![task.limiter] = @ + 1]
    /\ UNCHANGED <<stored, entries, req, phase, objects, known, limits, waiting, shown, treeVars>>

\* Its result is merged, and followed in turn with the selector it was
\* admitted with.
publishTask(task) ==
    /\ phase = "follow" /\ task.at = "publish"
    /\ IF task.got = {}
         THEN tasks' = tasks \ {task} /\ UNCHANGED <<objects, known, limits>>
         ELSE scheduleFrom(AddTraces(objects, task.got), task.key, task.limiter,
                           task.selector, tasks \ {task})
    /\ UNCHANGED <<stored, entries, req, phase, waiting, asked, spent, shown, treeVars>>

\* An error from the storage or from a provider ends the request with an
\* error; nothing is kept of it.
Fail ==
    /\ \/ phase = "follow" /\ tasks # {}
       \/ phase = "merge" /\ shown.todo = <<>>
    /\ phase' = "idle" /\ req' = Idle /\ ClearMerger
    /\ shown' = NothingShown /\ tree' = NoTree
    /\ UNCHANGED <<stored, entries, steps>>

----------------------------------------------------------------------------
(* Merging what was loaded.                                                *)

\* The links of the loaded objects, as pairs of parent and child.  The map
\* has one link per pair of objects: of two that disagree the one inserted
\* last stays.
abLinkFromTargetLink(key, link) ==
    IF link.role = "child" THEN <<key, link.to>> ELSE <<link.to, key>>
abLinkMaps ==
    LET all == UNION {{abLinkFromTargetLink(k, l) : l \in objects[k].links} : k \in DOMAIN objects}
    IN  {m \in SUBSET all : \A p \in all : p \in m <=> <<p[2], p[1]>> \notin m}

\* The loaded objects that key is connected to.
dfsTaint(links, key) ==
    LET closed(S) == \A p \in links : (p[1] \in S <=> p[2] \in S)
                       \/ p[1] \notin DOMAIN objects \/ p[2] \notin DOMAIN objects
    IN  {k \in DOMAIN objects :
           \A S \in SUBSET DOMAIN objects : key \in S /\ closed(S) => k \in S}
findConnectedComponents(links) == {dfsTaint(links, k) : k \in DOMAIN objects}

\* detectRoot climbs from any member to any parent until there is none or
\* one comes twice.
ParentsIn(links, members, k) == {p \in members : <<p, k>> \in links}
Above(links, members, k) ==
    {p \in members : \A S \in SUBSET members :
       ParentsIn(links, members, k) \subseteq S /\ (\A q \in S : ParentsIn(links, members, q) \subseteq S)
         => p \in S}
detectRoot(links, members) ==
    {k \in members : ParentsIn(links, members, k) = {} \/ k \in Above(links, members, k)}

\* The tree of one object: its pseudo span and the spans under it.
RootOf(key) == <<"root", key, 0>>
ObjectSpan(key) ==
    [parent |-> NoSpan, pseudo |-> "object", source |-> "object", logs |-> {},
     start |-> objects[key].start, end |-> objects[key].end]
ObjectTree(key) ==
    LET below ==
          [id \in {s.id : s \in objects[key].spans} |->
             LET s == CHOOSE x \in objects[key].spans : x.id = id
             IN  [parent |-> RootOf(key), pseudo |-> IF IsLink(s) THEN "link" ELSE "none",
                  source |-> s.source, logs |-> {}, start |-> s.at, end |-> s.at + 1]]
    IN  NewSpanTree(Put(below, Only(RootOf(key), ObjectSpan(key))))

\* MergeTraces: one tree per group of connected objects.  The groups of a
\* search go through the same loop one after the other: the model shows any
\* one of them.  Opening a trace expects one group.
MergeTraces ==
    /\ phase = "follow" /\ waiting = {} /\ tasks = {}
    /\ \E links \in abLinkMaps :
         LET groups == findConnectedComponents(links) IN
         \/ /\ req.kind = "get" /\ Cardinality(groups) # 1
            /\ phase' = "inconsistent"
            /\ UNCHANGED <<shown, tree>>
         \/ /\ req.kind = "find" \/ Cardinality(groups) = 1
            /\ \E members \in groups : \E root \in detectRoot(links, members) :
                 /\ shown' = [members |-> members, inTree |-> {root}, todo |-> <<root>>,
                              extensions |-> {},
                              groups |-> {UNION {objects[k].traces : k \in g} : g \in groups}]
                 /\ tree' = ObjectTree(root)
            /\ phase' = "merge"
    /\ UNCHANGED <<stored, entries, req, mergeVars, steps>>

\* A child link of subj: a span for the class of the link, and under it the
\* object, unless it is in the tree already or was not loaded.
createVirtualSpan(subj) == [ObjectSpan(subj) EXCEPT !.pseudo = "linkClass", !.source = "none"]
attach(subj, link, st) ==
    LET id == <<"class", link.id, 0>>
        T == IF link.class = "" THEN st.tree
             ELSE Add(st.tree, Only(id, createVirtualSpan(subj)), RootOf(subj))
        under == IF link.class = "" THEN RootOf(subj) ELSE id
    IN  IF link.to \in st.inTree \/ link.to \notin shown.members THEN [st EXCEPT !.tree = T]
        ELSE [tree |-> AddTree(T, ObjectTree(link.to), under),
              inTree |-> st.inTree \cup {link.to}, todo |-> Append(st.todo, link.to)]

\* After n of the child links.
attachAll(subj, order, start) ==
    LET after[n \in 0..Len(order)] ==
          IF n = 0 THEN start ELSE attach(subj, order[n], after[n - 1])
    IN  after

\* mergeLinkedTraces takes the object added last and attaches its children.
mergeLinkedTraces ==
    /\ phase = "merge" /\ shown.todo # <<>>
    /\ LET subj == Last(shown.todo) IN
       \E order \in Orders({l \in objects[subj].links : l.role = "child"}) :
         LET start == [tree |-> tree, inTree |-> shown.inTree, todo |-> Front(shown.todo)]
             st == attachAll(subj, order, start)[Len(order)]
         IN  /\ tree' = st.tree
             /\ shown' = [shown EXCEPT !.inTree = st.inTree, !.todo = st.todo]
    /\ UNCHANGED <<stored, entries, req, phase, mergeVars, steps>>

\* prepareEntry clips the merged tree of a search, the spans for link
\* classes included: they carry no trace source and so go by the time of the
\* object span they were made from.
ClipMerged(T) ==
    [id \in {x \in DOMAIN T.spans : T.spans[x].source = "object" \/ InRange(T.spans[x].start)} |->
       IF T.spans[id].source = "object"
         THEN [T.spans[id] EXCEPT !.start = QueryStart, !.end = QueryEnd]
         ELSE T.spans[id]]

\* setRootParent: the trace of a provider hangs under the span it is for.
ExtensionId(id) == <<"extension", id, 0>>
setRootParent(ids) ==
    [x \in {ExtensionId(id) : id \in ids} |->
       [parent |-> x[2], pseudo |-> "none", source |-> "none", logs |-> {},
        start |-> QueryStart, end |-> QueryEnd]]
\* FetchExtensionsAndStoreCache asks the providers about every object and
\* audit span; when their time is up it goes on with what there is by then.
FetchExtensions(spans) ==
    SUBSET {id \in Extended \cap DOMAIN spans :
              spans[id].pseudo = "object" \/ spans[id].source = "audit"}
\* LoadExtensionCache takes those of the search instead, if it kept any.
Extensions(spans) == IF req.extensions # {} THEN {req.extensions} ELSE FetchExtensions(spans)

Transform ==
    /\ phase = "merge" /\ shown.todo = <<>>
    /\ LET spans == IF req.kind = "find" THEN ClipMerged(tree) ELSE tree.spans IN
       \E ids \in Extensions(spans) :
         /\ tree' = NewSpanTree(Put(spans, setRootParent(ids)))
         /\ shown' = [shown EXCEPT !.extensions = ids]
    /\ steps' = Configs[req.config].steps
    /\ phase' = "transform"
    /\ UNCHANGED <<stored, entries, req, mergeVars>>

RunSteps ==
    /\ phase = "transform" /\ Visit
    /\ UNCHANGED <<stored, entries, req, phase, mergeVars, shown>>

\* prepareCache and Persist: a search keeps the traces of every group under a
\* cache id of its own.  (The extensions of the groups not shown are not.)
Entries(cached) ==
    {[traces |-> g, config |-> req.config,
      extensions |-> IF cached /\ g = UNION {objects[k].traces : k \in shown.members}
                       THEN shown.extensions ELSE {}] : g \in shown.groups}
Reply ==
    /\ phase = "transform" /\ Transformed /\ ~tree.panic
    /\ \E cached \in CacheExtensions :
         entries' = IF req.kind = "find" THEN Entries(cached) ELSE entries
    /\ phase' = "idle" /\ req' = Idle /\ ClearMerger
    /\ shown' = NothingShown /\ tree' = NoTree
    /\ UNCHANGED <<stored, steps>>

----------------------------------------------------------------------------
(* Requests.                                                               *)

Load(batch, kind, config, traces, extensions, follow) ==
    LET objs == AddTraces(Nothing, batch) IN
    /\ objects' = objs /\ known' = DOMAIN objs
    /\ limits' = [l \in DOMAIN objs \cup {Global} |-> FollowLimit]
    /\ waiting' = IF follow THEN DOMAIN objs ELSE {}
    /\ tasks' = {}
    /\ asked' = [k \in Keys |-> 0] /\ spent' = [l \in Keys \cup {Global} |-> 0]
    /\ req' = [kind |-> kind, config |-> config, traces |-> traces, extensions |-> extensions]
    /\ phase' = "follow"

\* FindTraces: a search, whose conditions any of the traces in range may meet.
\* One search is made; the entries of several do not meet.
FindTraces ==
    /\ phase = "idle" /\ entries = {}
    /\ \E search \in Searches, follow \in FollowLinksInList :
       \E hits \in (SUBSET UNION List(search.keys, 0)) \ {{}} :
         Load({Thumbnail(t) : t \in hits}, "find", search.config, hits, {}, follow)
    /\ UNCHANGED <<stored, entries, shown, treeVars>>

\* GetTrace: the traces of a cache entry are read again and clipped.
GetTrace ==
    /\ phase = "idle"
    /\ \E entry \in entries :
         Load({Clipped(t) : t \in entry.traces}, "get", entry.config, entry.traces,
              entry.extensions, TRUE)
    /\ UNCHANGED <<stored, entries, shown, treeVars>>

Next ==
    \/ \E s \in Late : Arrive(s)
    \/ FindTraces
    \/ GetTrace
    \/ \E key \in Keys : followFrom(key)
    \/ \E task \in tasks : listTask(task) \/ publishTask(task)
    \/ Fail
    \/ MergeTraces
    \/ mergeLinkedTraces
    \/ Transform
    \/ RunSteps
    \/ Reply

Spec == Init /\ [][Next]_vars

----------------------------------------------------------------------------
(* Properties.                                                             *)

\* Opening a trace that a search found shows one tree: what was connected
\* when it was found is connected again, whatever links arrived since, which
\* limit applies and which links the selector rejects.
ReopenIsOneTree == phase # "inconsistent"

\* Links between loaded objects that storage has at both ends, and no object
\* below two others.
RecordedAtBothEnds ==
    \A k \in DOMAIN objects : \A s \in objects[k].spans :
      IsLink(s) /\ s.to \in DOMAIN objects =>
        \E r \in objects[s.to].spans : IsLink(r) /\ r.to = k /\ r.role # s.role
OneParent ==
    \A k \in DOMAIN objects : \A s, r \in objects[k].spans :
      IsLink(s) /\ IsLink(r) /\ s.role = "parent" /\ r.role = "parent" => s.to = r.to
\* No object is above itself: of any of them one has no parent among them.
NoCycle ==
    \A S \in SUBSET DOMAIN objects : S # {} =>
      \E k \in S : \A s \in objects[k].spans : IsLink(s) /\ s.role = "parent" => s.to \notin S

\* Every object that the search had put into the group is in the tree that
\* opening it shows, if the objects form a hierarchy whose links are recorded
\* at both ends (on a cycle of parents the walk down from where detectRoot ends
\* may miss them): following links further, up to a new root or against the
\* limit, does not push a found object out of the picture.
MembersShown ==
    phase = "transform" /\ req.kind = "get" /\ RecordedAtBothEnds /\ OneParent /\ NoCycle
      => {Traces[t].key : t \in req.traces} \subseteq shown.inTree

\* No object is listed twice in one request, none that the request started
\* from, and no search result pays for more listings than the limit, however
\* many tasks find the same object at once.
FollowBounded ==
    /\ \A k \in Keys : asked[k] <= (IF k \in {Traces[t].key : t \in req.traces} THEN 0 ELSE 1)
    /\ \A l \in DOMAIN spent : spent[l] <= FollowLimit

\* The visitors keep to what the tree allows them while it is being visited.
VisitorsRespectTree == ~tree.panic

\* Every event of an object in an opened tree is shown once, as a span or as
\* a log, in the part of the tree that hangs under the root, and so is what an
\* extension has about such an object, fetched or reloaded; and every box at
\* the bottom has something in it.
EventsShownOnce ==
    phase = "transform" /\ Transformed /\ ~tree.panic /\ req.kind = "get" =>
      LET visible == Under(tree, {tree.root})
          events == UNION {{s.id : s \in {x \in objects[k].spans : ~IsLink(x)}} : k \in shown.inTree}
          extended == {ExtensionId(id) : id \in shown.extensions \cap {RootOf(k) : k \in shown.inTree}}
          holders(e) == {id \in DOMAIN tree.spans :
                           id = e \/ \E l \in tree.spans[id].logs : l.event = e}
      IN  /\ \A e \in events \cup extended :
               Cardinality(holders(e)) = 1 /\ holders(e) \subseteq visible
          /\ Configs[req.config].steps # <<>> =>
               \A id \in visible \ {tree.root} :
                 Children(tree, id) = {} =>
                   tree.spans[id].logs # {} \/ id \in events \/ id[1] = "extension"
=============================================================================
