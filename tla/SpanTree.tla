------------------------------ MODULE SpanTree ------------------------------
(***************************************************************************)
(* The span tree of a trace and the transformation steps that visit it.    *)
(*                                                                         *)
(* tree is the SpanTree of the code: spans is its spanMap, with the parent *)
(* a span refers to; frames its visitorStack, the children a frame still   *)
(* has to visit and those queued for it meanwhile; exited the spans left   *)
(* in this visit; panic is set where the code panics.  Children are        *)
(* visited in any order, as they come out of a map.                        *)
(*                                                                         *)
(* Of a span the model keeps its pseudo type, its trace source, its        *)
(* interval and the events its logs stand for.  The steps that only reword *)
(* names are left out.                                                     *)
(***************************************************************************)
EXTENDS Integers, Sequences, FiniteSets, SequencesExt

VARIABLES tree,     \* the tree being built or transformed
          steps     \* the steps of the display mode still to run

treeVars == <<tree, steps>>

NoSpan == <<"none", "none", 0>>

\* The spans with some of them added or replaced.
Put(spans, new) ==
    [x \in DOMAIN spans \cup DOMAIN new |-> IF x \in DOMAIN new THEN new[x] ELSE spans[x]]
Only(id, span) == [x \in {id} |-> span]

\* The span without a parent is the root; spans whose parent is missing stay
\* in the map but no visit reaches them.
NewSpanTree(spans) ==
    LET roots == {id \in DOMAIN spans : spans[id].parent = NoSpan}
    IN  [spans |-> spans, root |-> IF roots = {} THEN NoSpan ELSE CHOOSE id \in roots : TRUE,
         frames |-> <<>>, exited |-> {}, panic |-> roots = {}]

Children(T, id) == {c \in DOMAIN T.spans : T.spans[c].parent = id}
Panic(T) == [T EXCEPT !.panic = TRUE]

\* The spans of ids and everything under them.
Under(T, ids) ==
    LET under[x \in DOMAIN T.spans] ==
          x \in ids \/ (T.spans[x].parent \in DOMAIN T.spans /\ under[T.spans[x].parent])
    IN  {x \in DOMAIN T.spans : under[x]}

\* New children of a span being visited are queued for the visit.
Enqueue(T, ids, parent) ==
    [T EXCEPT !.frames = [i \in DOMAIN T.frames |->
        IF T.frames[i].span = parent THEN [T.frames[i] EXCEPT !.queue = @ \cup ids] ELSE T.frames[i]]]

\* Adds the spans new, id |-> span.
Add(T, new, parent) ==
    IF parent \in T.exited /\ DOMAIN new # {} THEN Panic(T)
    ELSE Enqueue([T EXCEPT !.spans = Put(@, [x \in DOMAIN new |-> [new[x] EXCEPT !.parent = parent]])],
                 DOMAIN new, parent)

Move(T, ids, parent) ==
    IF ids # {} /\ (parent \in T.exited \/ \E x \in ids : T.spans[x].parent = NoSpan) THEN Panic(T)
    ELSE Enqueue([T EXCEPT !.spans = [x \in DOMAIN T.spans |->
                     IF x \in ids THEN [T.spans[x] EXCEPT !.parent = parent] ELSE T.spans[x]]],
                 ids, parent)

\* Deletes the spans with all that is under them.
Delete(T, ids) ==
    LET gone == Under(T, ids)
    IN  IF \/ T.root \in gone
           \/ ~ids \subseteq DOMAIN T.spans
           \/ \E i \in DOMAIN T.frames : T.frames[i].span \in gone
           \/ gone \cap T.exited # {}
          THEN Panic(T)
          ELSE [T EXCEPT !.spans = [x \in DOMAIN @ \ gone |-> @[x]]]

\* The spans of another tree, its root first, as a subtree of this one.
AddTree(T, other, parent) ==
    [Add(T, Only(other.root, other.spans[other.root]), parent)
        EXCEPT !.spans = Put(other.spans, @)]

----------------------------------------------------------------------------
(* The steps: what a visitor does on entering and on leaving a span.       *)

Log(id, span) == [event |-> id, source |-> span.source, at |-> span.start]

\* CollapseNestingVisitor: the events under a pseudo span become logs of it.
CollapseNesting(T, step, id) ==
    LET events == {c \in Children(T, id) :
                     T.spans[c].pseudo = "none" /\ T.spans[c].source \in step.sources \ {"none"}}
        logs == {Log(c, T.spans[c]) : c \in events}
    IN  IF T.spans[id].pseudo = "none" THEN T
        ELSE Delete([T EXCEPT !.spans[id].logs = @ \cup logs], events)

ExtractNesting_drops(T, step, id) ==
    IF T.spans[id].parent = NoSpan \/ T.spans[id].pseudo \notin step.types THEN T
    ELSE Delete(T, {id})

\* ExtractNestingVisitor: the children move up, the span goes.
ExtractNesting(T, step, id) ==
    IF T.spans[id].parent = NoSpan \/ T.spans[id].pseudo \notin step.types THEN T
    ELSE Delete(Move(T, Children(T, id), T.spans[id].parent), {id})

\* GroupByTraceSourceVisitor: the logs of a source become a span of their own,
\* with an id no other span has (rand.Uint64).
GroupId(id, source) == <<"group", <<id, source>>, Len(steps)>>
GroupByTraceSource(T, step, id) ==
    LET logs == T.spans[id].logs
        grouped == {l \in logs : l.source \in step.sources}
        group(source) == [T.spans[id] EXCEPT !.pseudo = "groupByTraceSource", !.source = "none",
                                             !.logs = {l \in grouped : l.source = source}]
    IN  IF T.spans[id].pseudo = "groupByTraceSource" THEN T
        ELSE Add([T EXCEPT !.spans[id].logs = logs \ grouped],
                 [x \in {GroupId(id, l.source) : l \in grouped} |-> group(x[2][2])], id)

\* PruneTagsVisitor removes the tags of kelemetry's own prefix, among them
\* the pseudo type and the trace source.
PruneTags(T, id) ==
    [T EXCEPT !.spans[id].pseudo = "none", !.spans[id].source = "none"]

Enter(T, step, id) ==
    CASE step.kind = "CollapseNesting" -> CollapseNesting(T, step, id)
      [] step.kind = "ExtractNesting" -> ExtractNesting(T, step, id)
      [] step.kind = "GroupByTraceSource" -> GroupByTraceSource(T, step, id)
      [] step.kind = "PruneTags" -> PruneTags(T, id)
      [] OTHER -> T

\* PruneChildlessVisitor works on leaving, so that a span emptied by it goes
\* as well.
PruneChildless(T, id) ==
    IF T.spans[id].pseudo # "none" /\ Children(T, id) = {} /\ id # T.root
      THEN Delete(T, {id}) ELSE T

\* CompactDurationVisitor shrinks a pseudo span to its children and logs.
DummyDuration == 1
union(T, id) ==
    {[start |-> T.spans[c].start, end |-> T.spans[c].end] : c \in Children(T, id)}
        \cup {[start |-> l.at, end |-> l.at + DummyDuration] : l \in T.spans[id].logs}
CompactDuration(T, id) ==
    LET ranges == union(T, id)
        start == CHOOSE s \in {r.start : r \in ranges} : \A r \in ranges : s <= r.start
        end == CHOOSE e \in {r.end : r \in ranges} : \A r \in ranges : e >= r.end
        padding == IF id = T.root THEN (end - start) \div 20 ELSE 0
    IN  IF T.spans[id].pseudo = "none" \/ ranges = {} THEN T
        ELSE [T EXCEPT !.spans[id].start = start - padding, !.spans[id].end = end + padding]

Exit(T, step, id) ==
    CASE step.kind = "PruneChildless" -> PruneChildless(T, id)
      [] step.kind = "CompactDuration" -> CompactDuration(T, id)
      [] OTHER -> T

----------------------------------------------------------------------------
(* A visit: enter a span, then its children one by one, then leave it.     *)

visit_stacked(T, step, id) ==
    IF id \notin DOMAIN T.spans THEN Panic(T)
    ELSE Enter([T EXCEPT !.frames = Append(@,
             [span |-> id, children |-> Children(T, id), queue |-> {}])], step, id)

\* Enter is called before the span is on the stack, so that it may delete it.
visit(T, step, id) ==
    IF id \notin DOMAIN T.spans \/ (T.frames # <<>> /\ Last(T.frames).span = id) THEN Panic(T)
    ELSE LET entered == Enter(T, step, id)
         IN  IF id \notin DOMAIN entered.spans THEN entered
             ELSE [entered EXCEPT !.frames = Append(@,
                     [span |-> id, children |-> Children(entered, id), queue |-> {}])]

Top == Last(tree.frames)
SetTop(T, frame) == [T EXCEPT !.frames = Append(Front(@), frame)]

\* The next step of the display mode starts at the root.
RunStep ==
    /\ ~tree.panic /\ tree.frames = <<>> /\ steps # <<>>
    /\ tree' = visit(tree, Head(steps), tree.root)
    /\ UNCHANGED steps

\* The visit goes on with a child; when the children known on entering are
\* done it takes those queued since.
VisitChild ==
    /\ ~tree.panic /\ tree.frames # <<>>
    /\ LET todo == IF Top.children # {} THEN Top.children ELSE Top.queue
           queue == IF Top.children # {} THEN Top.queue ELSE {}
       IN  \E id \in todo :
             tree' = visit(SetTop(tree, [Top EXCEPT !.children = todo \ {id}, !.queue = queue]),
                           Head(steps), id)
    /\ UNCHANGED steps

\* All children done: leave the span; leaving the root ends the step.
LeaveSpan ==
    /\ ~tree.panic /\ tree.frames # <<>>
    /\ Top.children = {} /\ Top.queue = {}
    /\ LET T == Exit([tree EXCEPT !.frames = Front(@)], Head(steps), Top.span)
           exited == T.exited \cup ({Top.span} \cap DOMAIN T.spans)
       IN  tree' = [T EXCEPT !.exited = IF T.frames = <<>> THEN {} ELSE exited]
    /\ steps' = IF Len(tree.frames) = 1 THEN Tail(steps) ELSE steps

Visit == RunStep \/ VisitChild \/ LeaveSpan
Transformed == tree.panic \/ (tree.frames = <<>> /\ steps = <<>>)
=============================================================================
