---------------------------- MODULE LinkSelector ----------------------------
(***************************************************************************)
(* The link selectors of a display mode: which links of an object the      *)
(* reader follows, and with which selector it goes on from the object at   *)
(* the other end.  A display mode's selector is a union, one member for    *)
(* the mode itself and one for every active modifier, and a modifier is an *)
(* intersection of elementary selectors.  Modify nests one union in        *)
(* another, which admits what the flat union used here admits.             *)
(***************************************************************************)
EXTENDS Naturals, Sequences

\* What Admit returns for a link that is not to be followed.
Nil == [kind |-> "nil"]

\* ConstantLinkSelector: admits everything, or nothing.
Constant(sel) == IF sel.value THEN sel ELSE Nil

\* patternLinkSelector: every pattern must match the two ends, the end the
\* link is followed from, and the class.
Matches(pattern, parent, child, fromParent, class) ==
    /\ parent \in pattern.parents
    /\ child \in pattern.children
    /\ fromParent => pattern.fromParent
    /\ ~fromParent => pattern.fromChild
    /\ class \in pattern.classes
Patterns(sel, parent, child, fromParent, class) ==
    IF \A pattern \in sel.patterns : Matches(pattern, parent, child, fromParent, class)
      THEN sel ELSE Nil

\* denySiblingsLinkSelector: every link goes the way the first one went.
DenySiblings(sel, fromParent) ==
    IF ~sel.hasFirst THEN [sel EXCEPT !.hasFirst = TRUE, !.firstIsFromParent = fromParent]
    ELSE IF sel.firstIsFromParent = fromParent THEN sel ELSE Nil

\* directedDistanceLinkSelector: counts the links of one direction only.
DirectedDistance(sel, fromParent) ==
    IF fromParent # (sel.direction = "down") THEN sel
    ELSE IF sel.distance = 0 THEN Nil ELSE [sel EXCEPT !.distance = @ - 1]

AdmitOne(sel, parent, child, fromParent, class) ==
    CASE sel.kind = "constant" -> Constant(sel)
      [] sel.kind = "patterns" -> Patterns(sel, parent, child, fromParent, class)
      [] sel.kind = "denySiblings" -> DenySiblings(sel, fromParent)
      [] sel.kind = "distance" -> DirectedDistance(sel, fromParent)

\* IntersectLinkSelector: nil as soon as one member is.
Intersect(sel, parent, child, fromParent, class) ==
    LET next == [i \in DOMAIN sel.of |-> AdmitOne(sel.of[i], parent, child, fromParent, class)]
    IN  IF \E i \in DOMAIN next : next[i] = Nil THEN Nil ELSE [sel EXCEPT !.of = next]

\* UnionLinkSelector: a member that said nil once is skipped from then on.
Admit(sel, parent, child, fromParent, class) ==
    LET next == [i \in DOMAIN sel.of |->
                   IF sel.of[i] = Nil THEN Nil
                   ELSE Intersect(sel.of[i], parent, child, fromParent, class)]
    IN  IF \A i \in DOMAIN next : next[i] = Nil THEN Nil ELSE [sel EXCEPT !.of = next]

\* The selector of a display mode (admitting links by itself or not) under
\* the modifiers of a search.
Modify(base, modifiers) ==
    [kind |-> "union",
     of |-> <<[kind |-> "intersect", of |-> <<[kind |-> "constant", value |-> base]>>]>>
            \o [i \in DOMAIN modifiers |->
                  [kind |-> "intersect",
                   of |-> <<[kind |-> "patterns", patterns |-> modifiers[i].ifAll]>>
                       \o (IF modifiers[i].includeSiblings THEN <<>>
                           ELSE <<[kind |-> "denySiblings", hasFirst |-> FALSE,
                                   firstIsFromParent |-> FALSE]>>)
                       \o [j \in DOMAIN modifiers[i].distances |->
                             [kind |-> "distance",
                              direction |-> modifiers[i].distances[j].direction,
                              distance |-> modifiers[i].distances[j].distance]]]]]
=============================================================================
