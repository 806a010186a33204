-------------------------- MODULE TraceReader_proofs -------------------------
(***************************************************************************)
(* What the trace reader promises while it follows links and opens traces, *)
(* proved for every storage, link selector, limit and order of answers.    *)
(*                                                                         *)
(* ReaderInv is inductive.  That an opened trace is one tree needs three   *)
(* facts that hold long before it is opened: what is kept under a cache id *)
(* hangs together by links of the storage (GroupsConnected), a storage     *)
(* that only gains links keeps it so, and whatever is scheduled while a    *)
(* trace is open was led to by a link that is kept (OpenedConnected,       *)
(* TasksSound).  That following is bounded needs the account of each       *)
(* limit: paid, to pay and left (LimitsSound).  That its members are shown *)
(* needs that, in a hierarchy, an object is added next to one loaded       *)
(* object only, so that no link that was not followed leads to it after    *)
(* all (KeptIn), and that the tree lacks nothing below it (TreeSound).     *)
(*                                                                         *)
(* TreeInv is inductive with it: no visitor of a transformation step makes *)
(* the span tree panic, since every frame is for another span, what it is  *)
(* to visit are children that were not seen, and the spans seen form a     *)
(* tree that starts at the root (VisitSound).                              *)
(***************************************************************************)
EXTENDS TraceReader, FiniteSetTheorems, WellFoundedInduction, TLAPS

\* What a request was asked for, the objects it starts from and the links that
\* the storage holds.
KeysOf(g) == {Traces[t].key : t \in g}
Start == KeysOf(req.traces)
LinksIn(S) == {s \in S : IsLink(s)}

\* x is an object k that comes from the spans S of the storage.
SoundObject(x, k, S) ==
    /\ x = [traces |-> x.traces, spans |-> x.spans, links |-> x.links, start |-> x.start, end |-> x.end]
    /\ x.traces # {}
    /\ \A t \in x.traces : t \in DOMAIN Traces /\ Traces[t].key = k
    /\ x.spans \subseteq {s \in S : s.trace \in x.traces}
    /\ x.links \subseteq LinksIn(x.spans)

\* b is a trace of the object k, with spans among S.
SoundTrace(b, k, S) ==
    /\ b.key = k /\ b.trace \in DOMAIN Traces /\ Traces[b.trace].key = k
    /\ b.spans \subseteq {s \in S : s.trace = b.trace}

LoadedSound ==
    /\ stored \subseteq Spans
    /\ \A k \in DOMAIN objects : SoundObject(objects[k], k, stored)
    /\ \A task \in tasks : \A b \in task.got : SoundTrace(b, task.key, stored)
    /\ DOMAIN objects \subseteq known /\ Start \subseteq known /\ waiting \subseteq DOMAIN objects

\* Some kept link of the objects O leads to k.
LedTo(O, k) == \E j \in DOMAIN O : \E l \in O[j].links : l.to = k

\* A task is for an object that became known through a link that is kept, and the
\* only one for it.
IsTask(t) ==
    /\ t = [key |-> t.key, selector |-> t.selector, limiter |-> t.limiter, at |-> t.at, got |-> t.got]
    /\ t.at \in {"list", "publish"}
TasksSound ==
    /\ \A t \in tasks : IsTask(t) /\ t.key \in known /\ t.key \notin DOMAIN objects /\ t.key \notin Start
    /\ \A t \in tasks : LedTo(objects, t.key)
    /\ \A t, u \in tasks : t.key = u.key => t = u

\* Each key is listed once, and not before it is known.
AskedSound ==
    /\ asked \in [Keys -> Nat]
    /\ \A k \in Keys : asked[k] <= 1
    /\ \A k \in Keys : k \notin known \/ k \in Start => asked[k] = 0
    /\ \A t \in tasks : t.at = "list" /\ t.key \in Keys => asked[t.key] = 0

\* What each limit has paid for, is to pay for and has left is at most the limit.
Positive(n) == IF n > 0 THEN n ELSE 0
Listing(T, l) == {t \in T : t.at = "list" /\ t.limiter = l}
LeftOf(lim, l) == IF l \in DOMAIN lim THEN Positive(lim[l]) ELSE 0
Affordable(sp, T, lim, l) == sp[l] + Cardinality(Listing(T, l)) + LeftOf(lim, l) <= FollowLimit
LimitsSound ==
    /\ IsFiniteSet(tasks)
    /\ limits = [l \in DOMAIN limits |-> limits[l]] /\ \A l \in DOMAIN limits : limits[l] \in Int
    /\ phase = "follow" => waiting \cup {Global} \subseteq DOMAIN limits
    /\ \A t \in tasks : t.limiter \in DOMAIN limits
    /\ spent \in [Keys \cup {Global} -> Nat]
    /\ \A l \in Keys \cup {Global} : Affordable(spent, tasks, limits, l)

\* No kept link of the objects O leads into or out of S.
ClosedIn(O, S) ==
    \A k \in DOMAIN O : \A l \in O[k].links : l.to \in DOMAIN O => (k \in S <=> l.to \in S)

\* The objects O hang together.
ConnectedIn(O) ==
    /\ DOMAIN O # {}
    /\ \A S \in SUBSET DOMAIN O : S # {} /\ ClosedIn(O, S) => S = DOMAIN O

\* k has a link to its parent p.
HasParent(O, k, p) == \E s \in LinksIn(O[k].spans) : s.role = "parent" /\ s.to = p

\* The objects O form a hierarchy whose links are recorded at both ends.
BothEnds(O) ==
    \A k \in DOMAIN O : \A s \in LinksIn(O[k].spans) :
      s.to \in DOMAIN O => \E r \in LinksIn(O[s.to].spans) : r.to = k /\ r.role # s.role
SingleParent(O) == \A k \in DOMAIN O : \A p, q : HasParent(O, k, p) /\ HasParent(O, k, q) => p = q
NoLoop(O) ==
    \A S \in SUBSET DOMAIN O : S # {} => \E k \in S : \A p \in S : ~HasParent(O, k, p)
Hierarchy(O) == BothEnds(O) /\ SingleParent(O) /\ NoLoop(O)

\* Of the links between two of the objects O one was kept.
KeptIn(O) ==
    \A k \in DOMAIN O : \A s \in LinksIn(O[k].spans) : s.to \in DOMAIN O => \E l \in O[k].links : l.to = s.to

\* What opening a trace has loaded hangs together; in a hierarchy no link that
\* was not followed turned out to lead to an object loaded by another way.
OpenedConnected ==
    req.kind = "get" =>
      /\ Start \subseteq DOMAIN objects /\ ConnectedIn(objects)
      /\ Hierarchy(objects) => KeptIn(objects)

\* The tree holds the object it started from and, of every object in it that is no
\* longer to do, those that its links lead down to.
Done(O, sh, k) == \A l \in O[k].links : l.role = "child" /\ l.to \in sh.members => l.to \in sh.inTree
OnTop(O, k) == \A p \in DOMAIN O : ~HasParent(O, k, p)
Listed(todo, k) == \E i \in 1..Len(todo) : todo[i] = k
TreeSoundIn(O, sh) ==
    /\ sh.members \subseteq DOMAIN O /\ sh.inTree \subseteq sh.members
    /\ sh.todo \in Seq(sh.inTree)
    /\ \A k \in sh.inTree : Listed(sh.todo, k) \/ Done(O, sh, k)
TreeSound ==
    phase \in {"merge", "transform"} =>
      /\ TreeSoundIn(objects, shown)
      /\ phase = "transform" => shown.todo = <<>>
      /\ req.kind = "get" => /\ shown.members = DOMAIN objects
                             /\ Hierarchy(objects) => \E root \in shown.inTree : OnTop(objects, root)

\* The traces g hang together by links among the spans X of the storage.
Separated(g, X, S) ==
    \A s \in LinksIn(X) : s.trace \in g /\ s.to \in KeysOf(g) => (Traces[s.trace].key \in S <=> s.to \in S)
GroupConnected(g, X) ==
    /\ g # {} /\ g \subseteq DOMAIN Traces
    /\ \A S \in SUBSET KeysOf(g) : S # {} /\ Separated(g, X, S) => S = KeysOf(g)
GroupsConnected ==
    /\ shown = [members |-> shown.members, inTree |-> shown.inTree, todo |-> shown.todo,
                extensions |-> shown.extensions, groups |-> shown.groups]
    /\ \A e \in entries : GroupConnected(e.traces, stored)
    /\ \A g \in shown.groups : GroupConnected(g, stored)

ReaderInv ==
    /\ LoadedSound /\ TasksSound /\ AskedSound /\ LimitsSound
    /\ OpenedConnected /\ TreeSound /\ GroupsConnected /\ ReopenIsOneTree

-----------------------------------------------------------------------------
(* Considering the links of an object *)

\* A set of numbers that is not empty has a first one.
LEMMA FirstNumber ==
  ASSUME NEW T \in SUBSET Nat, T # {}
  PROVE  \E x \in T : \A y \in T : x <= y
<1> DEFINE R == OpToRel(<, Nat)
<1>1. \A x, y \in Nat : <<x, y>> \in R <=> x < y
  BY DEF OpToRel
<1>2. IsWellFoundedOn(R, Nat)
  BY NatLessThanWellFounded, Zenon
<1> HIDE DEF R
<1>3. PICK x \in T : \A y \in T : ~(<<y, x>> \in R)
  BY <1>2, WFMin, Zenon
<1>4. ASSUME NEW y \in T PROVE x <= y
  <2>1. x \in Nat /\ y \in Nat /\ ~(<<y, x>> \in R)
    BY <1>3
  <2>2. ~(y < x)
    BY <1>1, <2>1
  <2> QED
    BY <2>1, <2>2
<1> QED
  BY <1>4

\* A link considered by scheduleFrom, or attached by mergeLinkedTraces.
Step(f, key, sel, link, st) == IF f = "follow" THEN consider(key, sel, link, st) ELSE attach(key, link, st)

\* The values of such a loop, up to the first n links.
Loop(f, key, sel, order, start, n, g) ==
    /\ g = [i \in 0..n |-> g[i]]
    /\ g[0] = start
    /\ \A i \in 1..n : g[i] = Step(f, key, sel, order[i], g[i - 1])

LEMMA LoopExists ==
  ASSUME NEW f, NEW key, NEW sel, NEW order, NEW start, NEW m \in Nat
  PROVE  \E g : Loop(f, key, sel, order, start, m, g)
<1> DEFINE Runs(n) == \E g : Loop(f, key, sel, order, start, n, g)
           T == {n \in 0..m : ~Runs(n)}
<1>1. SUFFICES ASSUME T # {} PROVE FALSE
  BY SMT
<1>2. T \in SUBSET Nat
  OBVIOUS
<1>3. PICK n \in T : \A y \in T : n <= y
  <2> HIDE DEF T
  <2> QED
    BY <1>1, <1>2, FirstNumber
<1>4. n \in Nat /\ n <= m /\ ~Runs(n)
  OBVIOUS
<1>5. CASE n = 0
  <2> DEFINE h == [i \in 0..0 |-> start]
  <2>1. h = [i \in 0..0 |-> h[i]] /\ h[0] = start /\ 1..0 = {}
    OBVIOUS
  <2> HIDE DEF h
  <2>2. Loop(f, key, sel, order, start, 0, h)
    BY <2>1 DEF Loop
  <2> QED
    BY <1>4, <1>5, <2>2
<1>6. CASE n # 0
  <2>1. n - 1 \in 0..m /\ ~(n <= n - 1) /\ n - 1 \in Nat
    BY <1>4, <1>6
  <2>2. Runs(n - 1)
    <3> HIDE DEF Runs
    <3> QED
      BY <1>3, <2>1
  <2>3. PICK g : Loop(f, key, sel, order, start, n - 1, g)
    BY <2>2
  <2>4. PICK last : last = Step(f, key, sel, order[n], g[n - 1])
    OBVIOUS
  <2> DEFINE h == [i \in 0..n |-> IF i = n THEN last ELSE g[i]]
  <2>5. h = [i \in 0..n |-> h[i]]
    OBVIOUS
  <2>6. h[n] = last /\ h[0] = start /\ \A i \in 0..(n - 1) : h[i] = g[i]
    BY <1>4, <1>6, <2>1, <2>3 DEF Loop
  <2> HIDE DEF h
  <2>7. ASSUME NEW i \in 1..n PROVE h[i] = Step(f, key, sel, order[i], h[i - 1])
    <3>1. i - 1 \in 0..(n - 1)
      BY <1>4
    <3>2. CASE i = n
      <4>1. h[i] = last /\ h[i - 1] = g[n - 1]
        BY <2>6, <3>1, <3>2
      <4> QED
        BY <2>4, <3>2, <4>1, Zenon
    <3>3. CASE i # n
      <4>1. i \in 1..(n - 1) /\ i \in 0..(n - 1)
        BY <1>4, <3>3
      <4>2. g[i] = Step(f, key, sel, order[i], g[i - 1])
        BY <2>3, <4>1 DEF Loop
      <4>3. h[i] = g[i] /\ h[i - 1] = g[i - 1]
        BY <2>6, <3>1, <4>1
      <4> QED
        BY <4>2, <4>3, Zenon
    <3> QED
      BY <3>2, <3>3
  <2>8. Loop(f, key, sel, order, start, n, h)
    BY <2>5, <2>6, <2>7 DEF Loop
  <2> QED
    BY <1>4, <2>8
<1> QED
  BY <1>5, <1>6

LEMMA LoopRuns ==
  ASSUME NEW f, NEW key, NEW sel, NEW order, Len(order) \in Nat, NEW start, NEW t,
         t = CHOOSE g : g = [n \in 0..Len(order) |-> IF n = 0 THEN start ELSE Step(f, key, sel, order[n], g[n - 1])]
  PROVE  Loop(f, key, sel, order, start, Len(order), t)
<1> DEFINE body(g) == [n \in 0..Len(order) |-> IF n = 0 THEN start ELSE Step(f, key, sel, order[n], g[n - 1])]
<1>1. PICK g : Loop(f, key, sel, order, start, Len(order), g)
  BY LoopExists
<1>2. \A n \in 0..Len(order) : n = 0 \/ n \in 1..Len(order)
  OBVIOUS
<1>3. g = body(g)
  <2>1. \A n \in 0..Len(order) : g[n] = IF n = 0 THEN start ELSE Step(f, key, sel, order[n], g[n - 1])
    BY <1>1, <1>2 DEF Loop
  <2>2. g = [n \in 0..Len(order) |-> g[n]]
    BY <1>1 DEF Loop
  <2> QED
    BY <2>1, <2>2
<1>4. t = CHOOSE h : h = body(h)
  OBVIOUS
<1>5. t = body(t)
  <2> HIDE DEF body
  <2> QED
    BY <1>3, <1>4
<1>6. t = [n \in 0..Len(order) |-> t[n]]
  BY <1>5
<1>7. \A n \in 0..Len(order) : t[n] = IF n = 0 THEN start ELSE Step(f, key, sel, order[n], t[n - 1])
  BY <1>5
<1>8. t[0] = start /\ \A n \in 1..Len(order) : t[n] = Step(f, key, sel, order[n], t[n - 1])
  <2>1. 0 \in 0..Len(order) /\ \A n \in 1..Len(order) : n \in 0..Len(order) /\ n # 0
    OBVIOUS
  <2> QED
    BY <1>7, <2>1
<1> QED
  BY <1>6, <1>8 DEF Loop

LEMMA FollowLoop ==
  ASSUME NEW key, NEW sel, NEW order, Len(order) \in Nat, NEW start
  PROVE  Loop("follow", key, sel, order, start, Len(order), considerAll(key, sel, order, start))
<1>1. PICK t : t = considerAll(key, sel, order, start)
  OBVIOUS
<1>2. t = CHOOSE g : g = [n \in 0..Len(order) |-> IF n = 0 THEN start ELSE Step("follow", key, sel, order[n], g[n - 1])]
  BY <1>1 DEF considerAll, Step
<1> QED
  BY <1>1, <1>2, LoopRuns

LEMMA AttachLoop ==
  ASSUME NEW subj, NEW order, Len(order) \in Nat, NEW start
  PROVE  Loop("attach", subj, subj, order, start, Len(order), attachAll(subj, order, start))
<1>1. PICK t : t = attachAll(subj, order, start)
  OBVIOUS
<1>2. t = CHOOSE g : g = [n \in 0..Len(order) |-> IF n = 0 THEN start ELSE Step("attach", subj, subj, order[n], g[n - 1])]
  BY <1>1 DEF attachAll, Step
<1> QED
  BY <1>1, <1>2, LoopRuns

\* What the loop has after considering the links L, from the keys K known and the
\* limit left: links to known keys are kept; each key found is new, is found once
\* and through a link that is kept; and each costs one of the limit.
Considered(st, L, K, left) ==
    /\ st = [links |-> st.links, known |-> st.known, left |-> st.left, found |-> st.found]
    /\ st.links \subseteq L
    /\ \A l \in L : l.to \in K => l \in st.links
    /\ st.known = K \cup {f.key : f \in st.found}
    /\ \A f \in st.found : f.key \notin K /\ \E l \in st.links : l.to = f.key
    /\ \A f, g \in st.found : f.key = g.key => f = g
    /\ st.left \in Int /\ IsFiniteSet(st.found)
    /\ Cardinality(st.found) + Positive(st.left) <= Positive(left)

LEMMA ConsiderOne ==
  ASSUME NEW key, NEW sel, NEW link, NEW L, NEW K, NEW left \in Int, NEW st, Considered(st, L, K, left)
  PROVE  Considered(consider(key, sel, link, st), L \cup {link}, K, left)
<1>1. PICK u : u = consider(key, sel, link, st)
  OBVIOUS
<1>2. PICK sub : sub = admit(key, sel, link)
  OBVIOUS
<1>3. PICK less : less = Charged(st.left)
  OBVIOUS
<1>4. /\ st = [links |-> st.links, known |-> st.known, left |-> st.left, found |-> st.found]
      /\ st.left \in Int /\ st.links \subseteq L /\ (\A l \in L : l.to \in K => l \in st.links)
      /\ st.known = K \cup {f.key : f \in st.found}
      /\ (\A f \in st.found : f.key \notin K /\ \E l \in st.links : l.to = f.key)
      /\ (\A f, g \in st.found : f.key = g.key => f = g)
      /\ IsFiniteSet(st.found) /\ Cardinality(st.found) + Positive(st.left) <= Positive(left)
  BY DEF Considered
<1>5. PICK c \in Nat : c = Cardinality(st.found)
  BY <1>4, FS_CardinalityType
<1>6. less \in Int /\ Positive(less) \in Nat /\ Positive(st.left) \in Nat /\ Positive(left) \in Nat /\ Positive(less) <= Positive(st.left)
  BY <1>3, <1>4 DEF Charged, Positive
<1>7. CASE link.to \in st.known
  <2>1. u = [links |-> st.links \cup {link}, known |-> st.known, left |-> st.left, found |-> st.found]
    BY <1>1, <1>4, <1>7 DEF consider
  <2>2. u.links = st.links \cup {link} /\ u.known = st.known /\ u.left = st.left /\ u.found = st.found
    BY <2>1
  <2>3. u = [links |-> u.links, known |-> u.known, left |-> u.left, found |-> u.found]
    BY <2>1, <2>2
  <2> QED
    BY <1>1, <1>4, <2>2, <2>3 DEF Considered
<1>8. CASE link.to \notin st.known /\ (less < 0 \/ sub = Nil)
  <2>1. u = [links |-> st.links, known |-> st.known, left |-> less, found |-> st.found]
    BY <1>1, <1>2, <1>3, <1>4, <1>8 DEF consider
  <2>2. u.links = st.links /\ u.known = st.known /\ u.left = less /\ u.found = st.found
    BY <2>1
  <2>3. u = [links |-> u.links, known |-> u.known, left |-> u.left, found |-> u.found]
    BY <2>1, <2>2
  <2>4. c + Positive(less) <= Positive(left)
    <3>1. c + Positive(st.left) <= Positive(left)
      BY <1>4, <1>5
    <3> QED
      BY <1>5, <1>6, <3>1
  <2>5. link.to \notin K
    BY <1>4, <1>8
  <2> QED
    BY <1>1, <1>4, <1>5, <1>6, <2>2, <2>3, <2>4, <2>5 DEF Considered
<1>9. CASE link.to \notin st.known /\ ~(less < 0) /\ sub # Nil
  <2>1. PICK new : new = [key |-> link.to, selector |-> sub]
    OBVIOUS
  <2>2. u = [links |-> st.links \cup {link}, known |-> st.known \cup {link.to}, left |-> less, found |-> st.found \cup {new}]
    BY <1>1, <1>2, <1>3, <1>9, <2>1 DEF consider
  <2>3. u.links = st.links \cup {link} /\ u.known = st.known \cup {link.to} /\ u.left = less /\ u.found = st.found \cup {new}
    BY <2>2
  <2>4. u = [links |-> u.links, known |-> u.known, left |-> u.left, found |-> u.found]
    BY <2>2, <2>3
  <2>5. new.key = link.to /\ link.to \notin K /\ \A f \in st.found : f.key # link.to
    BY <1>4, <1>9, <2>1
  <2>6. new \notin st.found
    BY <2>5
  <2>7. IsFiniteSet(u.found) /\ Cardinality(u.found) = c + 1
    BY <1>4, <1>5, <2>3, <2>6, FS_AddElement
  <2>8. c + 1 + Positive(less) <= Positive(left)
    <3>1. Positive(st.left) = 1 + Positive(less)
      BY <1>3, <1>4, <1>6, <1>9 DEF Charged, Positive
    <3>2. c + Positive(st.left) <= Positive(left)
      BY <1>4, <1>5
    <3> QED
      BY <1>5, <1>6, <3>1, <3>2
  <2>9. u.known = K \cup {f.key : f \in u.found}
    BY <1>4, <2>3, <2>5
  <2>10. \A f, g \in u.found : f.key = g.key => f = g
    BY <1>4, <2>3, <2>5
  <2>11. \A f \in u.found : f.key \notin K /\ \E l \in u.links : l.to = f.key
    BY <1>4, <2>3, <2>5
  <2>12. u.links \subseteq L \cup {link} /\ \A l \in L \cup {link} : l.to \in K => l \in u.links
    BY <1>4, <2>3
  <2>13. u.left \in Int /\ Cardinality(u.found) + Positive(u.left) <= Positive(left)
    BY <1>6, <2>3, <2>7, <2>8
  <2> QED
    BY <1>1, <2>4, <2>7, <2>9, <2>10, <2>11, <2>12, <2>13 DEF Considered
<1> QED
  BY <1>7, <1>8, <1>9

LEMMA ConsiderAll ==
  ASSUME NEW key, NEW sel, NEW order, Len(order) \in Nat, NEW K, NEW left \in Int, NEW start,
         start = [links |-> {}, known |-> K, left |-> left, found |-> {}]
  PROVE  Considered(considerAll(key, sel, order, start)[Len(order)], {order[i] : i \in 1..Len(order)}, K, left)
<1>1. PICK g : g = considerAll(key, sel, order, start)
  OBVIOUS
<1>2. g[0] = start /\ \A i \in 1..Len(order) : g[i] = consider(key, sel, order[i], g[i - 1])
  <2>1. Loop("follow", key, sel, order, start, Len(order), g)
    BY <1>1, FollowLoop, Zenon
  <2>2. g[0] = start /\ \A i \in 1..Len(order) : g[i] = Step("follow", key, sel, order[i], g[i - 1])
    BY <2>1 DEF Loop
  <2> QED
    BY <2>2 DEF Step
<1> DEFINE L(n) == {order[i] : i \in 1..n}
           T == {n \in 0..Len(order) : ~Considered(g[n], L(n), K, left)}
<1>3. SUFFICES ASSUME T # {} PROVE FALSE
  <2>1. Len(order) \in 0..Len(order)
    OBVIOUS
  <2> QED
    BY <1>1, <2>1
<1>4. T \in SUBSET Nat
  OBVIOUS
<1>5. PICK n \in T : \A y \in T : n <= y
  <2> HIDE DEF T
  <2> QED
    BY <1>3, <1>4, FirstNumber
<1>6. n \in Nat /\ n <= Len(order) /\ ~Considered(g[n], L(n), K, left)
  OBVIOUS
<1>7. CASE n = 0
  <2>1. L(0) = {}
    OBVIOUS
  <2>2. Considered(start, {}, K, left)
    <3>1. start.links = {} /\ start.known = K /\ start.left = left /\ start.found = {}
      OBVIOUS
    <3>2. IsFiniteSet(start.found) /\ Cardinality(start.found) = 0
      BY <3>1, FS_EmptySet
    <3>3. 0 + Positive(left) <= Positive(left) /\ Positive(left) \in Nat
      BY DEF Positive
    <3> QED
      BY <3>1, <3>2, <3>3 DEF Considered
  <2> HIDE DEF L
  <2> QED
    BY <1>2, <1>6, <1>7, <2>1, <2>2
<1>8. CASE n # 0
  <2>1. n - 1 \in 0..Len(order) /\ ~(n <= n - 1) /\ n \in 1..Len(order)
    BY <1>6, <1>8
  <2>2. Considered(g[n - 1], L(n - 1), K, left)
    <3> HIDE DEF L
    <3> QED
      BY <1>5, <2>1
  <2>3. L(n) = L(n - 1) \cup {order[n]}
    <3>1. \A i \in 1..n : i \in 1..(n - 1) \/ i = n
      BY <1>6
    <3>2. n \in 1..n /\ \A i \in 1..(n - 1) : i \in 1..n
      BY <1>6, <1>8
    <3> QED
      BY <3>1, <3>2
  <2>4. g[n] = consider(key, sel, order[n], g[n - 1])
    BY <1>2, <2>1
  <2> HIDE DEF L
  <2>5. PICK prev : prev = g[n - 1]
    OBVIOUS
  <2>6. PICK M : M = L(n - 1)
    OBVIOUS
  <2>7. Considered(consider(key, sel, order[n], prev), M \cup {order[n]}, K, left)
    BY <2>2, <2>5, <2>6, ConsiderOne
  <2> QED
    BY <1>6, <2>3, <2>4, <2>5, <2>6, <2>7
<1> QED
  BY <1>7, <1>8

-----------------------------------------------------------------------------
(* Hierarchies of objects *)

\* The links of the objects O have a role, and what is kept of them are links.
WellFormed(O) ==
    \A k \in DOMAIN O : /\ \A s \in LinksIn(O[k].spans) : s.role \in {"parent", "child"}
                        /\ O[k].links \subseteq LinksIn(O[k].spans)

DownClosed(O, S) == \A k \in DOMAIN O : \A p \in S : HasParent(O, k, p) => k \in S

\* A link down is recorded as a link up at the other end, and the other way round.
LEMMA OtherEnd ==
  ASSUME NEW O, WellFormed(O), BothEnds(O), NEW k \in DOMAIN O, NEW s \in LinksIn(O[k].spans), s.to \in DOMAIN O
  PROVE  /\ s.role = "parent" \/ s.role = "child"
         /\ s.role = "child" => HasParent(O, s.to, k)
         /\ s.role = "parent" => /\ HasParent(O, k, s.to)
                                 /\ \E r \in LinksIn(O[s.to].spans) : r.to = k /\ r.role = "child"
<1>1. s.role \in {"parent", "child"}
  BY DEF WellFormed
<1>2. PICK r \in LinksIn(O[s.to].spans) : r.to = k /\ r.role # s.role
  BY DEF BothEnds
<1>3. r.role \in {"parent", "child"}
  BY DEF WellFormed
<1> QED
  BY <1>1, <1>2, <1>3 DEF HasParent

\* No two objects are above each other.
LEMMA NoMutual ==
  ASSUME NEW O, NoLoop(O), NEW k \in DOMAIN O, NEW p \in DOMAIN O, HasParent(O, k, p), HasParent(O, p, k)
  PROVE  FALSE
<1>1. PICK S \in SUBSET DOMAIN O : S = {k, p}
  OBVIOUS
<1>2. PICK j \in S : \A q \in S : ~HasParent(O, j, q)
  BY <1>1 DEF NoLoop
<1> QED
  BY <1>1, <1>2

\* From an object without a parent every object is reached downwards.
LEMMA ReachedFromTop ==
  ASSUME NEW O, WellFormed(O), BothEnds(O), SingleParent(O), ConnectedIn(O),
         NEW x \in DOMAIN O, OnTop(O, x), NEW S \in SUBSET DOMAIN O, x \in S, DownClosed(O, S)
  PROVE  S = DOMAIN O
<1>1. PICK B : B = {k \in DOMAIN O : \A T \in SUBSET DOMAIN O : x \in T /\ DownClosed(O, T) => k \in T}
  OBVIOUS
<1>2. B \in SUBSET DOMAIN O /\ x \in B /\ B \subseteq S
  BY <1>1
<1>3. \A T \in SUBSET DOMAIN O : x \in T /\ DownClosed(O, T) => B \subseteq T
  BY <1>1
<1>4. DownClosed(O, B)
  <2>1. ASSUME NEW k \in DOMAIN O, NEW p \in B, HasParent(O, k, p),
               NEW T \in SUBSET DOMAIN O, x \in T, DownClosed(O, T)
        PROVE  k \in T
    BY <1>3, <2>1 DEF DownClosed
  <2> QED
    BY <1>1, <2>1 DEF DownClosed
<1>5. ASSUME NEW k \in B, k # x, NEW p \in DOMAIN O, HasParent(O, k, p), p \notin B PROVE FALSE
  <2>1. PICK T \in SUBSET DOMAIN O : T = B \ {k}
    BY <1>2
  <2>2. ASSUME NEW j \in DOMAIN O, NEW q \in T, HasParent(O, j, q) PROVE j \in T
    <3>1. q \in B /\ j \in B
      BY <1>4, <2>1, <2>2 DEF DownClosed
    <3>2. j # k
      BY <1>2, <1>5, <2>2, <3>1 DEF SingleParent
    <3> QED
      BY <2>1, <3>1, <3>2
  <2>3. DownClosed(O, T)
    BY <2>2 DEF DownClosed
  <2> QED
    BY <1>2, <1>3, <1>5, <2>1, <2>3
<1>6. ClosedIn(O, B)
  <2>1. ASSUME NEW k \in DOMAIN O, NEW p \in DOMAIN O, HasParent(O, k, p) PROVE k \in B <=> p \in B
    <3>1. p \in B => k \in B
      BY <1>4, <2>1 DEF DownClosed
    <3>2. k # x
      BY <2>1 DEF OnTop
    <3> QED
      BY <1>5, <2>1, <3>1, <3>2
  <2>2. ASSUME NEW k \in DOMAIN O, NEW l \in O[k].links, l.to \in DOMAIN O PROVE k \in B <=> l.to \in B
    <3>1. l \in LinksIn(O[k].spans)
      BY DEF WellFormed
    <3>2. HasParent(O, l.to, k) \/ HasParent(O, k, l.to)
      BY <2>2, <3>1, OtherEnd
    <3> QED
      BY <2>1, <2>2, <3>2
  <2> QED
    BY <2>2 DEF ClosedIn
<1>7. B = DOMAIN O
  BY <1>2, <1>6 DEF ConnectedIn
<1> QED
  BY <1>2, <1>7

\* Only one object of a hierarchy that hangs together has no parent in it.
LEMMA OneTop ==
  ASSUME NEW O, WellFormed(O), BothEnds(O), SingleParent(O), ConnectedIn(O),
         NEW x \in DOMAIN O, OnTop(O, x), NEW y \in DOMAIN O, y # x
  PROVE  \E p \in DOMAIN O : HasParent(O, y, p)
<1> SUFFICES ASSUME \A p \in DOMAIN O : ~HasParent(O, y, p) PROVE FALSE
  OBVIOUS
<1>1. PICK S \in SUBSET DOMAIN O : S = DOMAIN O \ {y}
  OBVIOUS
<1>2. DownClosed(O, S)
  BY <1>1 DEF DownClosed
<1>3. x \in S
  BY <1>1
<1>4. S = DOMAIN O
  BY <1>2, <1>3, ReachedFromTop
<1> QED
  BY <1>1, <1>4

\* An object that is added to a hierarchy is next to one object of it only.
LEMMA NoSecondWay ==
  ASSUME NEW Q, NEW O, NEW key, DOMAIN O = DOMAIN Q \cup {key}, key \notin DOMAIN Q,
         \A k \in DOMAIN Q : O[k] = Q[k], WellFormed(Q), Hierarchy(Q), Hierarchy(O), ConnectedIn(Q),
         NEW x \in DOMAIN Q, HasParent(O, x, key), NEW y \in DOMAIN Q, y # x,
         HasParent(O, y, key) \/ HasParent(O, key, y)
  PROVE  FALSE
<1>1. \A k \in DOMAIN Q : \A p : HasParent(Q, k, p) <=> HasParent(O, k, p)
  BY DEF HasParent
<1>2. \A k \in DOMAIN O : \A p, q : HasParent(O, k, p) /\ HasParent(O, k, q) => p = q
  BY DEF Hierarchy, SingleParent
<1>3. OnTop(Q, x)
  BY <1>1, <1>2 DEF OnTop
<1>4. \A z \in DOMAIN Q : z # x => \E p \in DOMAIN Q : HasParent(Q, z, p)
  BY <1>3, OneTop DEF Hierarchy
<1>5. CASE HasParent(O, y, key)
  BY <1>1, <1>2, <1>4, <1>5
<1>6. CASE HasParent(O, key, y)
  <2>1. \A z \in DOMAIN O : \E p \in DOMAIN O : HasParent(O, z, p)
    BY <1>1, <1>4, <1>6
  <2>2. PICK S \in SUBSET DOMAIN O : S = DOMAIN O
    OBVIOUS
  <2>3. PICK z \in S : \A p \in S : ~HasParent(O, z, p)
    BY <2>2 DEF Hierarchy, NoLoop
  <2> QED
    BY <2>1, <2>2, <2>3
<1> QED
  BY <1>5, <1>6

\* Fewer objects of a hierarchy are a hierarchy.
LEMMA SmallerHierarchy ==
  ASSUME NEW Q, NEW O, DOMAIN Q \subseteq DOMAIN O, \A k \in DOMAIN Q : O[k].spans = Q[k].spans, Hierarchy(O)
  PROVE  Hierarchy(Q)
<1>1. \A k \in DOMAIN Q : \A p : HasParent(Q, k, p) <=> HasParent(O, k, p)
  BY DEF HasParent
<1>2. BothEnds(Q)
  BY DEF Hierarchy, BothEnds
<1>3. SingleParent(Q)
  BY <1>1 DEF Hierarchy, SingleParent
<1>4. NoLoop(Q)
  <2>1. ASSUME NEW S \in SUBSET DOMAIN Q, S # {} PROVE \E k \in S : \A p \in S : ~HasParent(Q, k, p)
    <3>1. S \in SUBSET DOMAIN O
      OBVIOUS
    <3>2. PICK k \in S : \A p \in S : ~HasParent(O, k, p)
      BY <2>1, <3>1 DEF Hierarchy, NoLoop
    <3> QED
      BY <1>1, <3>2
  <2> QED
    BY <2>1 DEF NoLoop
<1> QED
  BY <1>2, <1>3, <1>4 DEF Hierarchy

\* An object that was found through a kept link and loaded with all of its links.
LEMMA KeptGrows ==
  ASSUME NEW Q, NEW O, NEW key, DOMAIN O = DOMAIN Q \cup {key}, key \notin DOMAIN Q,
         \A k \in DOMAIN Q : O[k] = Q[k], WellFormed(O), Hierarchy(O), ConnectedIn(Q), LedTo(Q, key),
         Hierarchy(Q) => KeptIn(Q), O[key].links = LinksIn(O[key].spans)
  PROVE  KeptIn(O)
<1>1. WellFormed(Q) /\ Hierarchy(Q) /\ KeptIn(Q)
  <2>1. Hierarchy(Q)
    BY SmallerHierarchy
  <2> QED
    BY <2>1 DEF WellFormed
<1>2. PICK d \in DOMAIN Q : \E l \in Q[d].links : l.to = key
  BY DEF LedTo
<1>3. PICK l \in LinksIn(O[d].spans) : l.to = key /\ l \in O[d].links
  BY <1>2 DEF WellFormed
<1>4. ASSUME NEW k \in DOMAIN O, NEW s \in LinksIn(O[k].spans), s.to \in DOMAIN O
      PROVE  \E j \in O[k].links : j.to = s.to
  <2>1. CASE k = key
    BY <2>1
  <2>2. CASE k \in DOMAIN Q /\ s.to \in DOMAIN Q
    BY <1>1, <2>2 DEF KeptIn
  <2>3. CASE k \in DOMAIN Q /\ s.to = key
    <3>1. CASE k = d
      BY <1>3, <2>3, <3>1
    <3>2. CASE k # d
      <4>1. /\ s.role = "parent" \/ s.role = "child"
            /\ s.role = "child" => HasParent(O, key, k)
            /\ s.role = "parent" => HasParent(O, k, key)
        BY <1>4, <2>3, OtherEnd DEF Hierarchy
      <4>2. /\ l.role = "parent" \/ l.role = "child"
            /\ l.role = "child" => HasParent(O, key, d)
            /\ l.role = "parent" => HasParent(O, d, key)
        BY <1>2, <1>3, OtherEnd DEF Hierarchy
      <4>3. CASE HasParent(O, k, key)
        BY <1>1, <2>3, <3>2, <4>2, <4>3, NoSecondWay
      <4>4. CASE HasParent(O, d, key)
        BY <1>1, <2>3, <3>2, <4>1, <4>4, NoSecondWay
      <4>5. CASE HasParent(O, key, k) /\ HasParent(O, key, d)
        BY <3>2, <4>5 DEF Hierarchy, SingleParent
      <4> QED
        BY <4>1, <4>2, <4>3, <4>4, <4>5
    <3> QED
      BY <3>1, <3>2
  <2> QED
    BY <1>4, <2>1, <2>2, <2>3
<1> QED
  BY <1>4 DEF KeptIn
-----------------------------------------------------------------------------
(* Scheduling *)

LEMMA OrderFacts ==
  ASSUME NEW S, IsFiniteSet(S), NEW order \in Orders(S)
  PROVE  Len(order) \in Nat /\ {order[i] : i \in 1..Len(order)} = S
<1>1. PICK n \in Nat : n = Cardinality(S)
  BY FS_CardinalityType
<1>2. order \in [1..n -> S] /\ \A x \in S : \E i \in DOMAIN order : order[i] = x
  BY <1>1 DEF Orders
<1>3. Len(order) = n
  BY <1>2
<1> QED
  BY <1>2, <1>3

\* The tasks for what was found.
TasksFor(found, limiter) ==
    {[key |-> f.key, selector |-> f.selector, limiter |-> limiter, at |-> "list", got |-> {}] : f \in found}

LEMMA NewTasks ==
  ASSUME NEW found, IsFiniteSet(found), NEW limiter
  PROVE  /\ IsFiniteSet(TasksFor(found, limiter))
         /\ Cardinality(TasksFor(found, limiter)) <= Cardinality(found)
         /\ \A t \in TasksFor(found, limiter) :
              /\ t = [key |-> t.key, selector |-> t.selector, limiter |-> t.limiter, at |-> t.at, got |-> t.got]
              /\ t.at = "list" /\ t.limiter = limiter /\ t.got = {}
              /\ \E f \in found : f.key = t.key /\ f.selector = t.selector
<1> DEFINE g == [f \in found |-> [key |-> f.key, selector |-> f.selector, limiter |-> limiter, at |-> "list", got |-> {}]]
           T == TasksFor(found, limiter)
<1>1. g \in Surjection(found, T)
  BY DEF TasksFor, Surjection
<1>2. \A t \in T : /\ t = [key |-> t.key, selector |-> t.selector, limiter |-> t.limiter, at |-> t.at, got |-> t.got]
                   /\ t.at = "list" /\ t.limiter = limiter /\ t.got = {}
                   /\ \E f \in found : f.key = t.key /\ f.selector = t.selector
  BY DEF TasksFor
<1> HIDE DEF g, T
<1>3. IsFiniteSet(T) /\ Cardinality(T) <= Cardinality(found)
  BY <1>1, FS_Surjection
<1> QED
  BY <1>2, <1>3 DEF T

LEMMA ScheduleFacts ==
  ASSUME NEW objs, NEW key, NEW limiter, NEW sel, NEW rest, IsFiniteSet(objs[key].links), limits[limiter] \in Int,
         scheduleFrom(objs, key, limiter, sel, rest)
  PROVE  \E st : /\ Considered(st, objs[key].links, known, limits[limiter])
                 /\ objects' = [objs EXCEPT ![key].links = st.links]
                 /\ known' = st.known
                 /\ limits' = [limits EXCEPT ![limiter] = st.left]
                 /\ tasks' = rest \cup TasksFor(st.found, limiter)
<1>1. PICK start : start = [links |-> {}, known |-> known, left |-> limits[limiter], found |-> {}]
  OBVIOUS
<1>2. PICK order \in Orders(objs[key].links) :
         \E st : /\ st = considerAll(key, sel, order, start)[Len(order)]
                 /\ objects' = [objs EXCEPT ![key].links = st.links]
                 /\ known' = st.known
                 /\ limits' = [limits EXCEPT ![limiter] = st.left]
                 /\ tasks' = rest \cup TasksFor(st.found, limiter)
  BY <1>1 DEF scheduleFrom, TasksFor
<1>3. PICK st : /\ st = considerAll(key, sel, order, start)[Len(order)]
                /\ objects' = [objs EXCEPT ![key].links = st.links]
                /\ known' = st.known
                /\ limits' = [limits EXCEPT ![limiter] = st.left]
                /\ tasks' = rest \cup TasksFor(st.found, limiter)
  BY <1>2, Zenon
<1>4. PICK K : K = known
  OBVIOUS
<1>5. PICK left \in Int : left = limits[limiter]
  OBVIOUS
<1>6. Len(order) \in Nat /\ {order[i] : i \in 1..Len(order)} = objs[key].links
  BY OrderFacts
<1>7. start = [links |-> {}, known |-> K, left |-> left, found |-> {}]
  BY <1>1, <1>4, <1>5
<1>8. Considered(st, {order[i] : i \in 1..Len(order)}, K, left)
  BY <1>3, <1>6, <1>7, ConsiderAll
<1>9. Considered(st, objs[key].links, known, limits[limiter])
  BY <1>4, <1>5, <1>6, <1>8
<1> QED
  BY <1>3, <1>9

\* Some of the tasks that were there and some new ones: what a limit has to pay for.
LEMMA ListingBound ==
  ASSUME NEW T, IsFiniteSet(T), NEW R \in SUBSET T, NEW N, IsFiniteSet(N), NEW l
  PROVE  /\ Cardinality(Listing(R \cup N, l)) \in Nat /\ Cardinality(Listing(T, l)) \in Nat /\ Cardinality(N) \in Nat
         /\ IsFiniteSet(R \cup N)
         /\ Cardinality(Listing(R \cup N, l)) <= Cardinality(Listing(T, l)) + Cardinality(N)
         /\ (\A t \in N : t.limiter # l) => Cardinality(Listing(R \cup N, l)) <= Cardinality(Listing(T, l))
<1>1. IsFiniteSet(Listing(T, l)) /\ Cardinality(Listing(T, l)) \in Nat
  <2>1. Listing(T, l) \in SUBSET T
    BY DEF Listing
  <2> QED
    BY <2>1, FS_Subset, FS_CardinalityType
<1>2. IsFiniteSet(R) /\ IsFiniteSet(R \cup N)
  BY FS_Subset, FS_Union
<1>3. PICK A : A = Listing(T, l)
  OBVIOUS
<1>4. IsFiniteSet(A \cup N) /\ Cardinality(A \cup N) = Cardinality(A) + Cardinality(N) - Cardinality(A \cap N)
  BY <1>1, <1>3, FS_Union
<1>5. IsFiniteSet(A \cap N)
  <2>1. A \cap N \in SUBSET N
    OBVIOUS
  <2> QED
    BY <2>1, FS_Subset
<1>6. Cardinality(A) \in Nat /\ Cardinality(N) \in Nat /\ Cardinality(A \cap N) \in Nat /\ Cardinality(A \cup N) \in Nat
  BY <1>1, <1>3, <1>4, <1>5, FS_CardinalityType
<1>7. PICK B : B = Listing(R \cup N, l)
  OBVIOUS
<1>8. B \in SUBSET (A \cup N)
  BY <1>3, <1>7 DEF Listing
<1>9. IsFiniteSet(B) /\ Cardinality(B) <= Cardinality(A \cup N) /\ Cardinality(B) \in Nat
  BY <1>4, <1>8, FS_Subset, FS_CardinalityType
<1>10. ASSUME \A t \in N : t.limiter # l PROVE Cardinality(B) <= Cardinality(A)
  <2>1. B \in SUBSET A
    BY <1>3, <1>7, <1>10 DEF Listing
  <2> QED
    BY <1>1, <1>3, <2>1, FS_Subset
<1>11. Cardinality(B) <= Cardinality(A) + Cardinality(N)
  BY <1>4, <1>6, <1>9
<1> QED
  BY <1>2, <1>3, <1>6, <1>7, <1>9, <1>10, <1>11

LEMMA Schedule ==
  ASSUME ReaderInv, NEW O, NEW key, NEW limiter, NEW sel, NEW rest,
         scheduleFrom(O, key, limiter, sel, rest),
         rest \subseteq tasks, \A t \in rest : t.key # key,
         DOMAIN O = DOMAIN objects \cup {key}, key \in known, limiter \in DOMAIN limits,
         \A k \in DOMAIN O : SoundObject(O[k], k, stored),
         \A k \in DOMAIN objects : O[k] = objects[k],
         req.kind = "get" => Start \subseteq DOMAIN O /\ ConnectedIn(O) /\ (Hierarchy(O) => KeptIn(O)),
         phase = "follow",
         waiting' \subseteq waiting,
         stored' = stored, entries' = entries, req' = req, phase' = phase, asked' = asked, spent' = spent, shown' = shown
  PROVE  ReaderInv'
<1>1. LoadedSound /\ TasksSound /\ AskedSound /\ LimitsSound /\ OpenedConnected /\ TreeSound /\ GroupsConnected /\ ReopenIsOneTree
  BY DEF ReaderInv
<1>2. IsFiniteSet(O[key].links)
  <2>1. O[key].links \in SUBSET Spans
    <3>1. SoundObject(O[key], key, stored) /\ stored \subseteq Spans
      BY <1>1 DEF LoadedSound
    <3> QED
      BY <3>1 DEF SoundObject, LinksIn
  <2> QED
    BY <2>1, SpansAssumption, FS_Subset
<1>3. limits[limiter] \in Int
  BY <1>1 DEF LimitsSound
<1>4. PICK st : /\ Considered(st, O[key].links, known, limits[limiter])
                /\ objects' = [O EXCEPT ![key].links = st.links]
                /\ known' = st.known
                /\ limits' = [limits EXCEPT ![limiter] = st.left]
                /\ tasks' = rest \cup TasksFor(st.found, limiter)
  BY <1>2, <1>3, ScheduleFacts
<1>5. PICK new : new = TasksFor(st.found, limiter)
  OBVIOUS
<1>6. /\ st.links \subseteq O[key].links
      /\ (\A l \in O[key].links : l.to \in known => l \in st.links)
      /\ st.known = known \cup {f.key : f \in st.found}
      /\ (\A f \in st.found : f.key \notin known /\ \E l \in st.links : l.to = f.key)
      /\ (\A f, g \in st.found : f.key = g.key => f = g)
      /\ st.left \in Int /\ IsFiniteSet(st.found)
      /\ Cardinality(st.found) + Positive(st.left) <= Positive(limits[limiter])
  BY <1>4 DEF Considered
<1>7. /\ IsFiniteSet(new) /\ Cardinality(new) <= Cardinality(st.found)
      /\ \A t \in new : /\ t = [key |-> t.key, selector |-> t.selector, limiter |-> t.limiter, at |-> t.at, got |-> t.got]
                        /\ t.at = "list" /\ t.limiter = limiter /\ t.got = {}
                        /\ \E f \in st.found : f.key = t.key /\ f.selector = t.selector
  BY <1>5, <1>6, NewTasks
<1>8. \A t \in new : t.key \notin known /\ t.key \in st.known /\ \E l \in st.links : l.to = t.key
  BY <1>6, <1>7
<1>9. \A t, u \in new : t.key = u.key => t = u
  <2>1. ASSUME NEW t \in new, NEW u \in new, t.key = u.key PROVE t = u
    <3>1. PICK f \in st.found : f.key = t.key /\ f.selector = t.selector
      BY <1>7
    <3>2. PICK g \in st.found : g.key = u.key /\ g.selector = u.selector
      BY <1>7
    <3>3. f = g
      BY <1>6, <2>1, <3>1, <3>2
    <3>4. t.selector = u.selector /\ t.limiter = u.limiter /\ t.at = u.at /\ t.got = u.got
      BY <1>7, <3>1, <3>2, <3>3
    <3> QED
      BY <1>7, <2>1, <3>4
  <2> QED
    BY <2>1
<1>10. PICK P : P = objects'
  OBVIOUS
<1>11. /\ DOMAIN P = DOMAIN O
       /\ \A k \in DOMAIN O : k # key => P[k] = O[k]
       /\ P[key] = [O[key] EXCEPT !.links = st.links]
  BY <1>4, <1>10
<1>12. P[key].links = st.links /\ P[key].spans = O[key].spans /\ SoundObject(P[key], key, stored)
  <2>1. PICK x : x = O[key]
    OBVIOUS
  <2>2. PICK y : y = P[key]
    OBVIOUS
  <2>3. SoundObject(x, key, stored)
    BY <2>1
  <2>4. x = [traces |-> x.traces, spans |-> x.spans, links |-> x.links, start |-> x.start, end |-> x.end]
    BY <2>3 DEF SoundObject
  <2>5. y = [traces |-> x.traces, spans |-> x.spans, links |-> st.links, start |-> x.start, end |-> x.end]
    BY <1>11, <2>1, <2>2, <2>4
  <2>6. y.traces = x.traces /\ y.spans = x.spans /\ y.links = st.links /\ y.start = x.start /\ y.end = x.end
    BY <2>5
  <2>7. y.links \subseteq x.links
    BY <1>6, <2>1, <2>6
  <2>8. SoundObject(y, key, stored)
    BY <2>3, <2>5, <2>6, <2>7 DEF SoundObject
  <2> QED
    BY <2>1, <2>2, <2>6, <2>8
<1>13. \A k \in DOMAIN P : SoundObject(P[k], k, stored)
  BY <1>11, <1>12
<1>14. DOMAIN O \subseteq known /\ known \subseteq st.known
  BY <1>1, <1>6 DEF LoadedSound
\* A link that leads to a known key is kept.
<1>15. \A k \in DOMAIN O : /\ P[k].links \subseteq O[k].links
                           /\ \A l \in O[k].links : l.to \in known => l \in P[k].links
  BY <1>6, <1>11, <1>12
<1>16. LoadedSound'
  <2>1. \A task \in rest \cup new : \A b \in task.got : SoundTrace(b, task.key, stored)
    BY <1>1, <1>7 DEF LoadedSound
  <2>2. Start \subseteq st.known /\ waiting \subseteq DOMAIN O /\ stored \subseteq Spans
    BY <1>1, <1>14 DEF LoadedSound
  <2>3. Start' = Start
    BY DEF Start, KeysOf
  <2> QED
    BY <1>4, <1>5, <1>10, <1>11, <1>13, <1>14, <2>1, <2>2, <2>3 DEF LoadedSound
<1>17. TasksSound'
  <2>1. ASSUME NEW t \in rest PROVE IsTask(t) /\ t.key \in known /\ t.key \notin DOMAIN O /\ t.key \notin Start /\ LedTo(P, t.key)
    <3>1. IsTask(t) /\ t.key \in known /\ t.key \notin DOMAIN objects /\ t.key \notin Start /\ LedTo(objects, t.key)
      BY <1>1 DEF TasksSound
    <3>2. PICK j \in DOMAIN objects : \E l \in objects[j].links : l.to = t.key
      BY <3>1 DEF LedTo
    <3>3. PICK l \in O[j].links : l.to = t.key
      BY <3>2
    <3>4. j \in DOMAIN P /\ l \in P[j].links
      BY <1>11, <1>15, <3>1, <3>3
    <3> QED
      BY <3>1, <3>3, <3>4 DEF LedTo
  <2>2. ASSUME NEW t \in new PROVE IsTask(t) /\ t.key \in st.known /\ t.key \notin DOMAIN O /\ t.key \notin Start /\ LedTo(P, t.key)
    <3>1. IsTask(t)
      BY <1>7 DEF IsTask
    <3>2. Start \subseteq known
      BY <1>1 DEF LoadedSound
    <3>3. key \in DOMAIN P
      BY <1>11
    <3> QED
      BY <1>8, <1>12, <1>14, <3>1, <3>2, <3>3 DEF LedTo
  <2>3. \A t, u \in rest \cup new : t.key = u.key => t = u
    <3>1. \A t, u \in rest : t.key = u.key => t = u
      BY <1>1 DEF TasksSound
    <3>2. \A t \in rest : \A u \in new : t.key # u.key
      BY <1>8, <2>1
    <3> QED
      BY <1>9, <3>1, <3>2
  <2>4. Start' = Start
    BY DEF Start, KeysOf
  <2>5. \A t \in rest \cup new : IsTask(t) /\ t.key \in st.known /\ t.key \notin DOMAIN P /\ t.key \notin Start /\ LedTo(P, t.key)
    BY <1>11, <1>14, <2>1, <2>2
  <2>6. tasks' = rest \cup new
    BY <1>4, <1>5
  <2> QED
    BY <1>4, <1>10, <2>3, <2>4, <2>5, <2>6 DEF TasksSound
<1>18. AskedSound'
  <2>1. Start' = Start
    BY DEF Start, KeysOf
  <2>2. \A t \in rest \cup new : t.at = "list" /\ t.key \in Keys => asked[t.key] = 0
    BY <1>1, <1>8 DEF AskedSound
  <2>3. tasks' = rest \cup new /\ known' = st.known
    BY <1>4, <1>5
  <2> QED
    BY <1>1, <1>14, <2>1, <2>2, <2>3 DEF AskedSound
<1>19. LimitsSound'
  <2>1. PICK lim : lim = limits'
    OBVIOUS
  <2>2. /\ lim = [l \in DOMAIN limits |-> IF l = limiter THEN st.left ELSE limits[l]]
        /\ limits = [l \in DOMAIN limits |-> limits[l]] /\ \A l \in DOMAIN limits : limits[l] \in Int
    BY <1>1, <1>4, <2>1 DEF LimitsSound
  <2>3. /\ DOMAIN lim = DOMAIN limits /\ lim = [l \in DOMAIN lim |-> lim[l]] /\ lim[limiter] = st.left
        /\ \A l \in DOMAIN limits : lim[l] \in Int /\ (l # limiter => lim[l] = limits[l])
    BY <1>6, <2>2
  <2>4. \A t \in rest \cup new : t.limiter \in DOMAIN lim
    BY <1>1, <1>7, <2>3 DEF LimitsSound
  <2>5. IsFiniteSet(rest \cup new)
    <3>1. IsFiniteSet(tasks)
      BY <1>1 DEF LimitsSound
    <3> QED
      BY <1>7, <3>1, FS_Subset, FS_Union
  <2>6. ASSUME NEW l \in Keys \cup {Global} PROVE Affordable(spent, rest \cup new, lim, l)
    <3>1. PICK T : T = tasks /\ IsFiniteSet(T) /\ rest \in SUBSET T
      BY <1>1 DEF LimitsSound
    <3>2. PICK a \in Nat : a = Cardinality(Listing(T, l))
      BY <1>7, <3>1, ListingBound
    <3>3. PICK b \in Nat : b = Cardinality(Listing(rest \cup new, l))
      BY <1>7, <3>1, ListingBound
    <3>4. PICK n \in Nat : n = Cardinality(new)
      BY <1>7, FS_CardinalityType
    <3>5. PICK f \in Nat : f = Cardinality(st.found)
      BY <1>6, FS_CardinalityType
    <3>6. b <= a + n /\ ((\A t \in new : t.limiter # l) => b <= a)
      BY <1>7, <3>1, <3>2, <3>3, <3>4, ListingBound
    <3>7. PICK s \in Nat : s = spent[l]
      BY <1>1 DEF LimitsSound
    <3>8. s + a + LeftOf(limits, l) <= FollowLimit
      BY <1>1, <3>1, <3>2, <3>7 DEF LimitsSound, Affordable
    <3>9. CASE l = limiter
      <4>1. LeftOf(limits, l) = Positive(limits[limiter]) /\ LeftOf(lim, l) = Positive(st.left)
        BY <2>3, <3>9 DEF LeftOf
      <4>2. Positive(limits[limiter]) \in Nat /\ Positive(st.left) \in Nat
        BY <1>3, <1>6 DEF Positive
      <4>3. f + Positive(st.left) <= Positive(limits[limiter]) /\ n <= f
        BY <1>6, <1>7, <3>4, <3>5
      <4>4. s + b + LeftOf(lim, l) <= FollowLimit
        BY <3>6, <3>8, <4>1, <4>2, <4>3, LimitAssumption
      <4> QED
        BY <3>3, <3>7, <4>4 DEF Affordable
    <3>10. CASE l # limiter
      <4>1. LeftOf(lim, l) = LeftOf(limits, l) /\ LeftOf(lim, l) \in Nat
        BY <2>2, <2>3, <3>10 DEF LeftOf, Positive
      <4>2. b <= a
        BY <1>7, <3>6, <3>10
      <4>3. s + b + LeftOf(lim, l) <= FollowLimit
        BY <3>8, <4>1, <4>2, LimitAssumption
      <4> QED
        BY <3>3, <3>7, <4>3 DEF Affordable
    <3> QED
      BY <3>9, <3>10
  <2>7. phase = "follow" => waiting' \cup {Global} \subseteq DOMAIN lim
    BY <1>1, <2>3 DEF LimitsSound
  <2>8. tasks' = rest \cup new /\ spent \in [Keys \cup {Global} -> Nat]
    BY <1>1, <1>4, <1>5 DEF LimitsSound
  <2>9. Keys' = Keys
    BY DEF Keys
  <2> QED
    BY <2>1, <2>3, <2>4, <2>5, <2>6, <2>7, <2>8, <2>9 DEF LimitsSound
<1>20. OpenedConnected' /\ TreeSound'
  <2>1. ASSUME NEW S \in SUBSET DOMAIN P, ClosedIn(P, S) PROVE ClosedIn(O, S)
    BY <1>11, <1>14, <1>15, <2>1 DEF ClosedIn
  <2>2. ConnectedIn(O) => ConnectedIn(P)
    BY <1>11, <2>1 DEF ConnectedIn
  <2>3. \A k \in DOMAIN O : P[k].spans = O[k].spans
    BY <1>11, <1>12
  <2>4. Hierarchy(P) => Hierarchy(O)
    BY <1>11, <2>3, SmallerHierarchy
  <2>5. KeptIn(O) => KeptIn(P)
    BY <1>11, <1>14, <1>15, <2>3 DEF KeptIn
  <2>6. Start' = Start
    BY DEF Start, KeysOf
  <2>7. req.kind = "get" => Start \subseteq DOMAIN P /\ ConnectedIn(P) /\ (Hierarchy(P) => KeptIn(P))
    BY <1>11, <2>2, <2>4, <2>5
  <2>8. OpenedConnected'
    BY <1>10, <2>6, <2>7 DEF OpenedConnected
  <2> QED
    BY <2>8 DEF TreeSound
<1>21. GroupsConnected' /\ ReopenIsOneTree'
  BY <1>1 DEF GroupsConnected, ReopenIsOneTree
<1> QED
  BY <1>16, <1>17, <1>18, <1>19, <1>20, <1>21 DEF ReaderInv

-----------------------------------------------------------------------------
(* Listing and loading traces *)

\* What a listing returns are traces of the keys that were asked for.
LEMMA ListAnswers ==
  ASSUME NEW keys, NEW limit, NEW ts, ts \in List(keys, limit), NEW t \in ts
  PROVE  t \in DOMAIN Traces /\ Traces[t].key \in keys
<1>1. \A S, lim, taken : \A p \in Pick(S, lim, taken) : p \subseteq S
  BY DEF Pick
<1>2. PICK a \in Pick(Matching("audit", keys), limit, 0) :
         ts \in {a \cup e : e \in Pick(Matching("event", keys), limit, Cardinality(a))}
  BY DEF List
<1>3. PICK e \in Pick(Matching("event", keys), limit, Cardinality(a)) : ts = a \cup e
  BY <1>2
<1>4. a \subseteq Matching("audit", keys) /\ e \subseteq Matching("event", keys)
  BY <1>1, Zenon
<1> QED
  BY <1>3, <1>4 DEF Matching

\* Thumbnails are sound traces, and clipping one drops no link.
LEMMA ThumbnailSound ==
  ASSUME NEW t \in DOMAIN Traces
  PROVE  /\ SoundTrace(Thumbnail(t), Traces[t].key, stored)
         /\ Thumbnail(t).trace = t /\ LinksIn(Thumbnail(t).spans) = {s \in LinksIn(stored) : s.trace = t}
  BY DEF SoundTrace, Thumbnail, SpansOf, LinksIn

LEMMA ClippedSound ==
  ASSUME NEW t \in DOMAIN Traces
  PROVE  /\ SoundTrace(Clipped(t), Traces[t].key, stored)
         /\ Clipped(t).trace = t /\ LinksIn(Clipped(t).spans) = {s \in LinksIn(stored) : s.trace = t}
<1>1. /\ Clipped(t).key = Traces[t].key /\ Clipped(t).trace = t
      /\ Clipped(t).spans = {s \in SpansOf(t) : filterTimeRange(s)}
  BY DEF Clipped, Thumbnail
<1> QED
  BY <1>1 DEF SoundTrace, SpansOf, LinksIn, filterTimeRange

\* The objects of a batch of sound traces are sound, and hold the links of their traces.
LEMMA MergedSound ==
  ASSUME NEW batch, NEW k, NEW S, batch # {}, \A b \in batch : SoundTrace(b, k, S)
  PROVE  /\ SoundObject(mergeObject(batch), k, S)
         /\ \A b \in batch : LinksIn(b.spans) \subseteq mergeObject(batch).links
         /\ mergeObject(batch).links = LinksIn(mergeObject(batch).spans)
<1>1. PICK x : x = mergeObject(batch)
  OBVIOUS
<1>2. PICK spans : spans = UNION {b.spans : b \in batch}
  OBVIOUS
<1>3. x = [traces |-> {b.trace : b \in batch}, spans |-> spans, links |-> {s \in spans : IsLink(s)},
           start |-> mergeRootInterval(batch).start, end |-> mergeRootInterval(batch).end]
  BY <1>1, <1>2 DEF mergeObject
<1>4. x = [traces |-> x.traces, spans |-> x.spans, links |-> x.links, start |-> x.start, end |-> x.end]
  BY <1>3
<1>5. x.traces = {b.trace : b \in batch} /\ x.spans = spans /\ x.links = LinksIn(spans)
  BY <1>3 DEF LinksIn
<1>6. x.traces # {} /\ \A t \in x.traces : t \in DOMAIN Traces /\ Traces[t].key = k
  BY <1>5 DEF SoundTrace
<1>7. ASSUME NEW s \in x.spans PROVE s \in S /\ s.trace \in x.traces
  <2>1. PICK b \in batch : s \in b.spans
    BY <1>2, <1>5
  <2>2. s \in S /\ s.trace = b.trace
    BY <2>1 DEF SoundTrace
  <2> QED
    BY <1>5, <2>2
<1>8. \A b \in batch : LinksIn(b.spans) \subseteq x.links
  BY <1>2, <1>5 DEF LinksIn
<1>9. x.links = LinksIn(x.spans)
  BY <1>5
<1>10. SoundObject(x, k, S)
  BY <1>4, <1>6, <1>7, <1>9 DEF SoundObject
<1> QED
  BY <1>1, <1>8, <1>9, <1>10

\* O is objs with the objects of the batch.
Added(O, objs, batch, S) ==
    /\ DOMAIN O = DOMAIN objs \cup {b.key : b \in batch}
    /\ \A k \in DOMAIN objs : k \notin {b.key : b \in batch} => O[k] = objs[k]
    /\ \A b \in batch : /\ SoundObject(O[b.key], b.key, S) /\ LinksIn(b.spans) \subseteq O[b.key].links
                         /\ O[b.key].links = LinksIn(O[b.key].spans)

LEMMA AddTracesFacts ==
  ASSUME NEW objs, NEW batch, NEW S, \A b \in batch : SoundTrace(b, b.key, S)
  PROVE  Added(AddTraces(objs, batch), objs, batch, S)
<1> DEFINE New(k) == {b \in batch : b.key = k}
<1>1. PICK O : O = AddTraces(objs, batch)
  OBVIOUS
<1>2. O = [k \in DOMAIN objs \cup {b.key : b \in batch} |-> IF New(k) = {} THEN objs[k] ELSE mergeObject(New(k))]
  BY <1>1 DEF AddTraces
<1>3. ASSUME NEW b \in batch
      PROVE  /\ SoundObject(O[b.key], b.key, S) /\ LinksIn(b.spans) \subseteq O[b.key].links
             /\ O[b.key].links = LinksIn(O[b.key].spans)
  <2>1. New(b.key) # {} /\ b \in New(b.key) /\ \A c \in New(b.key) : SoundTrace(c, b.key, S)
    OBVIOUS
  <2>2. O[b.key] = mergeObject(New(b.key))
    BY <1>2, <2>1
  <2> HIDE DEF New
  <2>3. /\ SoundObject(mergeObject(New(b.key)), b.key, S) /\ LinksIn(b.spans) \subseteq mergeObject(New(b.key)).links
        /\ mergeObject(New(b.key)).links = LinksIn(mergeObject(New(b.key)).spans)
    BY <2>1, MergedSound
  <2> QED
    BY <2>2, <2>3
<1>4. DOMAIN O = DOMAIN objs \cup {b.key : b \in batch}
  BY <1>2
<1>5. ASSUME NEW k \in DOMAIN objs, k \notin {b.key : b \in batch} PROVE O[k] = objs[k]
  <2>1. New(k) = {}
    BY <1>5
  <2> QED
    BY <1>2, <2>1
<1> HIDE DEF New
<1> QED
  BY <1>1, <1>3, <1>4, <1>5 DEF Added

\* A request that starts from the traces ts, read as the batch.
LEMMA Loaded ==
  ASSUME ReaderInv, NEW batch, NEW kind, NEW config, NEW ts \in SUBSET DOMAIN Traces, NEW exts, NEW follow,
         \A b \in batch : SoundTrace(b, b.key, stored),
         {b.trace : b \in batch} = ts,
         \A b \in batch : LinksIn(b.spans) = {s \in LinksIn(stored) : s.trace = b.trace},
         kind = "get" => GroupConnected(ts, stored),
         Load(batch, kind, config, ts, exts, follow),
         stored' = stored, entries' = entries, shown' = shown
  PROVE  ReaderInv'
<1>1. LoadedSound /\ GroupsConnected
  BY DEF ReaderInv
<1>2. PICK O : O = AddTraces(Nothing, batch)
  OBVIOUS
<1>3. /\ objects' = O /\ known' = DOMAIN O /\ limits' = [l \in DOMAIN O \cup {Global} |-> FollowLimit]
      /\ waiting' \subseteq DOMAIN O /\ tasks' = {}
      /\ asked' = [k \in Keys |-> 0] /\ spent' = [l \in Keys \cup {Global} |-> 0]
      /\ req' = [kind |-> kind, config |-> config, traces |-> ts, extensions |-> exts]
      /\ phase' = "follow"
  BY <1>2 DEF Load
<1>4. \A b \in batch : b.trace \in ts /\ Traces[b.trace].key = b.key
  BY DEF SoundTrace
<1>5. \A t \in ts : \E b \in batch : b.trace = t
  OBVIOUS
<1>6. {b.key : b \in batch} = KeysOf(ts)
  BY <1>4, <1>5 DEF KeysOf
<1>7. /\ DOMAIN O = KeysOf(ts) /\ \A k \in DOMAIN O : SoundObject(O[k], k, stored)
      /\ \A b \in batch : LinksIn(b.spans) \subseteq O[b.key].links
      /\ \A k \in DOMAIN O : O[k].links = LinksIn(O[k].spans)
  <2>1. PICK N : N = Nothing /\ DOMAIN N = {}
    BY DEF Nothing
  <2>2. PICK S : S = stored
    OBVIOUS
  <2>3. O = AddTraces(N, batch) /\ \A b \in batch : SoundTrace(b, b.key, S)
    BY <1>2, <2>1, <2>2
  <2>4. Added(AddTraces(N, batch), N, batch, S)
    BY <2>3, AddTracesFacts
  <2>5. Added(O, N, batch, S)
    BY <2>3, <2>4
  <2> QED
    BY <1>6, <2>1, <2>2, <2>5 DEF Added
<1>8. Start' = KeysOf(ts) /\ req'.kind = kind /\ Keys' = Keys
  BY <1>3 DEF Start, KeysOf, Keys
<1>9. LoadedSound'
  BY <1>1, <1>3, <1>7, <1>8 DEF LoadedSound
<1>10. TasksSound' /\ AskedSound'
  BY <1>3, <1>8 DEF TasksSound, AskedSound
<1>11. LimitsSound'
  <2>1. PICK lim : lim = limits'
    OBVIOUS
  <2>2. lim = [l \in DOMAIN lim |-> lim[l]] /\ DOMAIN lim = DOMAIN O \cup {Global} /\ \A l \in DOMAIN lim : lim[l] = FollowLimit
    BY <1>3, <2>1
  <2>3. PICK sp : sp = spent'
    OBVIOUS
  <2>4. sp \in [Keys \cup {Global} -> Nat] /\ \A l \in Keys \cup {Global} : sp[l] = 0
    BY <1>3, <2>3
  <2>5. IsFiniteSet({}) /\ Cardinality({}) = 0
    BY FS_EmptySet
  <2>6. ASSUME NEW l \in Keys \cup {Global} PROVE Affordable(sp, {}, lim, l)
    <3>1. Listing({}, l) = {}
      BY DEF Listing
    <3>2. LeftOf(lim, l) \in Nat /\ LeftOf(lim, l) <= FollowLimit
      BY <2>2, LimitAssumption DEF LeftOf, Positive
    <3> QED
      BY <2>4, <2>5, <3>1, <3>2 DEF Affordable
  <2> QED
    BY <1>3, <1>8, <2>1, <2>2, <2>3, <2>4, <2>5, <2>6, LimitAssumption DEF LimitsSound
<1>12. OpenedConnected' /\ TreeSound'
  <2>1. ASSUME GroupConnected(ts, stored) PROVE ConnectedIn(O)
    <3>1. DOMAIN O # {}
      <4>1. PICK t : t \in ts
        BY <2>1 DEF GroupConnected
      <4>2. Traces[t].key \in KeysOf(ts)
        BY <4>1 DEF KeysOf
      <4> QED
        BY <1>7, <4>2
    <3>2. ASSUME NEW S \in SUBSET DOMAIN O, S # {}, ClosedIn(O, S) PROVE S = DOMAIN O
      <4>1. ASSUME NEW s \in LinksIn(stored), s.trace \in ts, s.to \in KeysOf(ts)
            PROVE  Traces[s.trace].key \in S <=> s.to \in S
        <5>1. PICK b \in batch : b.trace = s.trace
          BY <1>5, <4>1
        <5>2. s \in O[b.key].links
          BY <1>7, <4>1, <5>1
        <5>3. b.key \in DOMAIN O /\ Traces[s.trace].key = b.key
          BY <1>4, <1>6, <1>7, <5>1
        <5> QED
          BY <1>7, <3>2, <4>1, <5>2, <5>3 DEF ClosedIn
      <4>2. Separated(ts, stored, S)
        BY <4>1 DEF Separated
      <4> QED
        BY <1>7, <2>1, <3>2, <4>2 DEF GroupConnected
    <3> QED
      BY <3>1, <3>2 DEF ConnectedIn
  <2>2. KeptIn(O)
    BY <1>7 DEF KeptIn
  <2>3. OpenedConnected'
    BY <1>3, <1>7, <1>8, <2>1, <2>2 DEF OpenedConnected
  <2> QED
    BY <1>3, <2>3 DEF TreeSound
<1>13. GroupsConnected' /\ ReopenIsOneTree'
  BY <1>1, <1>3 DEF GroupsConnected, ReopenIsOneTree
<1> QED
  BY <1>9, <1>10, <1>11, <1>12, <1>13 DEF ReaderInv

-----------------------------------------------------------------------------
(* Merging *)

\* dfsTaint in terms of the links kept: what abLinkMaps leaves out is the reverse of
\* what it has.
MapClosed(m, S) ==
    \A p \in m : (p[1] \in S <=> p[2] \in S) \/ p[1] \notin DOMAIN objects \/ p[2] \notin DOMAIN objects

LEMMA MapsAgree ==
  ASSUME NEW m \in abLinkMaps, NEW S \in SUBSET DOMAIN objects
  PROVE  MapClosed(m, S) <=> ClosedIn(objects, S)
<1> DEFINE Pairs(k) == {abLinkFromTargetLink(k, l) : l \in objects[k].links}
           all == UNION {Pairs(k) : k \in DOMAIN objects}
<1>1. m \subseteq all /\ \A p \in all : p \in m <=> <<p[2], p[1]>> \notin m
  BY DEF abLinkMaps
<1>2. \A p \in all : \E k \in DOMAIN objects : \E l \in objects[k].links : p = <<k, l.to>> \/ p = <<l.to, k>>
  BY DEF abLinkFromTargetLink
<1>3. \A k \in DOMAIN objects : \A l \in objects[k].links : <<k, l.to>> \in all \/ <<l.to, k>> \in all
  <2>1. ASSUME NEW k \in DOMAIN objects, NEW l \in objects[k].links PROVE <<k, l.to>> \in all \/ <<l.to, k>> \in all
    <3>1. PICK p : p = abLinkFromTargetLink(k, l)
      OBVIOUS
    <3>2. p \in all
      BY <3>1
    <3>3. p = <<k, l.to>> \/ p = <<l.to, k>>
      BY <3>1 DEF abLinkFromTargetLink
    <3> HIDE DEF all
    <3> QED
      BY <3>2, <3>3
  <2> HIDE DEF all
  <2> QED
    BY <2>1
<1> HIDE DEF all
<1>4. ASSUME ClosedIn(objects, S), NEW p \in m
      PROVE  (p[1] \in S <=> p[2] \in S) \/ p[1] \notin DOMAIN objects \/ p[2] \notin DOMAIN objects
  <2>1. PICK k \in DOMAIN objects : \E l \in objects[k].links : p = <<k, l.to>> \/ p = <<l.to, k>>
    BY <1>1, <1>2
  <2>2. PICK l \in objects[k].links : p = <<k, l.to>> \/ p = <<l.to, k>>
    BY <2>1
  <2> QED
    BY <1>4, <2>2 DEF ClosedIn
<1>5. ASSUME MapClosed(m, S), NEW k \in DOMAIN objects, NEW l \in objects[k].links, l.to \in DOMAIN objects
      PROVE  k \in S <=> l.to \in S
  <2>1. <<k, l.to>> \in m \/ <<l.to, k>> \in m
    <3>1. CASE <<k, l.to>> \in all
      <4>1. PICK p : p = <<k, l.to>>
        OBVIOUS
      <4>2. p[1] = k /\ p[2] = l.to
        BY <4>1
      <4>3. p \in m <=> <<l.to, k>> \notin m
        BY <1>1, <3>1, <4>1, <4>2
      <4> QED
        BY <4>1, <4>3
    <3>2. CASE <<l.to, k>> \in all
      <4>1. PICK p : p = <<l.to, k>>
        OBVIOUS
      <4>2. p[1] = l.to /\ p[2] = k
        BY <4>1
      <4>3. p \in m <=> <<k, l.to>> \notin m
        BY <1>1, <3>2, <4>1, <4>2
      <4> QED
        BY <4>1, <4>3
    <3> QED
      BY <1>3, <3>1, <3>2
  <2> QED
    BY <1>5, <2>1 DEF MapClosed
<1> QED
  BY <1>4, <1>5 DEF MapClosed, ClosedIn

\* The component of a key is the least closed set that it is in.
LEMMA Component ==
  ASSUME NEW m \in abLinkMaps, NEW key \in DOMAIN objects
  PROVE  /\ dfsTaint(m, key) \in SUBSET DOMAIN objects
         /\ key \in dfsTaint(m, key)
         /\ ClosedIn(objects, dfsTaint(m, key))
         /\ \A S \in SUBSET DOMAIN objects : key \in S /\ ClosedIn(objects, S) => dfsTaint(m, key) \subseteq S
<1>1. PICK C : C = dfsTaint(m, key)
  OBVIOUS
<1>2. C = {k \in DOMAIN objects : \A S \in SUBSET DOMAIN objects : key \in S /\ MapClosed(m, S) => k \in S}
  BY <1>1 DEF dfsTaint, MapClosed
<1>3. C = {k \in DOMAIN objects : \A S \in SUBSET DOMAIN objects : key \in S /\ ClosedIn(objects, S) => k \in S}
  BY <1>2, MapsAgree
<1>4. C \in SUBSET DOMAIN objects /\ key \in C
  BY <1>3
<1>5. \A S \in SUBSET DOMAIN objects : key \in S /\ ClosedIn(objects, S) => C \subseteq S
  BY <1>3
<1>6. ASSUME NEW k \in DOMAIN objects, NEW l \in objects[k].links, l.to \in DOMAIN objects
      PROVE  k \in C <=> l.to \in C
  <2>1. \A S \in SUBSET DOMAIN objects : ClosedIn(objects, S) => (k \in S <=> l.to \in S)
    BY <1>6 DEF ClosedIn
  <2> QED
    BY <1>3, <1>6, <2>1
<1>7. ClosedIn(objects, C)
  BY <1>6 DEF ClosedIn
<1> QED
  BY <1>1, <1>4, <1>5, <1>7

\* The traces of a component hang together by links that the storage has.
TracesOf(C) == UNION {objects[k].traces : k \in C}

LEMMA ComponentConnected ==
  ASSUME LoadedSound, NEW m \in abLinkMaps, NEW key \in DOMAIN objects
  PROVE  GroupConnected(TracesOf(dfsTaint(m, key)), stored)
<1>1. PICK C : C = dfsTaint(m, key)
  OBVIOUS
<1>2. /\ C \in SUBSET DOMAIN objects /\ key \in C /\ ClosedIn(objects, C)
      /\ \A S \in SUBSET DOMAIN objects : key \in S /\ ClosedIn(objects, S) => C \subseteq S
  BY <1>1, Component
<1>3. PICK g : g = TracesOf(C)
  OBVIOUS
<1>4. \A k \in C : /\ objects[k].traces # {} /\ objects[k].traces \subseteq g
                   /\ \A t \in objects[k].traces : t \in DOMAIN Traces /\ Traces[t].key = k
                   /\ objects[k].links \subseteq {s \in LinksIn(stored) : s.trace \in objects[k].traces}
  <2>1. ASSUME NEW k \in C PROVE SoundObject(objects[k], k, stored) /\ objects[k].traces \subseteq g
    BY <1>2, <1>3 DEF LoadedSound, TracesOf
  <2> QED
    BY <2>1 DEF SoundObject, LinksIn
<1>5. \A t \in g : \E k \in C : t \in objects[k].traces
  BY <1>3 DEF TracesOf
<1>6. g # {} /\ g \subseteq DOMAIN Traces
  BY <1>2, <1>4, <1>5
<1>7. KeysOf(g) = C
  <2>1. \A k \in C : \E t \in g : Traces[t].key = k
    BY <1>4
  <2>2. \A t \in g : Traces[t].key \in C
    BY <1>4, <1>5
  <2> QED
    BY <2>1, <2>2 DEF KeysOf
\* A part of the component that no link of the storage leaves is closed.
<1>8. ASSUME NEW S \in SUBSET C,
             \A s \in LinksIn(stored) : s.trace \in g /\ s.to \in C => (Traces[s.trace].key \in S <=> s.to \in S)
      PROVE  ClosedIn(objects, S)
  <2>1. ASSUME NEW k \in DOMAIN objects, NEW l \in objects[k].links, l.to \in DOMAIN objects
        PROVE  k \in S <=> l.to \in S
    <3>1. k \in C <=> l.to \in C
      BY <1>2, <2>1 DEF ClosedIn
    <3>2. CASE k \in C
      <4>1. l \in LinksIn(stored) /\ l.trace \in g /\ Traces[l.trace].key = k
        BY <1>4, <3>2
      <4> QED
        BY <1>8, <3>1, <3>2, <4>1
    <3>3. CASE k \notin C
      BY <3>1, <3>3
    <3> QED
      BY <3>2, <3>3
  <2> QED
    BY <2>1 DEF ClosedIn
<1>9. ASSUME NEW S \in SUBSET C, S # {}, Separated(g, stored, S) PROVE S = C
  <2>1. \A s \in LinksIn(stored) : s.trace \in g /\ s.to \in C => (Traces[s.trace].key \in S <=> s.to \in S)
    BY <1>7, <1>9 DEF Separated
  <2>2. CASE key \in S
    <3>1. ClosedIn(objects, S)
      BY <1>8, <2>1
    <3> QED
      BY <1>2, <2>2, <3>1
  <2>3. CASE key \notin S
    <3>1. PICK R \in SUBSET C : R = C \ S
      OBVIOUS
    <3>2. \A s \in LinksIn(stored) : s.trace \in g /\ s.to \in C => (Traces[s.trace].key \in R <=> s.to \in R)
      <4>1. \A s \in LinksIn(stored) : s.trace \in g => Traces[s.trace].key \in C
        BY <1>7 DEF KeysOf
      <4> QED
        BY <2>1, <3>1, <4>1
    <3>3. ClosedIn(objects, R)
      BY <1>8, <3>2
    <3>4. C \subseteq R
      BY <1>2, <2>3, <3>1, <3>3
    <3> QED
      BY <1>9, <3>1, <3>4
  <2> QED
    BY <2>2, <2>3
<1>10. GroupConnected(g, stored)
  BY <1>6, <1>7, <1>9 DEF GroupConnected
<1> QED
  BY <1>1, <1>3, <1>10

\* Objects that hang together make one group.
LEMMA OneGroup ==
  ASSUME NEW m \in abLinkMaps, ConnectedIn(objects)
  PROVE  findConnectedComponents(m) = {DOMAIN objects} /\ Cardinality(findConnectedComponents(m)) = 1
<1>1. \A k \in DOMAIN objects : dfsTaint(m, k) = DOMAIN objects
  <2>1. ASSUME NEW k \in DOMAIN objects PROVE dfsTaint(m, k) = DOMAIN objects
    <3>1. PICK C : C = dfsTaint(m, k)
      OBVIOUS
    <3>2. C \in SUBSET DOMAIN objects /\ k \in C /\ ClosedIn(objects, C)
      BY <3>1, Component
    <3> QED
      BY <3>1, <3>2 DEF ConnectedIn
  <2> QED
    BY <2>1
<1>2. PICK D : D = DOMAIN objects
  OBVIOUS
<1>3. findConnectedComponents(m) = {D}
  <2>1. DOMAIN objects # {}
    BY DEF ConnectedIn
  <2> QED
    BY <1>1, <1>2, <2>1 DEF findConnectedComponents
<1> QED
  BY <1>2, <1>3, FS_Singleton

\* What is loaded has links with a role, whose kept ones are among them.
LEMMA LoadedWellFormed ==
  ASSUME NEW O, NEW S \in SUBSET Spans, \A k \in DOMAIN O : SoundObject(O[k], k, S)
  PROVE  WellFormed(O)
<1>1. ASSUME NEW k \in DOMAIN O
      PROVE  (\A s \in LinksIn(O[k].spans) : s.role \in {"parent", "child"}) /\ O[k].links \subseteq LinksIn(O[k].spans)
  <2>1. SoundObject(O[k], k, S)
    OBVIOUS
  <2>2. O[k].spans \subseteq Spans /\ O[k].links \subseteq LinksIn(O[k].spans)
    BY <2>1 DEF SoundObject
  <2> QED
    BY <2>2, SpansAssumption DEF LinksIn, IsLink
<1> QED
  BY <1>1 DEF WellFormed

\* In a hierarchy the map of links has the parent of every object.
LEMMA ParentsAgree ==
  ASSUME NEW m \in abLinkMaps, WellFormed(objects), Hierarchy(objects), KeptIn(objects),
         NEW k \in DOMAIN objects, NEW p \in DOMAIN objects
  PROVE  p \in ParentsIn(m, DOMAIN objects, k) <=> HasParent(objects, k, p)
<1> DEFINE Pairs(j) == {abLinkFromTargetLink(j, l) : l \in objects[j].links}
           all == UNION {Pairs(j) : j \in DOMAIN objects}
<1>1. m \subseteq all /\ \A q \in all : q \in m <=> <<q[2], q[1]>> \notin m
  BY DEF abLinkMaps
<1>2. ASSUME NEW a \in DOMAIN objects, NEW b \in DOMAIN objects, <<a, b>> \in all PROVE HasParent(objects, b, a)
  <2>1. PICK j \in DOMAIN objects : \E l \in objects[j].links : <<a, b>> = abLinkFromTargetLink(j, l)
    BY <1>2
  <2>2. PICK l \in objects[j].links : <<a, b>> = abLinkFromTargetLink(j, l)
    BY <2>1
  <2>3. l \in LinksIn(objects[j].spans)
    BY DEF WellFormed
  <2>4. CASE l.role = "child"
    <3>1. a = j /\ b = l.to
      BY <2>2, <2>4 DEF abLinkFromTargetLink
    <3> QED
      BY <2>3, <2>4, <3>1, OtherEnd DEF Hierarchy
  <2>5. CASE l.role # "child"
    <3>1. a = l.to /\ b = j
      BY <2>2, <2>5 DEF abLinkFromTargetLink
    <3> QED
      BY <2>3, <2>5, <3>1, OtherEnd DEF Hierarchy
  <2> QED
    BY <2>4, <2>5
<1>3. ASSUME HasParent(objects, k, p) PROVE <<p, k>> \in all
  <2>1. PICK s \in LinksIn(objects[k].spans) : s.role = "parent" /\ s.to = p
    BY <1>3 DEF HasParent
  <2>2. PICK l \in objects[k].links : l.to = p
    BY <2>1 DEF KeptIn
  <2>3. l \in LinksIn(objects[k].spans)
    BY DEF WellFormed
  <2>4. l.role # "child"
    <3>1. ASSUME l.role = "child" PROVE FALSE
      <4>1. HasParent(objects, p, k)
        BY <2>2, <2>3, <3>1, OtherEnd DEF Hierarchy
      <4> QED
        BY <1>3, <4>1, NoMutual DEF Hierarchy
    <3> QED
      BY <3>1
  <2>5. abLinkFromTargetLink(k, l) = <<p, k>>
    BY <2>2, <2>4 DEF abLinkFromTargetLink
  <2>6. abLinkFromTargetLink(k, l) \in Pairs(k)
    BY <2>2
  <2> QED
    BY <2>5, <2>6
<1> HIDE DEF all
<1>4. ASSUME HasParent(objects, k, p) PROVE <<p, k>> \in m
  <2>1. PICK q : q = <<p, k>>
    OBVIOUS
  <2>2. q[1] = p /\ q[2] = k /\ q \in all
    BY <1>3, <1>4, <2>1
  <2>3. q \in m <=> <<k, p>> \notin m
    BY <1>1, <2>2
  <2>4. <<k, p>> \notin m
    <3>1. ASSUME <<k, p>> \in m PROVE FALSE
      <4>1. HasParent(objects, p, k)
        BY <1>1, <1>2, <3>1
      <4> QED
        BY <1>4, <4>1, NoMutual DEF Hierarchy
    <3> QED
      BY <3>1
  <2> QED
    BY <2>1, <2>3, <2>4
<1>5. p \in ParentsIn(m, DOMAIN objects, k) <=> <<p, k>> \in m
  BY DEF ParentsIn
<1> QED
  BY <1>1, <1>2, <1>4, <1>5

\* In a hierarchy the climb of detectRoot ends at an object without a parent.
LEMMA RootOnTop ==
  ASSUME NEW m \in abLinkMaps, WellFormed(objects), Hierarchy(objects), KeptIn(objects),
         NEW root \in detectRoot(m, DOMAIN objects)
  PROVE  OnTop(objects, root)
<1>1. PICK D : D = DOMAIN objects
  OBVIOUS
<1> DEFINE Par(k) == ParentsIn(m, D, k)
           Anc(k) == Above(m, D, k)
<1>2. \A k, p \in D : p \in Par(k) <=> HasParent(objects, k, p)
  BY <1>1, ParentsAgree
<1>3. \A k \in D : Par(k) \in SUBSET D
  BY DEF ParentsIn
<1>4. \A k \in D : Anc(k) = {p \in D : \A S \in SUBSET D : Par(k) \subseteq S /\ (\A q \in S : Par(q) \subseteq S) => p \in S}
  BY DEF Above
<1>5. root \in D /\ (Par(root) = {} \/ root \in Anc(root))
  BY <1>1 DEF detectRoot
<1> HIDE DEF Par, Anc
<1>6. CASE Par(root) = {}
  BY <1>1, <1>2, <1>5, <1>6 DEF OnTop
<1>7. CASE root \in Anc(root)
  <2>1. PICK S \in SUBSET D : S = {k \in D : root \in Anc(k)}
    OBVIOUS
  <2>2. S # {} /\ root \in S
    BY <1>5, <1>7, <2>1
  <2>3. PICK k \in S : \A p \in S : ~HasParent(objects, k, p)
    BY <1>1, <2>2 DEF Hierarchy, NoLoop
  <2>4. PICK T : T = Par(k) \cup UNION {Anc(p) : p \in Par(k)}
    OBVIOUS
  <2>5. k \in D /\ root \in Anc(k) /\ Par(k) \in SUBSET D /\ \A p \in Par(k) : Anc(p) \in SUBSET D
    BY <1>3, <1>4, <2>1
  <2>6. T \in SUBSET D /\ Par(k) \subseteq T
    BY <2>4, <2>5
  <2>7. \A p \in D : Par(p) \subseteq Anc(p) /\ \A q \in Anc(p) : Par(q) \subseteq Anc(p)
    <3>1. ASSUME NEW p \in D, NEW q \in Par(p) PROVE q \in Anc(p)
      BY <1>3, <1>4, <3>1
    <3>2. ASSUME NEW p \in D, NEW q \in Anc(p), NEW r \in Par(q) PROVE r \in Anc(p)
      <4>1. q \in D /\ r \in D
        BY <1>3, <1>4
      <4>2. ASSUME NEW U \in SUBSET D, Par(p) \subseteq U, \A x \in U : Par(x) \subseteq U PROVE r \in U
        <5>1. q \in U
          BY <1>4, <4>2
        <5> QED
          BY <4>2, <5>1
      <4> QED
        BY <1>4, <4>1, <4>2
    <3> QED
      BY <3>1, <3>2
  <2>8. \A q \in T : Par(q) \subseteq T
    BY <2>4, <2>5, <2>7
  <2>9. root \in T
    BY <1>4, <2>5, <2>6, <2>8
  <2>10. PICK p \in Par(k) : p = root \/ root \in Anc(p)
    BY <2>4, <2>9
  <2>11. p \in S /\ HasParent(objects, k, p)
    BY <1>2, <2>1, <2>2, <2>5, <2>10
  <2> QED
    BY <2>3, <2>11
<1> QED
  BY <1>5, <1>6, <1>7

-----------------------------------------------------------------------------
(* Building the tree *)

LEMMA TakeLast ==
  ASSUME NEW X, NEW s \in Seq(X), s # <<>>
  PROVE  /\ Last(s) \in X /\ Listed(s, Last(s)) /\ Front(s) \in Seq(X)
         /\ \A k : Listed(s, k) => k = Last(s) \/ Listed(Front(s), k)
<1>1. PICK n \in Nat : n = Len(s)
  OBVIOUS
<1>2. n >= 1 /\ n \in 1..n
  BY <1>1
<1>3. Last(s) = s[n]
  BY <1>1 DEF Last
<1>4. Front(s) = SubSeq(s, 1, n - 1)
  BY <1>1 DEF Front
<1>5. PICK f : f = SubSeq(s, 1, n - 1)
  OBVIOUS
<1>6. f \in Seq(X) /\ Len(f) = n - 1 /\ \A i \in 1..(n - 1) : f[i] = s[i]
  BY <1>1, <1>2, <1>5
<1>7. \A k : Listed(s, k) => k = s[n] \/ Listed(f, k)
  <2>1. ASSUME NEW k, NEW i \in 1..n, s[i] = k PROVE k = s[n] \/ Listed(f, k)
    <3>1. CASE i = n
      BY <2>1, <3>1
    <3>2. CASE i # n
      <4>1. i \in 1..(n - 1) /\ f[i] = k
        BY <1>6, <2>1, <3>2
      <4> QED
        BY <1>6, <4>1 DEF Listed
    <3> QED
      BY <3>1, <3>2
  <2> QED
    BY <1>1, <2>1 DEF Listed
<1>8. s[n] \in X /\ Listed(s, s[n])
  BY <1>1, <1>2 DEF Listed
<1> QED
  BY <1>3, <1>4, <1>5, <1>6, <1>7, <1>8

LEMMA PutLast ==
  ASSUME NEW X, NEW s \in Seq(X), NEW Y, X \subseteq Y, NEW x \in Y
  PROVE  /\ Append(s, x) \in Seq(Y) /\ Listed(Append(s, x), x)
         /\ \A k : Listed(s, k) => Listed(Append(s, x), k)
<1>1. PICK n \in Nat : n = Len(s)
  OBVIOUS
<1>2. s \in Seq(Y)
  OBVIOUS
<1>3. PICK a : a = Append(s, x)
  OBVIOUS
<1>4. a \in Seq(Y) /\ Len(a) = n + 1 /\ a[n + 1] = x /\ \A i \in 1..n : a[i] = s[i]
  BY <1>1, <1>2, <1>3
<1>5. n + 1 \in 1..(n + 1) /\ \A i \in 1..n : i \in 1..(n + 1)
  OBVIOUS
<1> QED
  BY <1>1, <1>3, <1>4, <1>5 DEF Listed

\* What the loop has after attaching the links L: the objects they lead to are in the
\* tree if they are among the members M, and those that are new are to do.
Attached(st, L, M, start) ==
    /\ st = [tree |-> st.tree, inTree |-> st.inTree, todo |-> st.todo]
    /\ start.inTree \subseteq st.inTree /\ st.inTree \subseteq start.inTree \cup M
    /\ \A l \in L : l.to \in M => l.to \in st.inTree
    /\ st.todo \in Seq(st.inTree)
    /\ \A k \in st.inTree : k \in start.inTree \/ Listed(st.todo, k)
    /\ \A k : Listed(start.todo, k) => Listed(st.todo, k)

LEMMA AttachOne ==
  ASSUME NEW subj, NEW link, NEW L, NEW M, M = shown.members, NEW start, NEW st, Attached(st, L, M, start)
  PROVE  Attached(attach(subj, link, st), L \cup {link}, M, start)
<1>1. PICK u : u = attach(subj, link, st)
  OBVIOUS
<1>2. /\ st = [tree |-> st.tree, inTree |-> st.inTree, todo |-> st.todo]
      /\ start.inTree \subseteq st.inTree /\ st.inTree \subseteq start.inTree \cup M
      /\ (\A l \in L : l.to \in M => l.to \in st.inTree)
      /\ st.todo \in Seq(st.inTree)
      /\ (\A k \in st.inTree : k \in start.inTree \/ Listed(st.todo, k))
      /\ \A k : Listed(start.todo, k) => Listed(st.todo, k)
  BY DEF Attached
<1>3. CASE link.to \in st.inTree \/ link.to \notin M
  <2>1. \E T : u = [st EXCEPT !.tree = T]
    BY <1>1, <1>3 DEF attach
  <2>2. PICK T : u = [tree |-> T, inTree |-> st.inTree, todo |-> st.todo]
    BY <1>2, <2>1
  <2>3. u.inTree = st.inTree /\ u.todo = st.todo /\ u = [tree |-> u.tree, inTree |-> u.inTree, todo |-> u.todo]
    BY <2>2
  <2> QED
    BY <1>1, <1>2, <1>3, <2>3 DEF Attached
<1>4. CASE ~(link.to \in st.inTree \/ link.to \notin M)
  <2>1. \E T : u = [tree |-> T, inTree |-> st.inTree \cup {link.to}, todo |-> Append(st.todo, link.to)]
    BY <1>1, <1>4 DEF attach
  <2>2. PICK T : u = [tree |-> T, inTree |-> st.inTree \cup {link.to}, todo |-> Append(st.todo, link.to)]
    BY <2>1
  <2>3. /\ u.inTree = st.inTree \cup {link.to} /\ u.todo = Append(st.todo, link.to)
        /\ u = [tree |-> u.tree, inTree |-> u.inTree, todo |-> u.todo]
    BY <2>2
  <2>4. /\ u.todo \in Seq(u.inTree) /\ Listed(u.todo, link.to)
        /\ \A k : Listed(st.todo, k) => Listed(u.todo, k)
    BY <1>2, <2>3, PutLast
  <2> QED
    BY <1>1, <1>2, <1>4, <2>3, <2>4 DEF Attached
<1> QED
  BY <1>3, <1>4

LEMMA AttachAll ==
  ASSUME NEW subj, NEW order, Len(order) \in Nat, NEW M, M = shown.members, NEW start,
         start = [tree |-> start.tree, inTree |-> start.inTree, todo |-> start.todo],
         start.todo \in Seq(start.inTree)
  PROVE  Attached(attachAll(subj, order, start)[Len(order)], {order[i] : i \in 1..Len(order)}, M, start)
<1>1. PICK g : g = attachAll(subj, order, start)
  OBVIOUS
<1>2. g[0] = start /\ \A i \in 1..Len(order) : g[i] = attach(subj, order[i], g[i - 1])
  <2>1. Loop("attach", subj, subj, order, start, Len(order), g)
    BY <1>1, AttachLoop, Zenon
  <2>2. g[0] = start /\ \A i \in 1..Len(order) : g[i] = Step("attach", subj, subj, order[i], g[i - 1])
    BY <2>1 DEF Loop
  <2> QED
    BY <2>2 DEF Step
<1> DEFINE L(n) == {order[i] : i \in 1..n}
           T == {n \in 0..Len(order) : ~Attached(g[n], L(n), M, start)}
<1>3. SUFFICES ASSUME T # {} PROVE FALSE
  <2>1. Len(order) \in 0..Len(order)
    OBVIOUS
  <2> QED
    BY <1>1, <2>1
<1>4. T \in SUBSET Nat
  OBVIOUS
<1>5. PICK n \in T : \A y \in T : n <= y
  <2> HIDE DEF T
  <2> QED
    BY <1>3, <1>4, FirstNumber
<1>6. n \in Nat /\ n <= Len(order) /\ ~Attached(g[n], L(n), M, start)
  OBVIOUS
<1>7. CASE n = 0
  <2>1. L(0) = {}
    OBVIOUS
  <2>2. Attached(start, {}, M, start)
    BY DEF Attached
  <2> HIDE DEF L
  <2> QED
    BY <1>2, <1>6, <1>7, <2>1, <2>2
<1>8. CASE n # 0
  <2>1. n - 1 \in 0..Len(order) /\ ~(n <= n - 1) /\ n \in 1..Len(order)
    BY <1>6, <1>8
  <2>2. Attached(g[n - 1], L(n - 1), M, start)
    <3> HIDE DEF L
    <3> QED
      BY <1>5, <2>1
  <2>3. L(n) = L(n - 1) \cup {order[n]}
    <3>1. \A i \in 1..n : i \in 1..(n - 1) \/ i = n
      BY <1>6
    <3>2. n \in 1..n /\ \A i \in 1..(n - 1) : i \in 1..n
      BY <1>6, <1>8
    <3> QED
      BY <3>1, <3>2
  <2>4. g[n] = attach(subj, order[n], g[n - 1])
    BY <1>2, <2>1
  <2> HIDE DEF L
  <2>5. PICK prev : prev = g[n - 1]
    OBVIOUS
  <2>6. PICK K : K = L(n - 1)
    OBVIOUS
  <2>7. Attached(attach(subj, order[n], prev), K \cup {order[n]}, M, start)
    BY <2>2, <2>5, <2>6, AttachOne
  <2> QED
    BY <1>6, <2>3, <2>4, <2>5, <2>6, <2>7
<1> QED
  BY <1>7, <1>8

LEMMA MergeLinkedFacts ==
  ASSUME ReaderInv, mergeLinkedTraces
  PROVE  TreeSound' /\ \E a, b : shown' = [shown EXCEPT !.inTree = a, !.todo = b]
<1>1. phase = "merge" /\ shown.todo # <<>> /\ req' = req /\ phase' = phase /\ objects' = objects
  BY DEF mergeLinkedTraces, mergeVars
<1>2. PICK sh : sh = shown
  OBVIOUS
<1>3. PICK O : O = objects
  OBVIOUS
<1>4. /\ TreeSoundIn(O, sh)
      /\ req.kind = "get" => /\ sh.members = DOMAIN O
                             /\ Hierarchy(O) => \E root \in sh.inTree : OnTop(O, root)
  BY <1>1, <1>2, <1>3 DEF ReaderInv, TreeSound
<1>5. PICK subj : subj = Last(sh.todo)
  OBVIOUS
<1>6. /\ sh.members \subseteq DOMAIN O /\ sh.inTree \subseteq sh.members /\ sh.todo \in Seq(sh.inTree)
      /\ \A k \in sh.inTree : Listed(sh.todo, k) \/ Done(O, sh, k)
  BY <1>4 DEF TreeSoundIn
<1>7. /\ subj \in sh.inTree /\ Front(sh.todo) \in Seq(sh.inTree)
      /\ \A k : Listed(sh.todo, k) => k = subj \/ Listed(Front(sh.todo), k)
  BY <1>1, <1>2, <1>5, <1>6, TakeLast
<1>8. PICK down : down = {l \in O[subj].links : l.role = "child"}
  OBVIOUS
<1>9. IsFiniteSet(down)
  <2>1. SoundObject(O[subj], subj, stored) /\ stored \subseteq Spans
    BY <1>3, <1>6, <1>7 DEF ReaderInv, LoadedSound
  <2>2. down \in SUBSET Spans
    BY <1>8, <2>1 DEF SoundObject, LinksIn
  <2> QED
    BY <2>2, SpansAssumption, FS_Subset
<1>10. PICK start : start = [tree |-> tree, inTree |-> sh.inTree, todo |-> Front(sh.todo)]
  OBVIOUS
<1>11. PICK order \in Orders(down) :
          LET st == attachAll(subj, order, start)[Len(order)]
          IN  shown' = [shown EXCEPT !.inTree = st.inTree, !.todo = st.todo]
  BY <1>2, <1>3, <1>5, <1>8, <1>10 DEF mergeLinkedTraces
<1>12. PICK st : st = attachAll(subj, order, start)[Len(order)]
  OBVIOUS
<1>13. shown' = [shown EXCEPT !.inTree = st.inTree, !.todo = st.todo]
  BY <1>11, <1>12
<1>14. Len(order) \in Nat /\ {order[i] : i \in 1..Len(order)} = down
  BY <1>9, OrderFacts
<1>15. PICK M : M = sh.members
  OBVIOUS
<1>16. start.inTree = sh.inTree /\ start.todo = Front(sh.todo) /\ start = [tree |-> start.tree, inTree |-> start.inTree, todo |-> start.todo]
  BY <1>10
<1>17. Attached(st, down, M, start)
  BY <1>2, <1>7, <1>12, <1>14, <1>15, <1>16, AttachAll
<1>18. PICK new : new = shown'
  OBVIOUS
<1>19. sh = [members |-> sh.members, inTree |-> sh.inTree, todo |-> sh.todo, extensions |-> sh.extensions, groups |-> sh.groups]
  BY <1>2 DEF ReaderInv, GroupsConnected
<1>20. new.members = M /\ new.inTree = st.inTree /\ new.todo = st.todo
  BY <1>2, <1>13, <1>15, <1>18, <1>19
<1>21. TreeSoundIn(O, new)
  <2>1. new.members \subseteq DOMAIN O /\ new.inTree \subseteq new.members /\ new.todo \in Seq(new.inTree) /\ sh.inTree \subseteq new.inTree
    BY <1>6, <1>15, <1>16, <1>17, <1>20 DEF Attached
  <2>2. Done(O, new, subj)
    BY <1>8, <1>15, <1>17, <1>20 DEF Done, Attached
  <2>3. ASSUME NEW k \in new.inTree PROVE Listed(new.todo, k) \/ Done(O, new, k)
    <3>1. CASE k \notin sh.inTree
      BY <1>16, <1>17, <1>20, <2>3, <3>1 DEF Attached
    <3>2. CASE k \in sh.inTree /\ Done(O, sh, k)
      BY <1>15, <1>20, <2>1, <3>2 DEF Done
    <3>3. CASE k \in sh.inTree /\ Listed(sh.todo, k)
      <4>1. CASE k = subj
        BY <2>2, <4>1
      <4>2. CASE Listed(Front(sh.todo), k)
        BY <1>16, <1>17, <1>20, <4>2 DEF Attached
      <4> QED
        BY <1>7, <3>3, <4>1, <4>2
    <3> QED
      BY <1>6, <3>1, <3>2, <3>3
  <2> QED
    BY <2>1, <2>3 DEF TreeSoundIn
<1>22. req.kind = "get" => /\ new.members = DOMAIN O
                           /\ Hierarchy(O) => \E root \in new.inTree : OnTop(O, root)
  BY <1>4, <1>15, <1>16, <1>17, <1>20 DEF Attached
<1>23. TreeSound'
  BY <1>1, <1>3, <1>18, <1>21, <1>22 DEF TreeSound
<1> QED
  BY <1>13, <1>23

-----------------------------------------------------------------------------
(* The steps of the reader *)

LEMMA ReaderInit == Init => ReaderInv
<1> SUFFICES ASSUME Init PROVE ReaderInv
  OBVIOUS
<1>1. /\ stored = Spans \ Late /\ entries = {} /\ req = Idle /\ phase = "idle"
      /\ objects = Nothing /\ known = {} /\ limits = Nothing /\ waiting = {} /\ tasks = {}
      /\ asked = [k \in Keys |-> 0] /\ spent = [l \in Keys \cup {Global} |-> 0] /\ shown = NothingShown
  BY DEF Init
<1>2. DOMAIN Nothing = {} /\ Nothing = [l \in DOMAIN Nothing |-> Nothing[l]]
  BY DEF Nothing
<1>3. req.kind = "none" /\ req.traces = {} /\ Start = {}
  BY <1>1 DEF Idle, Start, KeysOf
<1>4. LoadedSound /\ TasksSound /\ AskedSound
  BY <1>1, <1>2, <1>3 DEF LoadedSound, TasksSound, AskedSound
<1>5. LimitsSound
  <2>1. IsFiniteSet({}) /\ Cardinality({}) = 0
    BY FS_EmptySet
  <2>2. ASSUME NEW l \in Keys \cup {Global} PROVE Affordable(spent, tasks, limits, l)
    <3>1. Listing(tasks, l) = {} /\ LeftOf(limits, l) = 0 /\ spent[l] = 0
      BY <1>1, <1>2 DEF Listing, LeftOf
    <3> QED
      BY <2>1, <3>1, LimitAssumption DEF Affordable
  <2> QED
    BY <1>1, <1>2, <2>1, <2>2 DEF LimitsSound
<1>6. OpenedConnected /\ TreeSound /\ GroupsConnected /\ ReopenIsOneTree
  BY <1>1, <1>3 DEF OpenedConnected, TreeSound, GroupsConnected, ReopenIsOneTree, NothingShown
<1> QED
  BY <1>4, <1>5, <1>6 DEF ReaderInv

\* A request that has ended leaves the merger empty.
LEMMA Ended ==
  ASSUME ReaderInv, phase' = "idle", req' = Idle, ClearMerger, shown' = NothingShown, stored' = stored,
         \A e \in entries' : GroupConnected(e.traces, stored)
  PROVE  ReaderInv'
<1>1. /\ objects' = Nothing /\ known' = {} /\ limits' = Nothing /\ waiting' = {} /\ tasks' = {}
      /\ asked' = [k \in Keys |-> 0] /\ spent' = [l \in Keys \cup {Global} |-> 0]
  BY DEF ClearMerger
<1>2. DOMAIN Nothing = {} /\ Nothing = [l \in DOMAIN Nothing |-> Nothing[l]]
  BY DEF Nothing
<1>3. req'.kind = "none" /\ req'.traces = {} /\ Start' = {} /\ Keys' = Keys
  BY DEF Idle, Start, KeysOf, Keys
<1>4. stored \subseteq Spans
  BY DEF ReaderInv, LoadedSound
<1>5. LoadedSound' /\ TasksSound' /\ AskedSound'
  BY <1>1, <1>2, <1>3, <1>4 DEF LoadedSound, TasksSound, AskedSound
<1>6. LimitsSound'
  <2>1. IsFiniteSet({}) /\ Cardinality({}) = 0
    BY FS_EmptySet
  <2>2. PICK sp : sp = spent'
    OBVIOUS
  <2>3. sp = [l \in Keys \cup {Global} |-> 0]
    BY <1>1, <2>2
  <2>4. ASSUME NEW l \in Keys \cup {Global} PROVE Affordable(sp, {}, Nothing, l)
    <3>1. Listing({}, l) = {} /\ LeftOf(Nothing, l) = 0 /\ sp[l] = 0
      BY <1>2, <2>3 DEF Listing, LeftOf
    <3> QED
      BY <2>1, <3>1, LimitAssumption DEF Affordable
  <2>5. sp \in [Keys \cup {Global} -> Nat]
    BY <2>3
  <2> QED
    BY <1>1, <1>2, <1>3, <2>1, <2>2, <2>4, <2>5 DEF LimitsSound
<1>7. OpenedConnected' /\ TreeSound' /\ GroupsConnected' /\ ReopenIsOneTree'
  BY <1>1, <1>3 DEF OpenedConnected, TreeSound, GroupsConnected, ReopenIsOneTree, NothingShown
<1> QED
  BY <1>5, <1>6, <1>7 DEF ReaderInv

\* More links in the storage keep what hung together together.
LEMMA MoreLinks ==
  ASSUME NEW X, NEW Y, X \subseteq Y, NEW g, GroupConnected(g, X)
  PROVE  GroupConnected(g, Y)
<1>1. \A S : Separated(g, Y, S) => Separated(g, X, S)
  BY DEF Separated, LinksIn
<1> QED
  BY <1>1 DEF GroupConnected

LEMMA ArriveStep ==
  ASSUME ReaderInv, NEW s \in Late, Arrive(s)
  PROVE  ReaderInv'
<1>1. /\ stored' = stored \cup {s} /\ entries' = entries /\ req' = req /\ phase' = phase /\ shown' = shown
      /\ objects' = objects /\ known' = known /\ limits' = limits /\ waiting' = waiting
      /\ tasks' = tasks /\ asked' = asked /\ spent' = spent
  BY DEF Arrive, mergeVars
<1>2. LoadedSound /\ TasksSound /\ AskedSound /\ LimitsSound /\ OpenedConnected /\ TreeSound /\ GroupsConnected /\ ReopenIsOneTree
  BY DEF ReaderInv
<1>3. Start' = Start /\ Keys' = Keys
  BY <1>1 DEF Start, KeysOf, Keys
<1>4. PICK X : X = stored
  OBVIOUS
<1>5. PICK Y : Y = stored'
  OBVIOUS
<1>6. X \subseteq Y /\ Y \subseteq Spans
  BY <1>1, <1>2, <1>4, <1>5, SpansAssumption DEF LoadedSound
<1>7. LoadedSound'
  <2>1. \A k \in DOMAIN objects : SoundObject(objects[k], k, Y)
    BY <1>2, <1>4, <1>6 DEF LoadedSound, SoundObject
  <2>2. \A task \in tasks : \A b \in task.got : SoundTrace(b, task.key, Y)
    BY <1>2, <1>4, <1>6 DEF LoadedSound, SoundTrace
  <2> QED
    BY <1>1, <1>2, <1>3, <1>5, <1>6, <2>1, <2>2 DEF LoadedSound
<1>8. TasksSound' /\ AskedSound' /\ LimitsSound'
  BY <1>1, <1>2, <1>3 DEF TasksSound, AskedSound, LimitsSound
<1>9. OpenedConnected' /\ TreeSound' /\ ReopenIsOneTree'
  BY <1>1, <1>2, <1>3 DEF OpenedConnected, TreeSound, ReopenIsOneTree
<1>10. GroupsConnected'
  <2>1. \A g : GroupConnected(g, X) => GroupConnected(g, Y)
    BY <1>6, MoreLinks
  <2> QED
    BY <1>1, <1>2, <1>4, <1>5, <2>1 DEF GroupsConnected
<1> QED
  BY <1>7, <1>8, <1>9, <1>10 DEF ReaderInv

LEMMA FindTracesStep ==
  ASSUME ReaderInv, FindTraces
  PROVE  ReaderInv'
<1>1. PICK search \in Searches, follow \in FollowLinksInList :
         \E hits \in (SUBSET UNION List(search.keys, 0)) \ {{}} :
           Load({Thumbnail(t) : t \in hits}, "find", search.config, hits, {}, follow)
  BY DEF FindTraces
<1>2. PICK hits \in (SUBSET UNION List(search.keys, 0)) \ {{}} :
         Load({Thumbnail(t) : t \in hits}, "find", search.config, hits, {}, follow)
  BY <1>1
<1>3. hits \in SUBSET DOMAIN Traces
  BY ListAnswers
<1>4. PICK batch : batch = {Thumbnail(t) : t \in hits}
  OBVIOUS
<1>5. \A t \in hits : /\ SoundTrace(Thumbnail(t), Thumbnail(t).key, stored) /\ Thumbnail(t).trace = t
                      /\ LinksIn(Thumbnail(t).spans) = {s \in LinksIn(stored) : s.trace = t}
  BY <1>3, ThumbnailSound DEF SoundTrace
<1>6. /\ \A b \in batch : SoundTrace(b, b.key, stored)
      /\ \A b \in batch : LinksIn(b.spans) = {s \in LinksIn(stored) : s.trace = b.trace}
  BY <1>4, <1>5
<1>7. {b.trace : b \in batch} = hits
  BY <1>4, <1>5
<1>8. Load(batch, "find", search.config, hits, {}, follow)
  BY <1>2, <1>4
<1>9. stored' = stored /\ entries' = entries /\ shown' = shown
  BY DEF FindTraces
<1> QED
  BY <1>3, <1>6, <1>7, <1>8, <1>9, Loaded

LEMMA GetTraceStep ==
  ASSUME ReaderInv, GetTrace
  PROVE  ReaderInv'
<1>1. PICK entry \in entries :
         Load({Clipped(t) : t \in entry.traces}, "get", entry.config, entry.traces, entry.extensions, TRUE)
  BY DEF GetTrace
<1>2. GroupConnected(entry.traces, stored)
  BY DEF ReaderInv, GroupsConnected
<1>3. PICK ts \in SUBSET DOMAIN Traces : ts = entry.traces
  BY <1>2 DEF GroupConnected
<1>4. PICK batch : batch = {Clipped(t) : t \in ts}
  OBVIOUS
<1>5. \A t \in ts : /\ SoundTrace(Clipped(t), Clipped(t).key, stored) /\ Clipped(t).trace = t
                    /\ LinksIn(Clipped(t).spans) = {s \in LinksIn(stored) : s.trace = t}
  BY ClippedSound DEF SoundTrace
<1>6. /\ \A b \in batch : SoundTrace(b, b.key, stored)
      /\ \A b \in batch : LinksIn(b.spans) = {s \in LinksIn(stored) : s.trace = b.trace}
  BY <1>4, <1>5
<1>7. {b.trace : b \in batch} = ts
  BY <1>4, <1>5
<1>8. Load(batch, "get", entry.config, ts, entry.extensions, TRUE)
  BY <1>1, <1>3, <1>4
<1>9. stored' = stored /\ entries' = entries /\ shown' = shown
  BY DEF GetTrace
<1>10. GroupConnected(ts, stored)
  BY <1>2, <1>3
<1> QED
  BY <1>6, <1>7, <1>8, <1>9, <1>10, Loaded

LEMMA followFromStep ==
  ASSUME ReaderInv, NEW key \in Keys, followFrom(key)
  PROVE  ReaderInv'
<1>1. LoadedSound /\ TasksSound /\ LimitsSound /\ OpenedConnected
  BY DEF ReaderInv
<1>2. PICK O : O = objects
  OBVIOUS
<1>3. PICK limiter : limiter = IF req.kind = "get" THEN Global ELSE key
  OBVIOUS
<1>4. PICK sel : sel = Configs[req.config].selector
  OBVIOUS
<1>5. PICK rest : rest = tasks
  OBVIOUS
<1>6. scheduleFrom(O, key, limiter, sel, rest)
  BY <1>2, <1>3, <1>4, <1>5 DEF followFrom
<1>7. /\ phase = "follow" /\ key \in waiting /\ waiting' \subseteq waiting
      /\ stored' = stored /\ entries' = entries /\ req' = req /\ phase' = phase /\ asked' = asked /\ spent' = spent /\ shown' = shown
  BY DEF followFrom
<1>8. key \in DOMAIN objects /\ key \in known /\ DOMAIN O = DOMAIN objects \cup {key}
  BY <1>1, <1>2, <1>7 DEF LoadedSound
<1>9. limiter \in DOMAIN limits
  BY <1>1, <1>3, <1>7 DEF LimitsSound
<1>10. \A t \in rest : t.key # key
  BY <1>1, <1>5, <1>8 DEF TasksSound
<1>11. \A k \in DOMAIN O : SoundObject(O[k], k, stored)
  BY <1>1, <1>2 DEF LoadedSound
<1>12. req.kind = "get" => Start \subseteq DOMAIN O /\ ConnectedIn(O) /\ (Hierarchy(O) => KeptIn(O))
  BY <1>1, <1>2 DEF OpenedConnected
<1>13. rest \subseteq tasks /\ \A k \in DOMAIN objects : O[k] = objects[k]
  BY <1>2, <1>5
<1> QED
  BY <1>6, <1>7, <1>8, <1>9, <1>10, <1>11, <1>12, <1>13, Schedule

LEMMA listTaskStep ==
  ASSUME ReaderInv, NEW task \in tasks, listTask(task)
  PROVE  ReaderInv'
<1>1. LoadedSound /\ TasksSound /\ AskedSound /\ LimitsSound /\ OpenedConnected /\ TreeSound /\ GroupsConnected /\ ReopenIsOneTree
  BY DEF ReaderInv
<1>2. /\ phase = "follow" /\ task.at = "list" /\ stored' = stored /\ entries' = entries /\ req' = req /\ phase' = phase
      /\ objects' = objects /\ known' = known /\ limits' = limits /\ waiting' = waiting /\ shown' = shown
      /\ asked' = [asked EXCEPT ![task.key] = @ + 1]
      /\ spent' = [spent EXCEPT ![task.limiter] = @ + 1]
  BY DEF listTask
<1>3. PICK listed \in List({task.key}, TraceLimit) :
         tasks' = (tasks \ {task}) \cup {[task EXCEPT !.at = "publish", !.got = {Thumbnail(t) : t \in listed}]}
  BY DEF listTask
<1>4. PICK got : got = {Thumbnail(t) : t \in listed}
  OBVIOUS
<1>5. PICK new : new = [task EXCEPT !.at = "publish", !.got = got]
  OBVIOUS
<1>6. new = [key |-> task.key, selector |-> task.selector, limiter |-> task.limiter, at |-> "publish", got |-> got]
  <2>1. PICK t : t = task
    OBVIOUS
  <2>2. t = [key |-> t.key, selector |-> t.selector, limiter |-> t.limiter, at |-> t.at, got |-> t.got]
    BY <1>1, <2>1 DEF TasksSound, IsTask
  <2> QED
    BY <1>5, <2>1, <2>2
<1>7. new.key = task.key /\ new.limiter = task.limiter /\ new.at = "publish" /\ new.got = got /\ IsTask(new)
  BY <1>6 DEF IsTask
<1>8. PICK rest : rest = tasks \ {task}
  OBVIOUS
<1>9. tasks' = rest \cup {new}
  BY <1>3, <1>4, <1>5, <1>8
<1>10. Start' = Start /\ Keys' = Keys
  BY <1>2 DEF Start, KeysOf, Keys
<1>11. \A t \in rest : t.key # task.key
  BY <1>1, <1>8 DEF TasksSound
<1>12. LoadedSound'
  <2>1. \A b \in got : SoundTrace(b, task.key, stored)
    <3>1. \A t \in listed : t \in DOMAIN Traces /\ Traces[t].key = task.key
      BY ListAnswers
    <3> QED
      BY <1>4, <3>1, ThumbnailSound
  <2>2. \A t \in rest \cup {new} : \A b \in t.got : SoundTrace(b, t.key, stored)
    BY <1>1, <1>7, <1>8, <2>1 DEF LoadedSound
  <2> QED
    BY <1>1, <1>2, <1>9, <1>10, <2>2 DEF LoadedSound
<1>13. TasksSound'
  <2>1. \A t \in rest \cup {new} : /\ IsTask(t) /\ t.key \in known /\ t.key \notin DOMAIN objects /\ t.key \notin Start
                                   /\ LedTo(objects, t.key)
    BY <1>1, <1>7, <1>8 DEF TasksSound
  <2>2. \A t, u \in rest \cup {new} : t.key = u.key => t = u
    BY <1>1, <1>7, <1>8, <1>11 DEF TasksSound
  <2> QED
    BY <1>2, <1>9, <1>10, <2>1, <2>2 DEF TasksSound
<1>14. AskedSound'
  <2>1. PICK as : as = asked'
    OBVIOUS
  <2>2. asked \in [Keys -> Nat]
    BY <1>1 DEF AskedSound
  <2>3. as \in [Keys -> Nat] /\ \A k \in Keys : as[k] = IF k = task.key THEN asked[k] + 1 ELSE asked[k]
    <3>1. as = [k \in Keys |-> IF k = task.key THEN asked[k] + 1 ELSE asked[k]]
      BY <1>2, <2>1, <2>2
    <3>2. \A k \in Keys : asked[k] \in Nat /\ asked[k] + 1 \in Nat
      BY <2>2
    <3> QED
      BY <3>1, <3>2
  <2>4. task.key \in Keys => asked[task.key] = 0
    BY <1>1, <1>2 DEF AskedSound
  <2>5. task.key \in known /\ task.key \notin Start
    BY <1>1 DEF TasksSound
  <2>6. ASSUME NEW k \in Keys PROVE as[k] <= 1 /\ (k \notin known \/ k \in Start => as[k] = 0)
    <3>1. asked[k] <= 1 /\ (k \notin known \/ k \in Start => asked[k] = 0)
      BY <1>1 DEF AskedSound
    <3>2. CASE k = task.key
      <4>1. as[k] = asked[k] + 1 /\ asked[k] = 0
        BY <2>3, <2>4, <3>2
      <4> QED
        BY <2>5, <3>2, <4>1
    <3>3. CASE k # task.key
      BY <2>3, <3>1, <3>3
    <3> QED
      BY <3>2, <3>3
  <2>7. \A t \in rest \cup {new} : t.at = "list" /\ t.key \in Keys => as[t.key] = 0
    BY <1>1, <1>7, <1>8, <1>11, <2>3 DEF AskedSound
  <2> QED
    BY <1>2, <1>9, <1>10, <2>1, <2>3, <2>6, <2>7 DEF AskedSound
<1>15. LimitsSound'
  <2>1. PICK sp : sp = spent'
    OBVIOUS
  <2>2. spent \in [Keys \cup {Global} -> Nat] /\ IsFiniteSet(tasks)
    BY <1>1 DEF LimitsSound
  <2>3. /\ sp \in [Keys \cup {Global} -> Nat]
        /\ \A l \in Keys \cup {Global} : sp[l] = IF l = task.limiter THEN spent[l] + 1 ELSE spent[l]
    <3>1. sp = [l \in Keys \cup {Global} |-> IF l = task.limiter THEN spent[l] + 1 ELSE spent[l]]
      BY <1>2, <2>1, <2>2
    <3>2. \A l \in Keys \cup {Global} : spent[l] \in Nat /\ spent[l] + 1 \in Nat
      BY <2>2
    <3> QED
      BY <3>1, <3>2
  <2>4. IsFiniteSet(rest \cup {new})
    <3>1. rest \in SUBSET tasks
      BY <1>8
    <3>2. IsFiniteSet(rest)
      BY <2>2, <3>1, FS_Subset
    <3> QED
      BY <3>2, FS_AddElement
  <2>5. ASSUME NEW l \in Keys \cup {Global} PROVE Affordable(sp, rest \cup {new}, limits, l)
    <3>1. PICK A : A = Listing(tasks, l)
      OBVIOUS
    <3>2. IsFiniteSet(A)
      <4>1. A \in SUBSET tasks
        BY <3>1 DEF Listing
      <4> QED
        BY <2>2, <4>1, FS_Subset
    <3>3. PICK a \in Nat : a = Cardinality(A)
      BY <3>2, FS_CardinalityType
    <3>4. PICK s \in Nat : s = spent[l]
      BY <2>2
    <3>5. PICK left : left = LeftOf(limits, l)
      OBVIOUS
    <3>6. s + a + left <= FollowLimit
      BY <1>1, <3>1, <3>3, <3>4, <3>5 DEF LimitsSound, Affordable
    <3>7. Listing(rest \cup {new}, l) = A \ {task}
      BY <1>7, <1>8, <3>1 DEF Listing
    <3>8. task \in A <=> l = task.limiter
      BY <1>2, <3>1 DEF Listing
    <3>9. left \in Int
      BY <1>1, <3>5 DEF LimitsSound, LeftOf, Positive
    <3>10. CASE l = task.limiter
      <4>1. Cardinality(A \ {task}) = a - 1 /\ sp[l] = s + 1
        BY <2>3, <3>2, <3>3, <3>4, <3>8, <3>10, FS_RemoveElement
      <4>2. (s + 1) + (a - 1) + left <= FollowLimit
        BY <3>6, <3>9, LimitAssumption
      <4> QED
        BY <3>5, <3>7, <4>1, <4>2 DEF Affordable
    <3>11. CASE l # task.limiter
      <4>1. A \ {task} = A /\ sp[l] = s
        BY <2>3, <3>4, <3>8, <3>11
      <4> QED
        BY <3>3, <3>5, <3>6, <3>7, <4>1 DEF Affordable
    <3> QED
      BY <3>10, <3>11
  <2>6. \A t \in rest \cup {new} : t.limiter \in DOMAIN limits
    BY <1>1, <1>7, <1>8 DEF LimitsSound
  <2> QED
    BY <1>1, <1>2, <1>9, <1>10, <2>1, <2>3, <2>4, <2>5, <2>6 DEF LimitsSound
<1>16. OpenedConnected' /\ TreeSound' /\ GroupsConnected' /\ ReopenIsOneTree'
  BY <1>1, <1>2, <1>10 DEF OpenedConnected, TreeSound, GroupsConnected, ReopenIsOneTree
<1> QED
  BY <1>12, <1>13, <1>14, <1>15, <1>16 DEF ReaderInv

\* An object that a kept link leads to hangs together with what is loaded.
LEMMA OneMore ==
  ASSUME NEW Q, NEW O, NEW key, DOMAIN O = DOMAIN Q \cup {key}, key \notin DOMAIN Q,
         \A k \in DOMAIN Q : O[k] = Q[k], LedTo(Q, key), ConnectedIn(Q)
  PROVE  ConnectedIn(O)
<1>1. PICK j \in DOMAIN Q : \E l \in Q[j].links : l.to = key
  BY DEF LedTo
<1>2. DOMAIN O # {}
  BY <1>1
<1>3. ASSUME NEW S \in SUBSET DOMAIN O, S # {}, ClosedIn(O, S) PROVE S = DOMAIN O
  <2>1. PICK R \in SUBSET DOMAIN Q : R = S \cap DOMAIN Q
    OBVIOUS
  <2>2. ClosedIn(Q, R)
    BY <1>3, <2>1 DEF ClosedIn
  <2>3. j \in S <=> key \in S
    BY <1>1, <1>3 DEF ClosedIn
  <2>4. R # {}
    BY <1>1, <1>3, <2>1, <2>3
  <2>5. R = DOMAIN Q
    BY <2>2, <2>4 DEF ConnectedIn
  <2> QED
    BY <1>3, <2>1, <2>3, <2>5
<1> QED
  BY <1>2, <1>3 DEF ConnectedIn

LEMMA publishTaskStep ==
  ASSUME ReaderInv, NEW task \in tasks, publishTask(task)
  PROVE  ReaderInv'
<1>1. LoadedSound /\ TasksSound /\ AskedSound /\ LimitsSound /\ OpenedConnected /\ TreeSound /\ GroupsConnected /\ ReopenIsOneTree
  BY DEF ReaderInv
<1>2. /\ phase = "follow" /\ task.at = "publish" /\ stored' = stored /\ entries' = entries /\ req' = req /\ phase' = phase
      /\ waiting' = waiting /\ asked' = asked /\ spent' = spent /\ shown' = shown
  BY DEF publishTask
<1>3. PICK rest : rest = tasks \ {task}
  OBVIOUS
<1>4. rest \subseteq tasks /\ \A t \in rest : t.key # task.key
  BY <1>1, <1>3 DEF TasksSound
<1>5. CASE task.got = {}
  <2>1. tasks' = rest /\ objects' = objects /\ known' = known /\ limits' = limits
    BY <1>3, <1>5 DEF publishTask
  <2>2. Start' = Start /\ Keys' = Keys
    BY <1>2 DEF Start, KeysOf, Keys
  <2>3. LoadedSound' /\ TasksSound' /\ AskedSound'
    BY <1>1, <1>2, <1>4, <2>1, <2>2 DEF LoadedSound, TasksSound, AskedSound
  <2>4. LimitsSound'
    <3>1. \A l : Listing(rest, l) = Listing(tasks, l)
      BY <1>2, <1>3 DEF Listing
    <3>2. \A l \in Keys \cup {Global} : Affordable(spent, rest, limits, l)
      BY <1>1, <3>1 DEF LimitsSound, Affordable
    <3>3. IsFiniteSet(rest)
      BY <1>1, <1>4, FS_Subset DEF LimitsSound
    <3> QED
      BY <1>1, <1>2, <1>4, <2>1, <2>2, <3>2, <3>3 DEF LimitsSound
  <2>5. OpenedConnected' /\ TreeSound' /\ GroupsConnected' /\ ReopenIsOneTree'
    BY <1>1, <1>2, <2>1, <2>2 DEF OpenedConnected, TreeSound, GroupsConnected, ReopenIsOneTree
  <2> QED
    BY <2>3, <2>4, <2>5 DEF ReaderInv
<1>6. CASE task.got # {}
  <2>1. PICK Q : Q = objects
    OBVIOUS
  <2>2. PICK X : X = stored
    OBVIOUS
  <2>3. PICK O : O = AddTraces(Q, task.got)
    OBVIOUS
  <2>4. scheduleFrom(O, task.key, task.limiter, task.selector, rest)
    BY <1>3, <1>6, <2>1, <2>3 DEF publishTask
  <2>5. /\ task.key \in known /\ task.key \notin DOMAIN Q /\ LedTo(Q, task.key)
        /\ task.limiter \in DOMAIN limits
    BY <1>1, <2>1 DEF TasksSound, LimitsSound
  <2>6. \A b \in task.got : SoundTrace(b, b.key, X) /\ b.key = task.key
    BY <1>1, <2>2 DEF LoadedSound, SoundTrace
  <2>7. {b.key : b \in task.got} = {task.key}
    BY <1>6, <2>6
  <2>8. /\ DOMAIN O = DOMAIN Q \cup {task.key}
        /\ \A k \in DOMAIN Q : k # task.key => O[k] = Q[k]
        /\ SoundObject(O[task.key], task.key, X)
        /\ O[task.key].links = LinksIn(O[task.key].spans)
    <3>1. PICK got : got = task.got
      OBVIOUS
    <3>2. Added(AddTraces(Q, got), Q, got, X)
      BY <2>6, <3>1, AddTracesFacts
    <3>3. Added(O, Q, got, X)
      BY <2>3, <3>1, <3>2
    <3>4. PICK b \in got : b.key = task.key
      BY <1>6, <2>6, <3>1
    <3> QED
      BY <2>7, <3>1, <3>3, <3>4 DEF Added
  <2>9. \A k \in DOMAIN Q : O[k] = Q[k] /\ SoundObject(O[k], k, X)
    BY <1>1, <2>1, <2>2, <2>5, <2>8 DEF LoadedSound
  <2>10. req.kind = "get" => Start \subseteq DOMAIN O /\ ConnectedIn(O) /\ (Hierarchy(O) => KeptIn(O))
    <3>1. ASSUME ConnectedIn(Q) PROVE ConnectedIn(O)
      BY <2>5, <2>8, <2>9, <3>1, OneMore
    <3>2. WellFormed(O)
      <4>1. X \in SUBSET Spans /\ \A k \in DOMAIN O : SoundObject(O[k], k, X)
        BY <1>1, <2>2, <2>8, <2>9 DEF LoadedSound
      <4> QED
        BY <4>1, LoadedWellFormed
    <3>3. ASSUME ConnectedIn(Q), Hierarchy(Q) => KeptIn(Q), Hierarchy(O) PROVE KeptIn(O)
      BY <2>5, <2>8, <2>9, <3>2, <3>3, KeptGrows
    <3> QED
      BY <1>1, <2>1, <2>8, <3>1, <3>3 DEF OpenedConnected
  <2>11. /\ DOMAIN O = DOMAIN objects \cup {task.key} /\ (\A k \in DOMAIN O : SoundObject(O[k], k, stored))
         /\ \A k \in DOMAIN objects : O[k] = objects[k]
    BY <2>1, <2>2, <2>8, <2>9
  <2> QED
    BY <1>2, <1>4, <2>4, <2>5, <2>10, <2>11, Schedule
<1> QED
  BY <1>5, <1>6

LEMMA MergeTracesStep ==
  ASSUME ReaderInv, MergeTraces
  PROVE  ReaderInv'
<1>1. LoadedSound /\ TasksSound /\ AskedSound /\ LimitsSound /\ OpenedConnected /\ TreeSound /\ GroupsConnected /\ ReopenIsOneTree
  BY DEF ReaderInv
<1>2. /\ phase = "follow" /\ stored' = stored /\ entries' = entries /\ req' = req
      /\ objects' = objects /\ known' = known /\ limits' = limits /\ waiting' = waiting
      /\ tasks' = tasks /\ asked' = asked /\ spent' = spent
  BY DEF MergeTraces, mergeVars
<1>3. PICK m \in abLinkMaps :
        \/ req.kind = "get" /\ Cardinality(findConnectedComponents(m)) # 1
        \/ \E members \in findConnectedComponents(m) : \E root \in detectRoot(m, members) :
             /\ phase' = "merge"
             /\ shown' = [members |-> members, inTree |-> {root}, todo |-> <<root>>, extensions |-> {},
                          groups |-> {UNION {objects[k].traces : k \in g} : g \in findConnectedComponents(m)}]
  BY DEF MergeTraces
<1>4. ~(req.kind = "get" /\ Cardinality(findConnectedComponents(m)) # 1)
  BY <1>1, OneGroup DEF OpenedConnected
<1>5. PICK members \in findConnectedComponents(m) : \E root \in detectRoot(m, members) :
         /\ phase' = "merge"
         /\ shown' = [members |-> members, inTree |-> {root}, todo |-> <<root>>, extensions |-> {},
                      groups |-> {UNION {objects[k].traces : k \in g} : g \in findConnectedComponents(m)}]
  BY <1>3, <1>4, Zenon
<1>6. PICK root \in detectRoot(m, members) :
         /\ phase' = "merge"
         /\ shown' = [members |-> members, inTree |-> {root}, todo |-> <<root>>, extensions |-> {},
                      groups |-> {UNION {objects[k].traces : k \in g} : g \in findConnectedComponents(m)}]
  BY <1>5, Zenon
<1>7. Start' = Start /\ Keys' = Keys
  BY <1>2 DEF Start, KeysOf, Keys
<1>8. LoadedSound' /\ TasksSound' /\ AskedSound' /\ OpenedConnected'
  BY <1>1, <1>2, <1>7 DEF LoadedSound, TasksSound, AskedSound, OpenedConnected
<1>9. LimitsSound'
  BY <1>1, <1>2, <1>7 DEF LimitsSound
<1>10. GroupsConnected'
  <2>1. PICK sh : sh = shown'
    OBVIOUS
  <2>2. PICK groups : groups = {UNION {objects[k].traces : k \in g} : g \in findConnectedComponents(m)}
    OBVIOUS
  <2>3. sh = [members |-> members, inTree |-> {root}, todo |-> <<root>>, extensions |-> {}, groups |-> groups]
    BY <1>6, <2>1, <2>2
  <2>4. ASSUME NEW g \in groups PROVE GroupConnected(g, stored)
    <3>1. PICK key \in DOMAIN objects : g = TracesOf(dfsTaint(m, key))
      BY <2>2 DEF findConnectedComponents, TracesOf
    <3> QED
      BY <1>1, <3>1, ComponentConnected
  <2>5. sh.groups = groups /\ sh = [members |-> sh.members, inTree |-> sh.inTree, todo |-> sh.todo,
                                    extensions |-> sh.extensions, groups |-> sh.groups]
    BY <2>3
  <2> QED
    BY <1>1, <1>2, <2>1, <2>4, <2>5 DEF GroupsConnected
<1>11. TreeSound'
  <2>1. PICK O : O = objects
    OBVIOUS
  <2>2. PICK sh : sh = shown'
    OBVIOUS
  <2>3. sh.members = members /\ sh.inTree = {root} /\ sh.todo = <<root>>
    BY <1>6, <2>2
  <2>4. root \in members /\ members \subseteq DOMAIN O
    <3>1. PICK key \in DOMAIN objects : members = dfsTaint(m, key)
      BY DEF findConnectedComponents
    <3>2. members \subseteq DOMAIN objects
      BY <3>1, Component
    <3> QED
      BY <2>1, <3>2 DEF detectRoot
  <2>5. TreeSoundIn(O, sh)
    <3>1. <<root>> \in Seq({root}) /\ Listed(<<root>>, root)
      <4>1. Len(<<root>>) = 1 /\ <<root>>[1] = root /\ 1 \in 1..1
        OBVIOUS
      <4> QED
        BY <4>1 DEF Listed
    <3> QED
      BY <2>3, <2>4, <3>1 DEF TreeSoundIn
  <2>6. ASSUME req.kind = "get" PROVE members = DOMAIN O /\ (Hierarchy(O) => OnTop(O, root))
    <3>1. ConnectedIn(objects) /\ (Hierarchy(objects) => KeptIn(objects))
      BY <1>1, <2>6 DEF OpenedConnected
    <3>2. members = DOMAIN objects
      BY <3>1, OneGroup
    <3>3. WellFormed(objects)
      <4>1. stored \in SUBSET Spans /\ \A k \in DOMAIN O : SoundObject(O[k], k, stored)
        BY <1>1, <2>1 DEF LoadedSound
      <4>2. WellFormed(O)
        BY <4>1, LoadedWellFormed
      <4> QED
        BY <2>1, <4>2
    <3>4. ASSUME Hierarchy(objects) PROVE OnTop(objects, root)
      BY <3>1, <3>2, <3>3, <3>4, RootOnTop
    <3> QED
      BY <2>1, <3>2, <3>4
  <2> QED
    BY <1>2, <1>6, <2>1, <2>2, <2>3, <2>5, <2>6 DEF TreeSound
<1>12. ReopenIsOneTree'
  BY <1>6 DEF ReopenIsOneTree
<1> QED
  BY <1>8, <1>9, <1>10, <1>11, <1>12 DEF ReaderInv

\* Building and transforming the tree touch neither what is loaded nor the groups.
LEMMA TreeStep ==
  ASSUME ReaderInv, stored' = stored, entries' = entries, req' = req, UNCHANGED mergeVars,
         phase' = phase \/ phase' = "transform", TreeSound',
         shown' = shown \/ \E a, b : shown' = [shown EXCEPT !.inTree = a, !.todo = b]
                        \/ shown' = [shown EXCEPT !.extensions = a]
  PROVE  ReaderInv'
<1>1. LoadedSound /\ TasksSound /\ AskedSound /\ LimitsSound /\ OpenedConnected /\ TreeSound /\ GroupsConnected /\ ReopenIsOneTree
  BY DEF ReaderInv
<1>2. /\ objects' = objects /\ known' = known /\ limits' = limits /\ waiting' = waiting
      /\ tasks' = tasks /\ asked' = asked /\ spent' = spent
  BY DEF mergeVars
<1>3. Start' = Start /\ Keys' = Keys
  BY DEF Start, KeysOf, Keys
<1>4. LoadedSound' /\ TasksSound' /\ AskedSound' /\ OpenedConnected'
  BY <1>1, <1>2, <1>3 DEF LoadedSound, TasksSound, AskedSound, OpenedConnected
<1>5. LimitsSound'
  BY <1>1, <1>2, <1>3 DEF LimitsSound
<1>6. GroupsConnected'
  <2>1. PICK sh : sh = shown'
    OBVIOUS
  <2>2. PICK s : s = shown
    OBVIOUS
  <2>3. s = [members |-> s.members, inTree |-> s.inTree, todo |-> s.todo, extensions |-> s.extensions, groups |-> s.groups]
    BY <1>1, <2>2 DEF GroupsConnected
  <2>4. PICK a, b : sh = s \/ sh = [s EXCEPT !.inTree = a, !.todo = b] \/ sh = [s EXCEPT !.extensions = a]
    BY <2>1, <2>2
  <2>5. /\ sh.groups = s.groups
        /\ sh = [members |-> sh.members, inTree |-> sh.inTree, todo |-> sh.todo, extensions |-> sh.extensions, groups |-> sh.groups]
    <3>1. CASE sh = s
      BY <2>3, <3>1
    <3>2. CASE sh = [s EXCEPT !.inTree = a, !.todo = b]
      <4>1. sh = [members |-> s.members, inTree |-> a, todo |-> b, extensions |-> s.extensions, groups |-> s.groups]
        BY <2>3, <3>2
      <4> QED
        BY <4>1
    <3>3. CASE sh = [s EXCEPT !.extensions = a]
      <4>1. sh = [members |-> s.members, inTree |-> s.inTree, todo |-> s.todo, extensions |-> a, groups |-> s.groups]
        BY <2>3, <3>3
      <4> QED
        BY <4>1
    <3> QED
      BY <2>4, <3>1, <3>2, <3>3
  <2> QED
    BY <1>1, <2>1, <2>2, <2>5 DEF GroupsConnected
<1>7. ReopenIsOneTree'
  BY <1>1 DEF ReopenIsOneTree
<1> QED
  BY <1>4, <1>5, <1>6, <1>7 DEF ReaderInv

LEMMA ReaderNext ==
  ASSUME ReaderInv, [Next]_vars
  PROVE  ReaderInv'
<1>1. ASSUME NEW s \in Late, Arrive(s) PROVE ReaderInv'
  BY <1>1, ArriveStep
<1>2. CASE FindTraces
  BY <1>2, FindTracesStep
<1>3. CASE GetTrace
  BY <1>3, GetTraceStep
<1>4. ASSUME NEW key \in Keys, followFrom(key) PROVE ReaderInv'
  BY <1>4, followFromStep
<1>5. ASSUME NEW task \in tasks, listTask(task) \/ publishTask(task) PROVE ReaderInv'
  BY <1>5, listTaskStep, publishTaskStep
<1>6. CASE Fail
  <2>1. phase' = "idle" /\ req' = Idle /\ ClearMerger /\ shown' = NothingShown /\ stored' = stored /\ entries' = entries
    BY <1>6 DEF Fail
  <2>2. \A e \in entries : GroupConnected(e.traces, stored)
    BY DEF ReaderInv, GroupsConnected
  <2> QED
    BY <2>1, <2>2, Ended
<1>7. CASE MergeTraces
  BY <1>7, MergeTracesStep
<1>8. CASE mergeLinkedTraces
  <2>1. stored' = stored /\ entries' = entries /\ req' = req /\ phase' = phase /\ UNCHANGED mergeVars
    BY <1>8 DEF mergeLinkedTraces
  <2>2. TreeSound' /\ \E a, b : shown' = [shown EXCEPT !.inTree = a, !.todo = b]
    BY <1>8, MergeLinkedFacts
  <2> QED
    BY <2>1, <2>2, TreeStep
<1>9. CASE Transform
  <2>1. stored' = stored /\ entries' = entries /\ req' = req /\ phase' = "transform" /\ UNCHANGED mergeVars
    BY <1>9 DEF Transform
  <2>2. PICK ids : shown' = [shown EXCEPT !.extensions = ids]
    BY <1>9 DEF Transform
  <2>3. TreeSound'
    <3>1. PICK sh : sh = shown
      OBVIOUS
    <3>2. PICK new : new = shown'
      OBVIOUS
    <3>3. PICK O : O = objects
      OBVIOUS
    <3>4. sh = [members |-> sh.members, inTree |-> sh.inTree, todo |-> sh.todo, extensions |-> sh.extensions, groups |-> sh.groups]
      BY <3>1 DEF ReaderInv, GroupsConnected
    <3>5. new.members = sh.members /\ new.inTree = sh.inTree /\ new.todo = sh.todo
      BY <2>2, <3>1, <3>2, <3>4
    <3>6. phase = "merge" /\ sh.todo = <<>>
      BY <1>9, <3>1 DEF Transform
    <3>7. /\ TreeSoundIn(O, sh)
          /\ req.kind = "get" => /\ sh.members = DOMAIN O
                                 /\ Hierarchy(O) => \E root \in sh.inTree : OnTop(O, root)
      BY <3>1, <3>3, <3>6 DEF ReaderInv, TreeSound
    <3>8. TreeSoundIn(O, new)
      BY <3>5, <3>7 DEF TreeSoundIn, Done
    <3>9. objects' = objects
      BY <2>1 DEF mergeVars
    <3> QED
      BY <2>1, <3>2, <3>3, <3>5, <3>6, <3>7, <3>8, <3>9 DEF TreeSound
  <2> QED
    BY <2>1, <2>2, <2>3, TreeStep
<1>10. CASE RunSteps
  <2>1. stored' = stored /\ entries' = entries /\ req' = req /\ phase' = phase /\ UNCHANGED mergeVars /\ shown' = shown
    BY <1>10 DEF RunSteps
  <2>2. TreeSound'
    BY <2>1 DEF ReaderInv, TreeSound, mergeVars
  <2> QED
    BY <2>1, <2>2, TreeStep
<1>11. CASE Reply
  <2>1. phase' = "idle" /\ req' = Idle /\ ClearMerger /\ shown' = NothingShown /\ stored' = stored
    BY <1>11 DEF Reply
  <2>2. PICK cached \in CacheExtensions : entries' = IF req.kind = "find" THEN Entries(cached) ELSE entries
    BY <1>11 DEF Reply
  <2>3. \A e \in Entries(cached) : e.traces \in shown.groups
    BY DEF Entries
  <2>4. \A e \in entries' : GroupConnected(e.traces, stored)
    BY <2>2, <2>3 DEF ReaderInv, GroupsConnected
  <2> QED
    BY <2>1, <2>4, Ended
<1>12. CASE UNCHANGED vars
  <2>1. stored' = stored /\ entries' = entries /\ req' = req /\ phase' = phase /\ UNCHANGED mergeVars /\ shown' = shown
    BY <1>12 DEF vars
  <2>2. TreeSound'
    BY <2>1 DEF ReaderInv, TreeSound, mergeVars
  <2> QED
    BY <2>1, <2>2, TreeStep
<1> QED
  BY <1>1, <1>2, <1>3, <1>4, <1>5, <1>6, <1>7, <1>8, <1>9, <1>10, <1>11, <1>12, Zenon DEF Next

-----------------------------------------------------------------------------

\* The inductive invariant of the reader, for every storage, selector, limit and
\* order of answers: what is loaded comes from the storage, each linked object is
\* found once and asked for once, every limit covers what it paid for and is to pay
\* for, and what opening a trace has loaded hangs together.
THEOREM ReaderInvariant == Spec => []ReaderInv
<1>1. Init => ReaderInv
  BY ReaderInit
<1>2. ReaderInv /\ [Next]_vars => ReaderInv'
  BY ReaderNext
<1> QED
  BY <1>1, <1>2, PTL DEF Spec

\* However many tasks of FollowLinks find the same object at once, no object is
\* listed twice in one request, none that it started from, and no limit is exceeded.
THEOREM FollowingIsBounded == Spec => []FollowBounded
<1>1. ReaderInv => FollowBounded
  <2> SUFFICES ASSUME ReaderInv PROVE FollowBounded
    OBVIOUS
  <2>1. AskedSound /\ LimitsSound
    BY DEF ReaderInv
  <2>2. \A k \in Keys : asked[k] <= (IF k \in {Traces[t].key : t \in req.traces} THEN 0 ELSE 1)
    BY <2>1 DEF AskedSound, Start, KeysOf
  <2>3. ASSUME NEW l \in DOMAIN spent PROVE spent[l] <= FollowLimit
    <3>1. l \in Keys \cup {Global} /\ spent[l] \in Nat /\ Affordable(spent, tasks, limits, l)
      BY <2>1 DEF LimitsSound
    <3>2. PICK a \in Nat : a = Cardinality(Listing(tasks, l))
      <4>1. Listing(tasks, l) \in SUBSET tasks /\ IsFiniteSet(tasks)
        BY <2>1 DEF Listing, LimitsSound
      <4> QED
        BY <4>1, FS_Subset, FS_CardinalityType
    <3>3. PICK left \in Nat : left = LeftOf(limits, l)
      BY <2>1 DEF LimitsSound, LeftOf, Positive
    <3> QED
      BY <3>1, <3>2, <3>3, LimitAssumption DEF Affordable
  <2> QED
    BY <2>2, <2>3 DEF FollowBounded
<1> QED
  BY <1>1, ReaderInvariant, PTL

\* Opening a trace that a search found never ends with "inconsistent linked trace
\* count": its objects hang together again, whatever links arrived since.
THEOREM OpeningIsOneTree == Spec => []ReopenIsOneTree
<1>1. ReaderInv => ReopenIsOneTree
  BY DEF ReaderInv
<1> QED
  BY <1>1, ReaderInvariant, PTL

\* When the objects form a hierarchy whose links are recorded at both ends, everything
\* that opening a trace loaded is in the tree: every object that the search had put
\* into the group, however far links were followed and whichever of them were not.
THEOREM MembersAreShown == Spec => []MembersShown
<1>1. ReaderInv => MembersShown
  <2> SUFFICES ASSUME ReaderInv, phase = "transform", req.kind = "get", RecordedAtBothEnds, OneParent, NoCycle
               PROVE  {Traces[t].key : t \in req.traces} \subseteq shown.inTree
    BY DEF MembersShown
  <2>1. PICK O : O = objects
    OBVIOUS
  <2>2. Hierarchy(O)
    <3>1. BothEnds(O)
      BY <2>1 DEF BothEnds, RecordedAtBothEnds, LinksIn
    <3>2. SingleParent(O)
      BY <2>1 DEF SingleParent, OneParent, HasParent, LinksIn
    <3>3. NoLoop(O)
      <4>1. ASSUME NEW S \in SUBSET DOMAIN O, S # {} PROVE \E k \in S : \A p \in S : ~HasParent(O, k, p)
        <5>1. PICK k \in S : \A s \in O[k].spans : IsLink(s) /\ s.role = "parent" => s.to \notin S
          BY <2>1, <4>1 DEF NoCycle
        <5> QED
          BY <5>1 DEF HasParent, LinksIn
      <4> QED
        BY <4>1 DEF NoLoop
    <3> QED
      BY <3>1, <3>2, <3>3 DEF Hierarchy
  <2>3. Start \subseteq DOMAIN O /\ ConnectedIn(O) /\ KeptIn(O)
    BY <2>1, <2>2 DEF ReaderInv, OpenedConnected
  <2>4. WellFormed(O)
    <3>1. stored \in SUBSET Spans /\ \A k \in DOMAIN O : SoundObject(O[k], k, stored)
      BY <2>1 DEF ReaderInv, LoadedSound
    <3> QED
      BY <3>1, LoadedWellFormed
  <2>5. PICK sh : sh = shown
    OBVIOUS
  <2>6. TreeSoundIn(O, sh) /\ sh.todo = <<>> /\ sh.members = DOMAIN O /\ \E root \in sh.inTree : OnTop(O, root)
    BY <2>1, <2>2, <2>5 DEF ReaderInv, TreeSound
  <2>7. sh.inTree \in SUBSET DOMAIN O /\ \A k \in sh.inTree : Done(O, sh, k)
    <3>1. \A k : ~Listed(<<>>, k)
      <4>1. Len(<<>>) = 0 /\ 1..0 = {}
        OBVIOUS
      <4> QED
        BY <4>1 DEF Listed
    <3> QED
      BY <2>6, <3>1 DEF TreeSoundIn
  <2>8. ASSUME NEW k \in DOMAIN O, NEW p \in sh.inTree, HasParent(O, k, p) PROVE k \in sh.inTree
    <3>1. p \in DOMAIN O
      BY <2>7
    <3>2. PICK s \in LinksIn(O[k].spans) : s.role = "parent" /\ s.to = p
      BY <2>8 DEF HasParent
    <3>3. PICK r \in LinksIn(O[p].spans) : r.to = k
      BY <2>2, <2>4, <3>1, <3>2, OtherEnd DEF Hierarchy
    <3>4. PICK l \in O[p].links : l.to = k
      BY <2>3, <3>1, <3>3 DEF KeptIn
    <3>5. l \in LinksIn(O[p].spans)
      BY <2>4, <3>1 DEF WellFormed
    <3>6. l.role = "child"
      <4>1. ASSUME l.role = "parent" PROVE FALSE
        <5>1. HasParent(O, p, k)
          BY <3>4, <3>5, <4>1 DEF HasParent
        <5> QED
          BY <2>2, <2>8, <3>1, <5>1, NoMutual DEF Hierarchy
      <4> QED
        BY <2>2, <2>4, <3>1, <3>4, <3>5, <4>1, OtherEnd DEF Hierarchy
    <3> QED
      BY <2>6, <2>7, <3>4, <3>6 DEF Done
  <2>9. DownClosed(O, sh.inTree)
    BY <2>8 DEF DownClosed
  <2>10. PICK root \in sh.inTree : OnTop(O, root)
    BY <2>6
  <2>11. sh.inTree = DOMAIN O
    BY <2>2, <2>3, <2>4, <2>7, <2>9, <2>10, ReachedFromTop DEF Hierarchy
  <2> QED
    BY <2>3, <2>5, <2>11 DEF Start, KeysOf
<1> QED
  BY <1>1, ReaderInvariant, PTL

-----------------------------------------------------------------------------
(* The invariant of the transformation *)

\* The shape of spans, frames and trees.
IsSpan(s) ==
    s = [parent |-> s.parent, pseudo |-> s.pseudo, source |-> s.source, logs |-> s.logs,
         start |-> s.start, end |-> s.end]
IsFrame(f) ==
    f = [span |-> f.span, children |-> f.children, queue |-> f.queue] /\ f.children \cap f.queue = {}
IsTree(T) ==
    /\ T = [spans |-> T.spans, root |-> T.root, frames |-> T.frames, exited |-> T.exited, panic |-> T.panic]
    /\ T.spans = [x \in DOMAIN T.spans |-> T.spans[x]]
    /\ \A x \in DOMAIN T.spans : IsSpan(T.spans[x]) /\ x # NoSpan
    /\ T.root \in DOMAIN T.spans /\ T.spans[T.root].parent = NoSpan
    /\ T.panic = FALSE

\* The spans that a visit is in or has left, and those that a frame is to visit.
Entered(T) == {T.frames[i].span : i \in DOMAIN T.frames}
Seen(T) == T.exited \cup Entered(T)
Pending(f) == f.children \cup f.queue

\* Frames are for different spans, and what they are to visit are children of
\* theirs which the visit has not seen.
IsSequence(s) == s \in Seq({s[i] : i \in DOMAIN s})
FramesSound(T) ==
    /\ IsSequence(T.frames)
    /\ \A i \in DOMAIN T.frames : IsFrame(T.frames[i]) /\ T.frames[i].span \notin T.exited
    /\ \A i, j \in DOMAIN T.frames : T.frames[i].span = T.frames[j].span => i = j
    /\ \A i \in DOMAIN T.frames : \A c \in Pending(T.frames[i]) :
         c \in DOMAIN T.spans /\ T.spans[c].parent = T.frames[i].span /\ c \notin Seen(T)

\* What is above a span that the visit has seen has been seen, up to the root.
SeenSound(T) ==
    /\ Seen(T) \subseteq DOMAIN T.spans
    /\ \A x \in Seen(T) : x = T.root \/ T.spans[x].parent \in Seen(T)
    /\ \A S \in SUBSET Seen(T) : S # {} => \E x \in S : T.spans[x].parent \notin S
VisitSound(T) == IsTree(T) /\ FramesSound(T) /\ SeenSound(T)

\* The groups added by step n from the end, or later, are below spans seen.
GroupsNew(T, n, kind) ==
    \A x \in DOMAIN T.spans : x[1] = "group" =>
      /\ x[3] \in Nat /\ n <= x[3]
      /\ x[3] = n => kind = "GroupByTraceSource" /\ x[2][1] \in Seen(T)
KindOf(s) == IF s = <<>> THEN "none" ELSE Head(s).kind

\* A tree of spans that no step has touched, with the span r of an object on top.
Built(x) == x[1] # "none" /\ x[1] # "group"
ObjectRoot(T, r) ==
    /\ IsTree(T) /\ T.frames = <<>> /\ T.exited = {}
    /\ T.root = r /\ T.spans[r].source = "object"
    /\ \A x \in DOMAIN T.spans : Built(x)
BuiltSound(T, inTree) == \E k \in inTree : ObjectRoot(T, RootOf(k))

\* The display modes asked for exist; in every phase the tree is what it is to be.
ConfigsSound ==
    /\ \A e \in entries : e.config \in DOMAIN Configs
    /\ phase # "idle" => req.config \in DOMAIN Configs
VisitInv ==
    /\ VisitSound(tree) /\ IsSequence(steps) /\ GroupsNew(tree, Len(steps), KindOf(steps))
    /\ tree.frames = <<>> => tree.exited = {}
    /\ tree.frames # <<>> => steps # <<>>
TreeInv ==
    /\ ConfigsSound
    /\ phase = "merge" => BuiltSound(tree, shown.inTree)
    /\ phase = "transform" => VisitInv
    /\ phase \notin {"merge", "transform"} => tree = NoTree

-----------------------------------------------------------------------------
(* The tree while it is visited *)

UnderBody(T, ids, f) ==
    [x \in DOMAIN T.spans |-> x \in ids \/ (T.spans[x].parent \in DOMAIN T.spans /\ f[T.spans[x].parent])]

\* The function in Under exists, whatever the parents are: it tells the spans that
\* are in every set with ids that has the children of its members.
LEMMA UnderExists ==
  ASSUME NEW T, NEW ids
  PROVE  \E f : f = UnderBody(T, ids, f)
<1> DEFINE D == DOMAIN T.spans
           Closed(S) == \A x \in D : x \in ids \/ T.spans[x].parent \in S => x \in S
           M == {x \in D : \A S \in SUBSET D : Closed(S) => x \in S}
           N == {x \in D : x \in ids \/ T.spans[x].parent \in M}
           f == [x \in D |-> x \in M]
<1>1. Closed(M)
  OBVIOUS
<1>2. N \subseteq M
  BY <1>1
<1>3. Closed(N)
  BY <1>2
<1>4. M \subseteq N
  BY <1>3
<1>5. M \subseteq D
  OBVIOUS
<1>6. ASSUME NEW x \in D
      PROVE  f[x] = (x \in ids \/ (T.spans[x].parent \in D /\ f[T.spans[x].parent]))
  <2>1. f[x] = (x \in M)
    OBVIOUS
  <2>2. ASSUME T.spans[x].parent \in D PROVE f[T.spans[x].parent] = (T.spans[x].parent \in M)
    BY <2>2
  <2>3. (x \in M) = (x \in N)
    BY <1>2, <1>4
  <2>4. (x \in N) = (x \in ids \/ T.spans[x].parent \in M)
    OBVIOUS
  <2> HIDE DEF M, N, f
  <2> QED
    BY <1>5, <2>1, <2>2, <2>3, <2>4, Zenon
<1>7. f = [x \in D |-> x \in ids \/ (T.spans[x].parent \in D /\ f[T.spans[x].parent])]
  <2>1. f = [x \in D |-> f[x]]
    BY Zenon
  <2> HIDE DEF f
  <2> QED
    BY <1>6, <2>1, Zenon
<1>8. PICK g : g = f
  OBVIOUS
<1>9. g = UnderBody(T, ids, g)
  <2> HIDE DEF f
  <2> QED
    BY <1>7, <1>8, Zenon DEF UnderBody
<1> QED
  BY <1>9, Zenon

LEMMA UnderFacts ==
  ASSUME NEW T, NEW ids, NEW U, U = Under(T, ids)
  PROVE  /\ U \subseteq DOMAIN T.spans
         /\ \A x \in DOMAIN T.spans : x \in ids => x \in U
         /\ \A x \in U : x \in ids \/ T.spans[x].parent \in U
<1>1. \E f : f = UnderBody(T, ids, f)
  BY UnderExists, Zenon
<1>2. PICK f : f = (CHOOSE g : g = UnderBody(T, ids, g)) /\ f = UnderBody(T, ids, f)
  <2>1. PICK f : f = CHOOSE g : g = UnderBody(T, ids, g)
    OBVIOUS
  <2> QED
    BY <1>1, <2>1, Zenon
<1>3. U = {x \in DOMAIN T.spans : f[x]}
  BY <1>2, Zenon DEF Under, UnderBody
<1>4. \A x \in DOMAIN T.spans : f[x] = (x \in ids \/ (T.spans[x].parent \in DOMAIN T.spans /\ f[T.spans[x].parent]))
  BY <1>2, Zenon DEF UnderBody
<1>5. U \subseteq DOMAIN T.spans
  BY <1>3, Zenon
<1>6. \A x \in DOMAIN T.spans : x \in ids => x \in U
  BY <1>3, <1>4, Zenon
<1>7. \A x \in U : x \in ids \/ T.spans[x].parent \in U
  BY <1>3, <1>4, Zenon
<1> QED
  BY <1>5, <1>6, <1>7

\* The spans may change if what the visit has seen and is to see keeps its place.
KeepsPlaces(T, s2) ==
    /\ s2 = [x \in DOMAIN s2 |-> s2[x]]
    /\ \A x \in DOMAIN s2 : IsSpan(s2[x]) /\ x # NoSpan
    /\ \A x \in Seen(T) \cup {T.root} : x \in DOMAIN s2 /\ s2[x].parent = T.spans[x].parent
    /\ \A i \in DOMAIN T.frames : \A c \in Pending(T.frames[i]) :
         c \in DOMAIN s2 /\ s2[c].parent = T.spans[c].parent
LEMMA SpansChanged ==
  ASSUME NEW T, VisitSound(T), NEW s2, KeepsPlaces(T, s2), NEW E, E = [T EXCEPT !.spans = s2]
  PROVE  VisitSound(E) /\ E = [spans |-> s2, root |-> T.root, frames |-> T.frames, exited |-> T.exited, panic |-> FALSE]
<1>0. /\ s2 = [x \in DOMAIN s2 |-> s2[x]]
      /\ \A x \in DOMAIN s2 : IsSpan(s2[x]) /\ x # NoSpan
      /\ \A x \in Seen(T) \cup {T.root} : x \in DOMAIN s2 /\ s2[x].parent = T.spans[x].parent
      /\ \A i \in DOMAIN T.frames : \A c \in Pending(T.frames[i]) :
           c \in DOMAIN s2 /\ s2[c].parent = T.spans[c].parent
  BY DEF KeepsPlaces
<1>1. E = [spans |-> s2, root |-> T.root, frames |-> T.frames, exited |-> T.exited, panic |-> FALSE]
  BY DEF VisitSound, IsTree
<1>2. E.spans = s2 /\ E.root = T.root /\ E.frames = T.frames /\ E.exited = T.exited /\ E.panic = FALSE
  BY <1>1
<1>3. Seen(E) = Seen(T)
  BY <1>2 DEF Seen, Entered
<1>4. IsTree(E)
  BY <1>0, <1>1, <1>2 DEF VisitSound, IsTree
<1>5. FramesSound(E)
  <2>1. FramesSound(T)
    BY DEF VisitSound
  <2> QED
    BY <1>0, <1>2, <1>3, <2>1 DEF FramesSound
<1>6. SeenSound(E)
  <2>1. SeenSound(T)
    BY DEF VisitSound
  <2>2. \A x \in Seen(T) : E.spans[x].parent = T.spans[x].parent /\ x \in DOMAIN E.spans
    BY <1>0, <1>2
  <2> QED
    BY <1>2, <1>3, <2>1, <2>2 DEF SeenSound
<1> QED
  BY <1>1, <1>4, <1>5, <1>6 DEF VisitSound

\* The frames of E are those of T, with more queued at the most.
SameFrames(T, E) ==
    /\ E.root = T.root /\ E.exited = T.exited
    /\ DOMAIN E.frames = DOMAIN T.frames /\ \A i \in DOMAIN T.frames : E.frames[i].span = T.frames[i].span

\* What E is to visit beyond T are among ids.
QueuedOnly(T, E, ids) ==
    \A i \in DOMAIN T.frames : \A x : x \in Pending(E.frames[i]) => x \in ids \/ x \in Pending(T.frames[i])

LEMMA SameSeen ==
  ASSUME NEW T, NEW E, SameFrames(T, E)
  PROVE  Seen(E) = Seen(T)
BY DEF SameFrames, Seen, Entered

LEMMA Enqueued ==
  ASSUME NEW T, VisitSound(T), NEW ids, NEW p,
         \A x \in ids : /\ x \in DOMAIN T.spans /\ T.spans[x].parent = p /\ x \notin Seen(T)
                        /\ \A i \in DOMAIN T.frames : x \notin Pending(T.frames[i]),
         NEW E, E = Enqueue(T, ids, p)
  PROVE  /\ VisitSound(E) /\ E.spans = T.spans /\ SameFrames(T, E)
         /\ QueuedOnly(T, E, ids)
<1>1. PICK fr : fr = [i \in DOMAIN T.frames |->
                       IF T.frames[i].span = p THEN [T.frames[i] EXCEPT !.queue = @ \cup ids] ELSE T.frames[i]]
  OBVIOUS
<1>2. E = [T EXCEPT !.frames = fr]
  BY <1>1 DEF Enqueue
<1>3. /\ E = [spans |-> T.spans, root |-> T.root, frames |-> fr, exited |-> T.exited, panic |-> FALSE]
      /\ E.spans = T.spans /\ E.root = T.root /\ E.frames = fr /\ E.exited = T.exited /\ E.panic = FALSE
  BY <1>2 DEF VisitSound, IsTree
<1>4. /\ IsSequence(T.frames) /\ \A i \in DOMAIN T.frames : IsFrame(T.frames[i])
  BY DEF VisitSound, FramesSound
<1>5. ASSUME NEW i \in DOMAIN T.frames
      PROVE  /\ IsFrame(fr[i]) /\ fr[i].span = T.frames[i].span
             /\ \A x : x \in Pending(fr[i]) => (x \in ids /\ fr[i].span = p) \/ x \in Pending(T.frames[i])
  <2>1. PICK f : f = T.frames[i]
    OBVIOUS
  <2>2. f = [span |-> f.span, children |-> f.children, queue |-> f.queue] /\ f.children \cap f.queue = {}
    BY <1>4, <2>1 DEF IsFrame
  <2>3. CASE f.span = p
    <3>1. fr[i] = [span |-> f.span, children |-> f.children, queue |-> f.queue \cup ids]
      BY <1>1, <2>1, <2>2, <2>3
    <3>2. f.children \cap (f.queue \cup ids) = {}
      BY <2>1, <2>2 DEF Pending
    <3> QED
      BY <2>1, <2>3, <3>1, <3>2 DEF IsFrame, Pending
  <2>4. CASE f.span # p
    <3>1. fr[i] = f
      BY <1>1, <2>1, <2>4
    <3> QED
      BY <1>4, <2>1, <3>1
  <2> QED
    BY <2>3, <2>4
<1>6. SameFrames(T, E)
  BY <1>1, <1>3, <1>5 DEF SameFrames
<1>7. Seen(E) = Seen(T)
  BY <1>6, SameSeen
<1>8. IsTree(E)
  BY <1>3 DEF VisitSound, IsTree
<1>9. IsSequence(fr)
  <2>1. PICK n \in Nat : n = Len(T.frames) /\ DOMAIN T.frames = 1..n
    BY <1>4 DEF IsSequence
  <2>2. DOMAIN fr = 1..n /\ fr = [i \in 1..n |-> fr[i]]
    BY <1>1, <2>1
  <2> QED
    BY <2>1, <2>2 DEF IsSequence
<1>10. FramesSound(E)
  <2>1. /\ \A i \in DOMAIN T.frames : T.frames[i].span \notin T.exited
        /\ \A i, j \in DOMAIN T.frames : T.frames[i].span = T.frames[j].span => i = j
        /\ \A i \in DOMAIN T.frames : \A c \in Pending(T.frames[i]) :
             c \in DOMAIN T.spans /\ T.spans[c].parent = T.frames[i].span /\ c \notin Seen(T)
    BY DEF VisitSound, FramesSound
  <2>2. DOMAIN fr = DOMAIN T.frames
    BY <1>1
  <2>3. \A i \in DOMAIN fr : IsFrame(fr[i]) /\ fr[i].span \notin T.exited
    BY <1>5, <2>1, <2>2
  <2>4. \A i, j \in DOMAIN fr : fr[i].span = fr[j].span => i = j
    BY <1>5, <2>1, <2>2
  <2>5. \A i \in DOMAIN fr : \A c \in Pending(fr[i]) :
             c \in DOMAIN T.spans /\ T.spans[c].parent = fr[i].span /\ c \notin Seen(T)
    BY <1>5, <2>1, <2>2
  <2> QED
    BY <1>3, <1>7, <1>9, <2>3, <2>4, <2>5 DEF FramesSound
<1>11. SeenSound(E)
  BY <1>3, <1>7 DEF VisitSound, SeenSound
<1> QED
  BY <1>3, <1>5, <1>6, <1>8, <1>10, <1>11 DEF VisitSound, QueuedOnly

\* The spans that Delete removes are none that the visit has seen or is to see.
Unvisited(T, ids) ==
    /\ ids \subseteq DOMAIN T.spans /\ T.root \notin ids
    /\ \A x \in ids : x \notin Seen(T) /\ \A i \in DOMAIN T.frames : x \notin Pending(T.frames[i])
LEMMA DeleteSound ==
  ASSUME NEW T, VisitSound(T), NEW ids, Unvisited(T, ids), NEW E, E = Delete(T, ids)
  PROVE  /\ VisitSound(E) /\ E.frames = T.frames /\ SameFrames(T, E)
         /\ DOMAIN E.spans \subseteq DOMAIN T.spans \ ids
         /\ \A x \in DOMAIN E.spans : E.spans[x] = T.spans[x]
<1>0. /\ ids \subseteq DOMAIN T.spans /\ T.root \notin ids
      /\ \A x \in ids : x \notin Seen(T) /\ \A i \in DOMAIN T.frames : x \notin Pending(T.frames[i])
  BY DEF Unvisited
<1> USE <1>0
<1>1. PICK gone : gone = Under(T, ids)
  OBVIOUS
<1>2. /\ gone \subseteq DOMAIN T.spans
      /\ \A x \in DOMAIN T.spans : x \in ids => x \in gone
      /\ \A x \in gone : x \in ids \/ T.spans[x].parent \in gone
  BY <1>1, UnderFacts
<1>3. /\ T.spans[T.root].parent = NoSpan /\ NoSpan \notin DOMAIN T.spans /\ T.root \in DOMAIN T.spans
      /\ \A x \in DOMAIN T.spans : IsSpan(T.spans[x]) /\ x # NoSpan
  BY DEF VisitSound, IsTree
<1>4. T.root \notin gone
  BY <1>2, <1>3
<1>5. gone \cap Seen(T) = {}
  <2> DEFINE S == gone \cap Seen(T)
  <2>1. SUFFICES ASSUME S # {} PROVE FALSE
    OBVIOUS
  <2>2. PICK x \in S : T.spans[x].parent \notin S
    BY <2>1 DEF VisitSound, SeenSound
  <2>3. T.spans[x].parent \in gone
    BY <1>2, <2>2
  <2>4. T.spans[x].parent \in Seen(T)
    BY <1>4, <2>2 DEF VisitSound, SeenSound
  <2> QED
    BY <2>2, <2>3, <2>4
<1>6. ASSUME NEW i \in DOMAIN T.frames, NEW c \in Pending(T.frames[i]) PROVE c \notin gone /\ c \in DOMAIN T.spans
  <2>1. c \in DOMAIN T.spans /\ T.spans[c].parent = T.frames[i].span
    BY DEF VisitSound, FramesSound
  <2>2. T.frames[i].span \in Seen(T)
    BY DEF Seen, Entered
  <2> QED
    BY <1>2, <1>5, <2>1, <2>2
<1>7. /\ \A i \in DOMAIN T.frames : T.frames[i].span \notin gone
      /\ gone \cap T.exited = {}
  BY <1>5 DEF Seen, Entered
<1>8. PICK s2 : s2 = [x \in DOMAIN T.spans \ gone |-> T.spans[x]]
  OBVIOUS
<1>9. E = [T EXCEPT !.spans = s2]
  BY <1>1, <1>4, <1>7, <1>8 DEF Delete
<1>10. Seen(T) \subseteq DOMAIN T.spans
  BY DEF VisitSound, SeenSound
<1>11. s2 = [x \in DOMAIN s2 |-> s2[x]] /\ DOMAIN s2 = DOMAIN T.spans \ gone
  BY <1>8
<1>12. \A x \in DOMAIN s2 : s2[x] = T.spans[x]
  BY <1>8, <1>11
<1>13. \A x \in Seen(T) \cup {T.root} : x \in DOMAIN s2 /\ s2[x].parent = T.spans[x].parent
  BY <1>3, <1>4, <1>5, <1>10, <1>11, <1>12
<1>14. VisitSound(E) /\ E = [spans |-> s2, root |-> T.root, frames |-> T.frames, exited |-> T.exited, panic |-> FALSE]
  <2>1. \A i \in DOMAIN T.frames : \A c \in Pending(T.frames[i]) : c \in DOMAIN s2 /\ s2[c].parent = T.spans[c].parent
    BY <1>6, <1>11, <1>12
  <2>2. \A x \in DOMAIN s2 : IsSpan(s2[x]) /\ x # NoSpan
    BY <1>3, <1>11, <1>12
  <2>3. KeepsPlaces(T, s2)
    BY <1>11, <1>13, <2>1, <2>2 DEF KeepsPlaces
  <2> QED
    BY <1>9, <2>3, SpansChanged
<1>15. E.spans = s2 /\ E.root = T.root /\ E.frames = T.frames /\ E.exited = T.exited
  BY <1>14
<1> QED
  BY <1>2, <1>11, <1>12, <1>14, <1>15 DEF SameFrames

LEMMA AddSound ==
  ASSUME NEW T, VisitSound(T), NEW new, NEW p, p \notin T.exited,
         \A x \in DOMAIN new : /\ IsSpan(new[x]) /\ x # NoSpan /\ x # T.root /\ x \notin Seen(T)
                               /\ \A i \in DOMAIN T.frames : x \notin Pending(T.frames[i]),
         NEW E, E = Add(T, new, p)
  PROVE  /\ VisitSound(E) /\ SameFrames(T, E) /\ DOMAIN E.spans = DOMAIN T.spans \cup DOMAIN new
         /\ \A x \in DOMAIN T.spans \ DOMAIN new : E.spans[x] = T.spans[x]
         /\ QueuedOnly(T, E, DOMAIN new)
<1>1. PICK n2 : n2 = [x \in DOMAIN new |-> [new[x] EXCEPT !.parent = p]]
  OBVIOUS
<1>2. PICK s2 : s2 = Put(T.spans, n2)
  OBVIOUS
<1>3. PICK F : F = [T EXCEPT !.spans = s2]
  OBVIOUS
<1>4. E = Enqueue(F, DOMAIN new, p)
  BY <1>1, <1>2, <1>3 DEF Add
<1>5. DOMAIN n2 = DOMAIN new /\ \A x \in DOMAIN new : n2[x] = [new[x] EXCEPT !.parent = p]
  BY <1>1
<1>6. ASSUME NEW x \in DOMAIN new PROVE IsSpan(n2[x]) /\ n2[x].parent = p
  <2>1. PICK s : s = new[x]
    OBVIOUS
  <2>2. s = [parent |-> s.parent, pseudo |-> s.pseudo, source |-> s.source, logs |-> s.logs, start |-> s.start, end |-> s.end]
    BY <2>1 DEF IsSpan
  <2>3. n2[x] = [parent |-> p, pseudo |-> s.pseudo, source |-> s.source, logs |-> s.logs, start |-> s.start, end |-> s.end]
    BY <1>5, <2>1, <2>2
  <2> QED
    BY <2>3 DEF IsSpan
<1>7. /\ DOMAIN s2 = DOMAIN T.spans \cup DOMAIN new /\ s2 = [x \in DOMAIN s2 |-> s2[x]]
      /\ \A x \in DOMAIN new : s2[x] = n2[x]
      /\ \A x \in DOMAIN T.spans \ DOMAIN new : s2[x] = T.spans[x]
  BY <1>2, <1>5 DEF Put
<1>8. \A x \in DOMAIN T.spans : IsSpan(T.spans[x]) /\ x # NoSpan
  BY DEF VisitSound, IsTree
<1>9. \A x \in DOMAIN s2 : IsSpan(s2[x]) /\ x # NoSpan
  BY <1>6, <1>7, <1>8
<1>10. \A x \in Seen(T) \cup {T.root} : x \in DOMAIN s2 /\ s2[x].parent = T.spans[x].parent
  <2>1. \A x \in Seen(T) \cup {T.root} : x \in DOMAIN T.spans
    BY DEF VisitSound, IsTree, SeenSound
  <2>2. \A x \in Seen(T) \cup {T.root} : x \notin DOMAIN new
    OBVIOUS
  <2> QED
    BY <1>7, <2>1, <2>2
<1>11. \A i \in DOMAIN T.frames : \A c \in Pending(T.frames[i]) : c \in DOMAIN s2 /\ s2[c].parent = T.spans[c].parent
  <2>1. \A i \in DOMAIN T.frames : \A c \in Pending(T.frames[i]) : c \in DOMAIN T.spans
    BY DEF VisitSound, FramesSound
  <2> QED
    BY <1>7, <2>1
<1>12. VisitSound(F) /\ F = [spans |-> s2, root |-> T.root, frames |-> T.frames, exited |-> T.exited, panic |-> FALSE]
  <2>1. KeepsPlaces(T, s2)
    BY <1>7, <1>9, <1>10, <1>11 DEF KeepsPlaces
  <2> QED
    BY <1>3, <2>1, SpansChanged
<1>13. F.spans = s2 /\ F.root = T.root /\ F.frames = T.frames /\ F.exited = T.exited
  BY <1>12
<1>14. Seen(F) = Seen(T)
  BY <1>13 DEF Seen, Entered
<1>15. \A x \in DOMAIN new : /\ x \in DOMAIN F.spans /\ F.spans[x].parent = p /\ x \notin Seen(F)
                             /\ \A i \in DOMAIN F.frames : x \notin Pending(F.frames[i])
  BY <1>6, <1>7, <1>13, <1>14
<1>16. VisitSound(F)
  BY <1>12
<1>17. VisitSound(E) /\ E.spans = F.spans /\ SameFrames(F, E) /\ QueuedOnly(F, E, DOMAIN new)
  BY <1>4, <1>15, <1>16, Enqueued, Zenon
<1> QED
  BY <1>7, <1>13, <1>17 DEF SameFrames, QueuedOnly

LEMMA MoveSound ==
  ASSUME NEW T, VisitSound(T), NEW ids, ids \subseteq DOMAIN T.spans, NEW p, p \notin T.exited,
         \A x \in ids : /\ T.spans[x].parent # NoSpan /\ x \notin Seen(T)
                        /\ \A i \in DOMAIN T.frames : x \notin Pending(T.frames[i]),
         NEW E, E = Move(T, ids, p)
  PROVE  /\ VisitSound(E) /\ SameFrames(T, E) /\ DOMAIN E.spans = DOMAIN T.spans
         /\ \A x \in DOMAIN T.spans \ ids : E.spans[x] = T.spans[x]
         /\ QueuedOnly(T, E, ids)
<1>1. PICK s2 : s2 = [x \in DOMAIN T.spans |-> IF x \in ids THEN [T.spans[x] EXCEPT !.parent = p] ELSE T.spans[x]]
  OBVIOUS
<1>2. PICK F : F = [T EXCEPT !.spans = s2]
  OBVIOUS
<1>3. E = Enqueue(F, ids, p)
  BY <1>1, <1>2 DEF Move
<1>4. /\ \A x \in DOMAIN T.spans : IsSpan(T.spans[x]) /\ x # NoSpan
      /\ T.spans[T.root].parent = NoSpan /\ T.root \in DOMAIN T.spans
  BY DEF VisitSound, IsTree
<1>5. /\ DOMAIN s2 = DOMAIN T.spans /\ s2 = [x \in DOMAIN s2 |-> s2[x]]
      /\ \A x \in ids : s2[x] = [T.spans[x] EXCEPT !.parent = p]
      /\ \A x \in DOMAIN T.spans \ ids : s2[x] = T.spans[x]
  BY <1>1
<1>6. ASSUME NEW x \in ids PROVE IsSpan(s2[x]) /\ s2[x].parent = p
  <2>1. PICK s : s = T.spans[x]
    OBVIOUS
  <2>2. s = [parent |-> s.parent, pseudo |-> s.pseudo, source |-> s.source, logs |-> s.logs, start |-> s.start, end |-> s.end]
    BY <1>4, <2>1 DEF IsSpan
  <2>3. s2[x] = [parent |-> p, pseudo |-> s.pseudo, source |-> s.source, logs |-> s.logs, start |-> s.start, end |-> s.end]
    BY <1>5, <2>1, <2>2
  <2> QED
    BY <2>3 DEF IsSpan
<1>7. \A x \in DOMAIN s2 : IsSpan(s2[x]) /\ x # NoSpan
  BY <1>4, <1>5, <1>6
<1>8. \A x \in Seen(T) \cup {T.root} : x \in DOMAIN s2 /\ s2[x].parent = T.spans[x].parent
  <2>1. \A x \in Seen(T) \cup {T.root} : x \in DOMAIN T.spans
    BY DEF VisitSound, IsTree, SeenSound
  <2>2. \A x \in Seen(T) \cup {T.root} : x \notin ids
    BY <1>4
  <2> QED
    BY <1>5, <2>1, <2>2
<1>9. \A i \in DOMAIN T.frames : \A c \in Pending(T.frames[i]) : c \in DOMAIN s2 /\ s2[c].parent = T.spans[c].parent
  <2>1. \A i \in DOMAIN T.frames : \A c \in Pending(T.frames[i]) : c \in DOMAIN T.spans
    BY DEF VisitSound, FramesSound
  <2> QED
    BY <1>5, <2>1
<1>10. VisitSound(F) /\ F = [spans |-> s2, root |-> T.root, frames |-> T.frames, exited |-> T.exited, panic |-> FALSE]
  <2>1. KeepsPlaces(T, s2)
    BY <1>5, <1>7, <1>8, <1>9 DEF KeepsPlaces
  <2> QED
    BY <1>2, <2>1, SpansChanged
<1>11. F.spans = s2 /\ F.root = T.root /\ F.frames = T.frames /\ F.exited = T.exited
  BY <1>10
<1>12. Seen(F) = Seen(T)
  BY <1>11 DEF Seen, Entered
<1>13. \A x \in ids : /\ x \in DOMAIN F.spans /\ F.spans[x].parent = p /\ x \notin Seen(F)
                      /\ \A i \in DOMAIN F.frames : x \notin Pending(F.frames[i])
  BY <1>5, <1>6, <1>11, <1>12
<1>14. VisitSound(F)
  BY <1>10
<1>15. VisitSound(E) /\ E.spans = F.spans /\ SameFrames(F, E) /\ QueuedOnly(F, E, ids)
  BY <1>3, <1>13, <1>14, Enqueued, Zenon
<1> QED
  BY <1>5, <1>11, <1>15 DEF SameFrames, QueuedOnly

\* id may be visited next.
NextSpan(T, id) ==
    /\ id \in DOMAIN T.spans /\ id \notin Seen(T) /\ \A i \in DOMAIN T.frames : id \notin Pending(T.frames[i])
    /\ id = T.root \/ T.spans[id].parent \in Entered(T)

\* What entering id, in a step of this kind and n steps from the end, makes of the tree.
AfterEnter(T, E, id, n, kind) ==
    /\ VisitSound(E) /\ SameFrames(T, E)
    /\ id \in DOMAIN E.spans => NextSpan(E, id)
    /\ \A x \in DOMAIN E.spans : x \in DOMAIN T.spans
                                   \/ /\ kind = "GroupByTraceSource" /\ id \in DOMAIN E.spans
                                      /\ \E source : x = <<"group", <<id, source>>, n>>

\* The children of the span to be entered are not seen and not waited for.
LEMMA ChildrenUnseen ==
  ASSUME NEW T, VisitSound(T), NEW id, id \in DOMAIN T.spans, id \notin Seen(T), NEW c \in Children(T, id)
  PROVE  /\ c \in DOMAIN T.spans /\ T.spans[c].parent = id /\ c # T.root /\ id # NoSpan /\ c \notin Seen(T)
         /\ \A i \in DOMAIN T.frames : c \notin Pending(T.frames[i])
<1>1. c \in DOMAIN T.spans /\ T.spans[c].parent = id
  BY DEF Children
<1>2. id # NoSpan /\ c # T.root
  BY <1>1 DEF VisitSound, IsTree
<1>3. c \notin Seen(T)
  BY <1>1, <1>2 DEF VisitSound, SeenSound
<1>4. \A i \in DOMAIN T.frames : c \notin Pending(T.frames[i])
  BY <1>1 DEF VisitSound, FramesSound, Seen, Entered
<1> QED
  BY <1>1, <1>2, <1>3, <1>4

\* A span may be rewritten under its parent.
LEMMA Rewritten ==
  ASSUME NEW T, VisitSound(T), NEW id \in DOMAIN T.spans, NEW sp, IsSpan(sp), sp.parent = T.spans[id].parent,
         NEW E, E = [T EXCEPT !.spans = [T.spans EXCEPT ![id] = sp]]
  PROVE  /\ VisitSound(E) /\ SameFrames(T, E) /\ E.frames = T.frames /\ DOMAIN E.spans = DOMAIN T.spans
         /\ \A x \in DOMAIN T.spans : x # id => E.spans[x] = T.spans[x]
         /\ E.spans[id] = sp
<1>1. PICK s2 : s2 = [T.spans EXCEPT ![id] = sp]
  OBVIOUS
<1>2. /\ DOMAIN s2 = DOMAIN T.spans /\ s2 = [x \in DOMAIN s2 |-> s2[x]] /\ s2[id] = sp
      /\ \A x \in DOMAIN T.spans : x # id => s2[x] = T.spans[x]
  BY <1>1
<1>3. \A x \in DOMAIN T.spans : IsSpan(T.spans[x]) /\ x # NoSpan
  BY DEF VisitSound, IsTree
<1>4. \A x \in DOMAIN s2 : IsSpan(s2[x]) /\ x # NoSpan
  BY <1>2, <1>3
<1>5. \A x \in DOMAIN T.spans : s2[x].parent = T.spans[x].parent
  BY <1>2
<1>6. \A x \in Seen(T) \cup {T.root} : x \in DOMAIN s2 /\ s2[x].parent = T.spans[x].parent
  BY <1>2, <1>5 DEF VisitSound, IsTree, SeenSound
<1>7. \A i \in DOMAIN T.frames : \A c \in Pending(T.frames[i]) : c \in DOMAIN s2 /\ s2[c].parent = T.spans[c].parent
  <2>1. \A i \in DOMAIN T.frames : \A c \in Pending(T.frames[i]) : c \in DOMAIN T.spans
    BY DEF VisitSound, FramesSound
  <2> QED
    BY <1>2, <1>5, <2>1
<1>8. VisitSound(E) /\ E = [spans |-> s2, root |-> T.root, frames |-> T.frames, exited |-> T.exited, panic |-> FALSE]
  <2>1. KeepsPlaces(T, s2)
    BY <1>2, <1>4, <1>6, <1>7 DEF KeepsPlaces
  <2> QED
    BY <1>1, <2>1, SpansChanged
<1>9. E.spans = s2 /\ E.root = T.root /\ E.frames = T.frames /\ E.exited = T.exited
  BY <1>8
<1> QED
  BY <1>2, <1>8, <1>9 DEF SameFrames

LEMMA SameNext ==
  ASSUME NEW T, NEW E, NEW id, NextSpan(T, id), SameFrames(T, E), id \in DOMAIN E.spans,
         E.spans[id].parent = T.spans[id].parent,
         \A i \in DOMAIN T.frames : id \notin Pending(E.frames[i])
  PROVE  NextSpan(E, id)
<1>1. Seen(E) = Seen(T) /\ Entered(E) = Entered(T) /\ E.root = T.root /\ DOMAIN E.frames = DOMAIN T.frames
  BY DEF SameFrames, Seen, Entered
<1> QED
  BY <1>1 DEF NextSpan

LEMMA CollapseNestingSound ==
  ASSUME NEW T, VisitSound(T), NEW step, NEW id, NextSpan(T, id), NEW n, NEW kind
  PROVE  AfterEnter(T, CollapseNesting(T, step, id), id, n, kind)
<1>1. PICK events : events = {c \in Children(T, id) :
                     T.spans[c].pseudo = "none" /\ T.spans[c].source \in step.sources \ {"none"}}
  OBVIOUS
<1>2. PICK logs : logs = {Log(c, T.spans[c]) : c \in events}
  OBVIOUS
<1>3. PICK E : E = CollapseNesting(T, step, id)
  OBVIOUS
<1>4. id \in DOMAIN T.spans /\ id \notin Seen(T) /\ \A i \in DOMAIN T.frames : id \notin Pending(T.frames[i])
  BY DEF NextSpan
<1>5. CASE T.spans[id].pseudo = "none"
  <2>1. E = T
    BY <1>3, <1>5 DEF CollapseNesting
  <2> QED
    BY <1>3, <2>1 DEF AfterEnter, SameFrames
<1>6. CASE T.spans[id].pseudo # "none"
  <2>1. PICK s : s = T.spans[id]
    OBVIOUS
  <2>2. s = [parent |-> s.parent, pseudo |-> s.pseudo, source |-> s.source, logs |-> s.logs, start |-> s.start, end |-> s.end]
    BY <1>4, <2>1 DEF VisitSound, IsTree, IsSpan
  <2>3. PICK sp : sp = [s EXCEPT !.logs = s.logs \cup logs]
    OBVIOUS
  <2>4. IsSpan(sp) /\ sp.parent = s.parent
    <3>1. sp = [parent |-> s.parent, pseudo |-> s.pseudo, source |-> s.source, logs |-> s.logs \cup logs, start |-> s.start, end |-> s.end]
      BY <2>2, <2>3
    <3> QED
      BY <3>1 DEF IsSpan
  <2>5. PICK F : F = [T EXCEPT !.spans = [T.spans EXCEPT ![id] = sp]]
    OBVIOUS
  <2>6. E = Delete(F, events)
    BY <1>1, <1>2, <1>3, <1>6, <2>1, <2>3, <2>5 DEF CollapseNesting
  <2>7. /\ VisitSound(F) /\ SameFrames(T, F) /\ F.frames = T.frames /\ DOMAIN F.spans = DOMAIN T.spans
        /\ F.spans[id] = sp
    BY <1>4, <2>1, <2>4, <2>5, Rewritten
  <2>8. Seen(F) = Seen(T) /\ F.root = T.root
    BY <2>7, SameSeen DEF SameFrames
  <2>9. \A c \in events : /\ c \in DOMAIN T.spans /\ T.spans[c].parent = id /\ c # T.root /\ id # NoSpan /\ c \notin Seen(T)
                          /\ \A i \in DOMAIN T.frames : c \notin Pending(T.frames[i])
    BY <1>1, <1>4, ChildrenUnseen
  <2>10. /\ VisitSound(E) /\ E.frames = F.frames /\ SameFrames(F, E)
         /\ DOMAIN E.spans \subseteq DOMAIN F.spans \ events
         /\ \A x \in DOMAIN E.spans : E.spans[x] = F.spans[x]
    <3>1. events \subseteq DOMAIN F.spans /\ F.root \notin events
      BY <2>7, <2>8, <2>9
    <3>2. \A x \in events : x \notin Seen(F) /\ \A i \in DOMAIN F.frames : x \notin Pending(F.frames[i])
      BY <2>7, <2>8, <2>9
    <3>3. Unvisited(F, events)
      BY <3>1, <3>2 DEF Unvisited
    <3> QED
      BY <2>6, <2>7, <3>3, DeleteSound
  <2>11. SameFrames(T, E)
    BY <2>7, <2>10 DEF SameFrames
  <2>12. ASSUME id \in DOMAIN E.spans PROVE NextSpan(E, id)
    <3>1. E.spans[id].parent = T.spans[id].parent
      BY <2>1, <2>4, <2>7, <2>10, <2>12
    <3>2. \A i \in DOMAIN T.frames : id \notin Pending(E.frames[i])
      BY <1>4, <2>7, <2>10
    <3> QED
      BY <2>11, <2>12, <3>1, <3>2, SameNext
  <2> QED
    BY <1>3, <2>7, <2>10, <2>11, <2>12 DEF AfterEnter
<1> QED
  BY <1>5, <1>6

LEMMA ExtractNestingSound ==
  ASSUME NEW T, VisitSound(T), NEW step, NEW id, NextSpan(T, id), NEW n, NEW kind
  PROVE  AfterEnter(T, ExtractNesting(T, step, id), id, n, kind)
<1>1. PICK E : E = ExtractNesting(T, step, id)
  OBVIOUS
<1>2. id \in DOMAIN T.spans /\ id \notin Seen(T) /\ \A i \in DOMAIN T.frames : id \notin Pending(T.frames[i])
  BY DEF NextSpan
<1>3. CASE T.spans[id].parent = NoSpan \/ T.spans[id].pseudo \notin step.types
  <2>1. E = T
    BY <1>1, <1>3 DEF ExtractNesting
  <2> QED
    BY <1>1, <2>1 DEF AfterEnter, SameFrames
<1>4. CASE ~(T.spans[id].parent = NoSpan \/ T.spans[id].pseudo \notin step.types)
  <2>1. PICK p : p = T.spans[id].parent
    OBVIOUS
  <2>2. PICK ids : ids = Children(T, id)
    OBVIOUS
  <2>3. PICK F : F = Move(T, ids, p)
    OBVIOUS
  <2>4. E = Delete(F, {id})
    BY <1>1, <1>4, <2>1, <2>2, <2>3 DEF ExtractNesting
  <2>5. \A c \in ids : /\ c \in DOMAIN T.spans /\ T.spans[c].parent = id /\ c # T.root /\ id # NoSpan /\ c \notin Seen(T)
                       /\ \A i \in DOMAIN T.frames : c \notin Pending(T.frames[i])
    BY <1>2, <2>2, ChildrenUnseen
  <2>6. id # T.root
    BY <1>4 DEF VisitSound, IsTree
  <2>7. p \in Entered(T)
    BY <2>1, <2>6 DEF NextSpan
  <2>8. p \notin T.exited
    BY <2>7 DEF VisitSound, FramesSound, Entered
  <2>9. id \notin ids
    <3>1. SUFFICES ASSUME id \in ids PROVE FALSE
      OBVIOUS
    <3>2. T.spans[id].parent = id
      BY <2>5, <3>1
    <3> QED
      BY <1>2, <2>1, <2>7, <3>2 DEF Seen
  <2>10. /\ VisitSound(F) /\ SameFrames(T, F) /\ DOMAIN F.spans = DOMAIN T.spans
         /\ QueuedOnly(T, F, ids)
    <3>1. /\ ids \subseteq DOMAIN T.spans
          /\ \A x \in ids : /\ T.spans[x].parent # NoSpan /\ x \notin Seen(T)
                            /\ \A i \in DOMAIN T.frames : x \notin Pending(T.frames[i])
      BY <2>5
    <3> QED
      BY <2>3, <2>8, <3>1, MoveSound
  <2>11. Seen(F) = Seen(T) /\ F.root = T.root /\ DOMAIN F.frames = DOMAIN T.frames
    BY <2>10, SameSeen DEF SameFrames
  <2>12. \A i \in DOMAIN F.frames : id \notin Pending(F.frames[i])
    BY <1>2, <2>9, <2>10, <2>11 DEF QueuedOnly
  <2>13. /\ VisitSound(E) /\ SameFrames(F, E)
         /\ DOMAIN E.spans \subseteq DOMAIN F.spans \ {id}
    <3>1. {id} \subseteq DOMAIN F.spans /\ F.root \notin {id}
      BY <1>2, <2>6, <2>10, <2>11
    <3>2. \A x \in {id} : x \notin Seen(F) /\ \A i \in DOMAIN F.frames : x \notin Pending(F.frames[i])
      BY <1>2, <2>11, <2>12
    <3>3. Unvisited(F, {id})
      BY <3>1, <3>2 DEF Unvisited
    <3> QED
      BY <2>4, <2>10, <3>3, DeleteSound
  <2>14. SameFrames(T, E)
    BY <2>10, <2>13 DEF SameFrames
  <2> QED
    BY <1>1, <2>10, <2>13, <2>14 DEF AfterEnter
<1> QED
  BY <1>3, <1>4

LEMMA GroupByTraceSourceSound ==
  ASSUME NEW T, VisitSound(T), NEW step, NEW id, NextSpan(T, id),
         \A source : <<"group", <<id, source>>, Len(steps)>> \notin DOMAIN T.spans
  PROVE  AfterEnter(T, GroupByTraceSource(T, step, id), id, Len(steps), "GroupByTraceSource")
<1>1. PICK E : E = GroupByTraceSource(T, step, id)
  OBVIOUS
<1>2. PICK n : n = Len(steps)
  OBVIOUS
<1>3. id \in DOMAIN T.spans /\ id \notin Seen(T) /\ \A i \in DOMAIN T.frames : id \notin Pending(T.frames[i])
  BY DEF NextSpan
<1>4. CASE T.spans[id].pseudo = "groupByTraceSource"
  <2>1. E = T
    BY <1>1, <1>4 DEF GroupByTraceSource
  <2> QED
    BY <1>1, <2>1 DEF AfterEnter, SameFrames
<1>5. CASE T.spans[id].pseudo # "groupByTraceSource"
  <2>1. PICK s : s = T.spans[id]
    OBVIOUS
  <2>2. s = [parent |-> s.parent, pseudo |-> s.pseudo, source |-> s.source, logs |-> s.logs, start |-> s.start, end |-> s.end]
    BY <1>3, <2>1 DEF VisitSound, IsTree, IsSpan
  <2>3. PICK grouped : grouped = {l \in s.logs : l.source \in step.sources}
    OBVIOUS
  <2>4. PICK new : new = [x \in {GroupId(id, l.source) : l \in grouped} |->
                    [s EXCEPT !.pseudo = "groupByTraceSource", !.source = "none",
                              !.logs = {l \in grouped : l.source = x[2][2]}]]
    OBVIOUS
  <2>5. PICK sp : sp = [s EXCEPT !.logs = s.logs \ grouped]
    OBVIOUS
  <2>6. IsSpan(sp) /\ sp.parent = s.parent
    <3>1. sp = [parent |-> s.parent, pseudo |-> s.pseudo, source |-> s.source, logs |-> s.logs \ grouped, start |-> s.start, end |-> s.end]
      BY <2>2, <2>5
    <3> QED
      BY <3>1 DEF IsSpan
  <2>7. PICK F : F = [T EXCEPT !.spans = [T.spans EXCEPT ![id] = sp]]
    OBVIOUS
  <2>8. E = Add(F, new, id)
    BY <1>1, <1>5, <2>1, <2>3, <2>4, <2>5, <2>7 DEF GroupByTraceSource
  <2>9. /\ VisitSound(F) /\ SameFrames(T, F) /\ F.frames = T.frames /\ DOMAIN F.spans = DOMAIN T.spans
        /\ F.spans[id] = sp
    BY <1>3, <2>1, <2>6, <2>7, Rewritten
  <2>10. Seen(F) = Seen(T) /\ F.root = T.root /\ F.exited = T.exited
    BY <2>9, SameSeen DEF SameFrames
  <2>11. DOMAIN new = {GroupId(id, l.source) : l \in grouped}
    BY <2>4
  <2>12. \A x \in DOMAIN new : \E source : x = <<"group", <<id, source>>, n>>
    BY <1>2, <2>11 DEF GroupId
  <2>13. \A x \in DOMAIN new : x \notin DOMAIN T.spans
    BY <1>2, <2>12
  <2>14. \A x \in DOMAIN new : x # NoSpan
    BY <2>12 DEF NoSpan
  <2>15. ASSUME NEW x \in DOMAIN new PROVE IsSpan(new[x])
    <3>1. PICK L : L = {l \in grouped : l.source = x[2][2]}
      OBVIOUS
    <3>2. new[x] = [s EXCEPT !.pseudo = "groupByTraceSource", !.source = "none", !.logs = L]
      BY <2>4, <2>11, <3>1
    <3>3. new[x] = [parent |-> s.parent, pseudo |-> "groupByTraceSource", source |-> "none", logs |-> L, start |-> s.start, end |-> s.end]
      BY <2>2, <3>2
    <3> QED
      BY <3>3 DEF IsSpan
  <2>16. \A x \in DOMAIN new : /\ IsSpan(new[x]) /\ x # NoSpan /\ x # F.root /\ x \notin Seen(F)
                               /\ \A i \in DOMAIN F.frames : x \notin Pending(F.frames[i])
    <3>1. Seen(F) \subseteq DOMAIN F.spans /\ F.root \in DOMAIN F.spans
      BY <2>9 DEF VisitSound, SeenSound, IsTree
    <3>2. \A i \in DOMAIN F.frames : \A c \in Pending(F.frames[i]) : c \in DOMAIN F.spans
      BY <2>9 DEF VisitSound, FramesSound
    <3> QED
      BY <2>9, <2>13, <2>14, <2>15, <3>1, <3>2
  <2>17. id \notin F.exited
    BY <1>3, <2>10 DEF Seen
  <2>18. /\ VisitSound(E) /\ SameFrames(F, E) /\ DOMAIN E.spans = DOMAIN F.spans \cup DOMAIN new
         /\ \A x \in DOMAIN F.spans \ DOMAIN new : E.spans[x] = F.spans[x]
         /\ QueuedOnly(F, E, DOMAIN new)
    BY <2>8, <2>9, <2>16, <2>17, AddSound
  <2>19. SameFrames(T, E)
    BY <2>9, <2>18 DEF SameFrames
  <2>20. id \in DOMAIN F.spans \ DOMAIN new
    BY <1>3, <2>9, <2>13
  <2>21. E.spans[id].parent = T.spans[id].parent
    BY <2>1, <2>6, <2>9, <2>18, <2>20
  <2>22. \A i \in DOMAIN T.frames : id \notin Pending(E.frames[i])
    BY <1>3, <2>9, <2>18, <2>20 DEF QueuedOnly
  <2>23. id \in DOMAIN E.spans
    BY <2>18, <2>20
  <2>24. NextSpan(E, id)
    BY <2>19, <2>21, <2>22, <2>23, SameNext
  <2>25. \A x \in DOMAIN E.spans : x \in DOMAIN T.spans \/ \E source : x = <<"group", <<id, source>>, n>>
    BY <2>9, <2>12, <2>18
  <2> QED
    BY <1>1, <1>2, <2>18, <2>19, <2>23, <2>24, <2>25 DEF AfterEnter
<1> QED
  BY <1>4, <1>5

LEMMA EnterSound ==
  ASSUME NEW T, VisitSound(T), NEW step, NEW id, NextSpan(T, id),
         step.kind = "GroupByTraceSource" => \A source : <<"group", <<id, source>>, Len(steps)>> \notin DOMAIN T.spans
  PROVE  AfterEnter(T, Enter(T, step, id), id, Len(steps), step.kind)
<1>1. CASE step.kind = "CollapseNesting"
  BY <1>1, CollapseNestingSound DEF Enter
<1>2. CASE step.kind = "ExtractNesting"
  BY <1>2, ExtractNestingSound DEF Enter
<1>3. CASE step.kind = "GroupByTraceSource"
  BY <1>3, GroupByTraceSourceSound DEF Enter
<1>4. CASE step.kind = "PruneTags"
  <2>1. PICK E : E = Enter(T, step, id)
    OBVIOUS
  <2>2. E = PruneTags(T, id)
    BY <1>4, <2>1 DEF Enter
  <2>3. PICK s : s = T.spans[id]
    OBVIOUS
  <2>4. id \in DOMAIN T.spans /\ \A i \in DOMAIN T.frames : id \notin Pending(T.frames[i])
    BY DEF NextSpan
  <2>5. s = [parent |-> s.parent, pseudo |-> s.pseudo, source |-> s.source, logs |-> s.logs, start |-> s.start, end |-> s.end]
    BY <2>3, <2>4 DEF VisitSound, IsTree, IsSpan
  <2>6. PICK sp : sp = [s EXCEPT !.pseudo = "none", !.source = "none"]
    OBVIOUS
  <2>7. IsSpan(sp) /\ sp.parent = s.parent
    <3>1. sp = [parent |-> s.parent, pseudo |-> "none", source |-> "none", logs |-> s.logs, start |-> s.start, end |-> s.end]
      BY <2>5, <2>6
    <3> QED
      BY <3>1 DEF IsSpan
  <2>8. E = [T EXCEPT !.spans = [T.spans EXCEPT ![id] = sp]]
    BY <2>2, <2>3, <2>4, <2>6 DEF PruneTags, VisitSound, IsTree
  <2>9. /\ VisitSound(E) /\ SameFrames(T, E) /\ E.frames = T.frames /\ DOMAIN E.spans = DOMAIN T.spans
        /\ E.spans[id] = sp
    BY <2>3, <2>4, <2>7, <2>8, Rewritten
  <2>10. NextSpan(E, id)
    BY <2>3, <2>4, <2>7, <2>9, SameNext
  <2> QED
    BY <2>1, <2>9, <2>10 DEF AfterEnter
<1>5. CASE step.kind \notin {"CollapseNesting", "ExtractNesting", "GroupByTraceSource", "PruneTags"}
  <2>1. Enter(T, step, id) = T
    BY <1>5 DEF Enter
  <2> QED
    BY <2>1 DEF AfterEnter, SameFrames
<1> QED
  BY <1>1, <1>2, <1>3, <1>4, <1>5

\* id comes on the stack, with its children to visit.
LEMMA PushSound ==
  ASSUME NEW T, VisitSound(T), NEW id, NextSpan(T, id), NEW E,
         E = [T EXCEPT !.frames = Append(@, [span |-> id, children |-> Children(T, id), queue |-> {}])]
  PROVE  VisitSound(E) /\ E.spans = T.spans /\ Seen(E) = Seen(T) \cup {id} /\ E.frames # <<>>
<1>1. PICK f : f = [span |-> id, children |-> Children(T, id), queue |-> {}]
  OBVIOUS
<1>2. PICK fr : fr = Append(T.frames, f)
  OBVIOUS
<1>3. E = [spans |-> T.spans, root |-> T.root, frames |-> fr, exited |-> T.exited, panic |-> FALSE]
  BY <1>1, <1>2 DEF VisitSound, IsTree
<1>4. E.spans = T.spans /\ E.root = T.root /\ E.frames = fr /\ E.exited = T.exited /\ E.panic = FALSE
  BY <1>3
<1>5. PICK n \in Nat : n = Len(T.frames) /\ DOMAIN T.frames = 1..n
  BY DEF VisitSound, FramesSound, IsSequence
<1>6. DOMAIN fr = 1..(n + 1) /\ fr[n + 1] = f /\ (\A i \in 1..n : fr[i] = T.frames[i]) /\ IsSequence(fr) /\ fr # <<>>
  <2>1. PICK X : T.frames \in Seq(X)
    BY DEF VisitSound, FramesSound, IsSequence
  <2>2. T.frames \in Seq(X \cup {f})
    BY <2>1
  <2>3. fr \in Seq(X \cup {f}) /\ Len(fr) = n + 1
    BY <1>2, <1>5, <2>2
  <2>4. DOMAIN fr = 1..(n + 1) /\ fr = [i \in 1..(n + 1) |-> fr[i]] /\ fr # <<>>
    BY <2>3
  <2>5. fr[n + 1] = f /\ \A i \in 1..n : fr[i] = T.frames[i]
    BY <1>2, <1>5, <2>2
  <2>6. IsSequence(fr)
    BY <2>4 DEF IsSequence
  <2> QED
    BY <2>4, <2>5, <2>6
<1>7. IsSequence(fr)
  BY <1>6
<1>8. fr # <<>>
  BY <1>6
<1>9. f.span = id /\ f.children = Children(T, id) /\ f.queue = {} /\ IsFrame(f) /\ Pending(f) = Children(T, id)
  BY <1>1 DEF IsFrame, Pending
<1>10. \A i \in 1..(n + 1) : i \in 1..n \/ i = n + 1
  OBVIOUS
<1>11. Entered(E) = Entered(T) \cup {id}
  <2>1. n + 1 \in 1..(n + 1) /\ \A i \in 1..n : i \in 1..(n + 1)
    OBVIOUS
  <2> QED
    BY <1>4, <1>5, <1>6, <1>9, <1>10, <2>1 DEF Entered
<1>12. Seen(E) = Seen(T) \cup {id}
  BY <1>4, <1>11 DEF Seen
<1>13. id \in DOMAIN T.spans /\ id \notin Seen(T) /\ id # NoSpan /\ \A i \in DOMAIN T.frames : id \notin Pending(T.frames[i])
  BY DEF NextSpan, VisitSound, IsTree
<1>14. IsTree(E)
  BY <1>3, <1>4 DEF VisitSound, IsTree
<1>15. FramesSound(E)
  <2>1. /\ \A i \in 1..n : IsFrame(T.frames[i]) /\ T.frames[i].span \notin T.exited
        /\ \A i, j \in 1..n : T.frames[i].span = T.frames[j].span => i = j
        /\ \A i \in 1..n : \A c \in Pending(T.frames[i]) :
             c \in DOMAIN T.spans /\ T.spans[c].parent = T.frames[i].span /\ c \notin Seen(T)
    BY <1>5 DEF VisitSound, FramesSound
  <2>2. id \notin T.exited /\ \A i \in 1..n : T.frames[i].span # id
    BY <1>5, <1>13 DEF Seen, Entered
  <2>3. \A i \in 1..(n + 1) : IsFrame(fr[i]) /\ fr[i].span \notin T.exited
    BY <1>6, <1>9, <1>10, <2>1, <2>2
  <2>4. ASSUME NEW i \in 1..(n + 1), NEW j \in 1..(n + 1), fr[i].span = fr[j].span PROVE i = j
    <3>1. fr[n + 1].span = id /\ \A k \in 1..n : fr[k].span = T.frames[k].span /\ fr[k].span # id
      BY <1>6, <1>9, <2>2
    <3>2. CASE i \in 1..n /\ j \in 1..n
      BY <2>1, <2>4, <3>1, <3>2
    <3>3. CASE i = n + 1 \/ j = n + 1
      BY <1>10, <2>4, <3>1, <3>3
    <3> QED
      BY <1>10, <3>2, <3>3
  <2>5. ASSUME NEW i \in 1..(n + 1), NEW c \in Pending(fr[i])
        PROVE  c \in DOMAIN T.spans /\ T.spans[c].parent = fr[i].span /\ c \notin Seen(T) /\ c # id
    <3>1. CASE i \in 1..n
      <4>1. fr[i] = T.frames[i]
        BY <1>6, <3>1
      <4>2. c \in Pending(T.frames[i]) /\ i \in DOMAIN T.frames
        BY <1>5, <2>5, <3>1, <4>1
      <4> QED
        BY <1>13, <2>1, <3>1, <4>1, <4>2
    <3>2. CASE i = n + 1
      <4>1. c \in Children(T, id)
        BY <1>6, <1>9, <2>5, <3>2
      <4>2. c \in DOMAIN T.spans /\ T.spans[c].parent = id /\ c # T.root /\ c \notin Seen(T)
        BY <1>13, <4>1, ChildrenUnseen
      <4>3. c # id
        <5>1. SUFFICES ASSUME c = id PROVE FALSE
          OBVIOUS
        <5>2. id \in Seen(T)
          BY <4>2, <5>1 DEF NextSpan, Seen
        <5> QED
          BY <1>13, <5>2
      <4> QED
        BY <1>6, <1>9, <3>2, <4>2, <4>3
    <3> QED
      BY <1>10, <3>1, <3>2
  <2>6. DOMAIN E.frames = 1..(n + 1)
    BY <1>4, <1>6
  <2>7. \A i, j \in 1..(n + 1) : fr[i].span = fr[j].span => i = j
    BY <2>4
  <2>8. \A i \in 1..(n + 1) : \A c \in Pending(fr[i]) :
          c \in DOMAIN T.spans /\ T.spans[c].parent = fr[i].span /\ c \notin Seen(E)
    BY <1>12, <2>5
  <2>9. \A i \in DOMAIN E.frames : IsFrame(E.frames[i]) /\ E.frames[i].span \notin E.exited
    BY <1>4, <2>3, <2>6, Zenon
  <2>10. \A i, j \in DOMAIN E.frames : E.frames[i].span = E.frames[j].span => i = j
    <3>1. ASSUME NEW i \in DOMAIN E.frames, NEW j \in DOMAIN E.frames, E.frames[i].span = E.frames[j].span PROVE i = j
      <4>1. i \in 1..(n + 1) /\ j \in 1..(n + 1) /\ fr[i].span = fr[j].span
        BY <1>4, <2>6, <3>1, Zenon
      <4> QED
        BY <2>7, <4>1
    <3> QED
      BY <3>1
  <2>11. \A i \in DOMAIN E.frames : \A c \in Pending(E.frames[i]) :
           c \in DOMAIN E.spans /\ E.spans[c].parent = E.frames[i].span /\ c \notin Seen(E)
    <3>1. ASSUME NEW i \in DOMAIN E.frames, NEW c \in Pending(E.frames[i])
          PROVE  c \in DOMAIN E.spans /\ E.spans[c].parent = E.frames[i].span /\ c \notin Seen(E)
      <4>1. i \in 1..(n + 1) /\ c \in Pending(fr[i])
        BY <1>4, <2>6, <3>1, Zenon
      <4>2. c \in DOMAIN T.spans /\ T.spans[c].parent = fr[i].span /\ c \notin Seen(E)
        BY <2>8, <4>1, Zenon
      <4> QED
        BY <1>4, <4>2, Zenon
    <3> QED
      BY <3>1, Zenon
  <2> QED
    BY <1>4, <1>7, <2>9, <2>10, <2>11, Zenon DEF FramesSound
<1>16. SeenSound(E)
  <2>1. /\ Seen(T) \subseteq DOMAIN T.spans
        /\ \A x \in Seen(T) : x = T.root \/ T.spans[x].parent \in Seen(T)
        /\ \A S \in SUBSET Seen(T) : S # {} => \E x \in S : T.spans[x].parent \notin S
    BY DEF VisitSound, SeenSound
  <2>2. T.spans[T.root].parent = NoSpan
    BY DEF VisitSound, IsTree
  <2>3. id = T.root \/ T.spans[id].parent \in Seen(T)
    BY DEF NextSpan, Seen
  <2>4. ASSUME NEW S \in SUBSET (Seen(T) \cup {id}), S # {} PROVE \E x \in S : T.spans[x].parent \notin S
    <3> DEFINE R == S \cap Seen(T)
    <3>1. CASE R = {}
      <4>1. S = {id}
        BY <2>4, <3>1
      <4>2. T.spans[id].parent # id
        BY <1>13, <2>2, <2>3
      <4> QED
        BY <4>1, <4>2
    <3>2. CASE R # {}
      <4>1. PICK x \in R : T.spans[x].parent \notin R
        BY <2>1, <3>2
      <4>2. T.spans[x].parent # id
        BY <1>13, <2>1, <2>2, <4>1
      <4>3. T.spans[x].parent \notin S
        BY <2>4, <4>1, <4>2
      <4> QED
        BY <4>1, <4>3
    <3> QED
      BY <3>1, <3>2
  <2> QED
    BY <1>4, <1>12, <1>13, <2>1, <2>3, <2>4 DEF SeenSound
<1> QED
  BY <1>4, <1>8, <1>12, <1>14, <1>15, <1>16 DEF VisitSound

\* A visit of the next span keeps the tree sound, and the groups new.
LEMMA VisitNext ==
  ASSUME NEW T, VisitSound(T), NEW step, NEW id, NextSpan(T, id),
         GroupsNew(T, Len(steps), step.kind), Len(steps) \in Nat
  PROVE  /\ VisitSound(visit(T, step, id)) /\ GroupsNew(visit(T, step, id), Len(steps), step.kind)
         /\ T.frames # <<>> => visit(T, step, id).frames # <<>>
         /\ visit(T, step, id).frames = <<>> => visit(T, step, id).exited = T.exited
<1>1. PICK n \in Nat : n = Len(steps)
  OBVIOUS
<1>2. PICK E : E = Enter(T, step, id)
  OBVIOUS
<1>3. PICK R : R = visit(T, step, id)
  OBVIOUS
<1>4. id \in DOMAIN T.spans /\ id \notin Seen(T)
  BY DEF NextSpan
<1>5. ASSUME step.kind = "GroupByTraceSource", NEW source PROVE <<"group", <<id, source>>, n>> \notin DOMAIN T.spans
  <2>1. SUFFICES ASSUME <<"group", <<id, source>>, n>> \in DOMAIN T.spans PROVE FALSE
    OBVIOUS
  <2>2. PICK x \in DOMAIN T.spans : x = <<"group", <<id, source>>, n>>
    BY <2>1
  <2>3. x[1] = "group" /\ x[2] = <<id, source>> /\ x[3] = n
    BY <2>2
  <2>4. x[2][1] = id
    BY <2>3
  <2>5. x[2][1] \in Seen(T)
    BY <1>1, <2>3 DEF GroupsNew
  <2> QED
    BY <1>4, <2>4, <2>5
<1>6. AfterEnter(T, E, id, n, step.kind)
  BY <1>1, <1>2, <1>5, EnterSound
<1>7. VisitSound(E) /\ SameFrames(T, E) /\ Seen(E) = Seen(T) /\ E.exited = T.exited
  BY <1>6, SameSeen DEF AfterEnter, SameFrames
<1>8. PICK len \in Nat : len = Len(T.frames) /\ DOMAIN T.frames = 1..len
  BY DEF VisitSound, FramesSound, IsSequence
<1>9. T.frames # <<>> => Last(T.frames).span # id
  <2>1. SUFFICES ASSUME T.frames # <<>> PROVE Last(T.frames).span \in Seen(T)
    BY <1>4
  <2>2. PICK X : T.frames \in Seq(X)
    BY DEF VisitSound, FramesSound, IsSequence
  <2>3. len \in 1..len
    BY <1>8, <2>1, <2>2
  <2>4. Last(T.frames) = T.frames[len]
    BY <1>8 DEF Last
  <2> QED
    BY <1>8, <2>3, <2>4 DEF Seen, Entered
<1>10. R = IF id \notin DOMAIN E.spans THEN E
           ELSE [E EXCEPT !.frames = Append(@, [span |-> id, children |-> Children(E, id), queue |-> {}])]
  BY <1>2, <1>3, <1>4, <1>9 DEF visit
<1>11. T.frames # <<>> => E.frames # <<>>
  <2>1. PICK X : T.frames \in Seq(X)
    BY DEF VisitSound, FramesSound, IsSequence
  <2>2. PICK Y : E.frames \in Seq(Y)
    BY <1>7 DEF VisitSound, FramesSound, IsSequence
  <2>3. T.frames # <<>> => 1 \in DOMAIN T.frames
    BY <1>8, <2>1
  <2>4. 1 \in DOMAIN E.frames => E.frames # <<>>
    BY <2>2
  <2> QED
    BY <1>7, <2>3, <2>4 DEF SameFrames
<1>12. CASE id \notin DOMAIN E.spans
  <2>1. R = E
    BY <1>10, <1>12
  <2>2. \A x \in DOMAIN E.spans : x \in DOMAIN T.spans
    BY <1>6, <1>12 DEF AfterEnter
  <2>3. GroupsNew(E, n, step.kind)
    BY <1>1, <1>7, <2>2 DEF GroupsNew
  <2> QED
    BY <1>1, <1>3, <1>7, <1>11, <2>1, <2>3
<1>13. CASE id \in DOMAIN E.spans
  <2>1. R = [E EXCEPT !.frames = Append(@, [span |-> id, children |-> Children(E, id), queue |-> {}])]
    BY <1>10, <1>13
  <2>2. NextSpan(E, id)
    BY <1>6, <1>13 DEF AfterEnter
  <2>3. VisitSound(R) /\ R.spans = E.spans /\ Seen(R) = Seen(E) \cup {id} /\ R.frames # <<>>
    BY <1>7, <2>1, <2>2, PushSound
  <2>4. ASSUME NEW x \in DOMAIN E.spans, x[1] = "group"
        PROVE  x[3] \in Nat /\ n <= x[3] /\ (x[3] = n => step.kind = "GroupByTraceSource" /\ x[2][1] \in Seen(R))
    <3>1. CASE x \in DOMAIN T.spans
      BY <1>1, <1>7, <2>3, <2>4, <3>1 DEF GroupsNew
    <3>2. CASE x \notin DOMAIN T.spans
      <4>1. step.kind = "GroupByTraceSource" /\ \E source : x = <<"group", <<id, source>>, n>>
        BY <1>6, <3>2 DEF AfterEnter
      <4>2. PICK source : x = <<"group", <<id, source>>, n>>
        BY <4>1
      <4>3. x[2] = <<id, source>> /\ x[3] = n
        BY <4>2
      <4>4. x[2][1] = id
        BY <4>3
      <4> QED
        BY <2>3, <4>1, <4>3, <4>4
    <3> QED
      BY <3>1, <3>2
  <2>5. GroupsNew(R, n, step.kind)
    BY <2>3, <2>4 DEF GroupsNew
  <2> QED
    BY <1>1, <1>3, <2>3, <2>5
<1> QED
  BY <1>12, <1>13

LEMMA FrontFacts ==
  ASSUME NEW s, IsSequence(s), s # <<>>
  PROVE  \E n \in Nat : /\ n >= 1 /\ Len(s) = n /\ DOMAIN s = 1..n /\ Last(s) = s[n]
                        /\ IsSequence(Front(s)) /\ DOMAIN Front(s) = 1..(n - 1)
                        /\ \A i \in 1..(n - 1) : Front(s)[i] = s[i]
                        /\ Front(s) = <<>> <=> n = 1
<1>1. PICK X : s \in Seq(X)
  BY DEF IsSequence
<1>2. PICK n \in Nat : n = Len(s) /\ DOMAIN s = 1..n /\ n >= 1
  BY <1>1
<1>3. PICK f : f = Front(s)
  OBVIOUS
<1>4. f = SubSeq(s, 1, n - 1)
  BY <1>2, <1>3 DEF Front
<1>5. f \in Seq(X) /\ Len(f) = n - 1 /\ \A i \in 1..(n - 1) : f[i] = s[i]
  BY <1>1, <1>2, <1>4
<1>6. DOMAIN f = 1..(n - 1) /\ f = [i \in 1..(n - 1) |-> f[i]]
  BY <1>5
<1>7. IsSequence(f)
  BY <1>2, <1>6 DEF IsSequence
<1>8. f = <<>> <=> n = 1
  BY <1>2, <1>5
<1>9. Last(s) = s[n]
  BY <1>2 DEF Last
<1> QED
  BY <1>2, <1>3, <1>5, <1>6, <1>7, <1>8, <1>9

LEMMA AppendFacts ==
  ASSUME NEW s, IsSequence(s), NEW n \in Nat, DOMAIN s = 1..n, NEW x
  PROVE  /\ IsSequence(Append(s, x)) /\ DOMAIN Append(s, x) = 1..(n + 1) /\ Append(s, x)[n + 1] = x
         /\ \A i \in 1..n : Append(s, x)[i] = s[i]
<1>1. PICK X : s \in Seq(X)
  BY DEF IsSequence
<1>2. s \in Seq(X \cup {x}) /\ Len(s) = n
  BY <1>1
<1>3. PICK a : a = Append(s, x)
  OBVIOUS
<1>4. a \in Seq(X \cup {x}) /\ Len(a) = n + 1
  BY <1>2, <1>3
<1>5. a[n + 1] = x /\ \A i \in 1..n : a[i] = s[i]
  BY <1>2, <1>3
<1>6. DOMAIN a = 1..(n + 1) /\ a = [i \in 1..(n + 1) |-> a[i]]
  BY <1>4
<1>7. IsSequence(a)
  BY <1>6 DEF IsSequence
<1> QED
  BY <1>3, <1>5, <1>6, <1>7

\* Frames may have less to visit.
LEMMA FramesChanged ==
  ASSUME NEW T, VisitSound(T), NEW fr, IsSequence(fr), DOMAIN fr = DOMAIN T.frames,
         \A i \in DOMAIN fr : IsFrame(fr[i]) /\ fr[i].span = T.frames[i].span /\ Pending(fr[i]) \subseteq Pending(T.frames[i]),
         NEW E, E = [T EXCEPT !.frames = fr]
  PROVE  VisitSound(E) /\ SameFrames(T, E) /\ E.spans = T.spans /\ E.frames = fr
<1>1. E = [spans |-> T.spans, root |-> T.root, frames |-> fr, exited |-> T.exited, panic |-> FALSE]
  BY DEF VisitSound, IsTree
<1>2. E.spans = T.spans /\ E.root = T.root /\ E.frames = fr /\ E.exited = T.exited /\ E.panic = FALSE
  BY <1>1
<1>3. SameFrames(T, E)
  BY <1>2 DEF SameFrames
<1>4. Seen(E) = Seen(T)
  BY <1>3, SameSeen
<1>5. IsTree(E)
  BY <1>1, <1>2 DEF VisitSound, IsTree
<1>6. /\ \A i \in DOMAIN T.frames : IsFrame(T.frames[i]) /\ T.frames[i].span \notin T.exited
      /\ \A i, j \in DOMAIN T.frames : T.frames[i].span = T.frames[j].span => i = j
      /\ \A i \in DOMAIN T.frames : \A c \in Pending(T.frames[i]) :
           c \in DOMAIN T.spans /\ T.spans[c].parent = T.frames[i].span /\ c \notin Seen(T)
  BY DEF VisitSound, FramesSound
<1>7. \A i \in DOMAIN E.frames : IsFrame(E.frames[i]) /\ E.frames[i].span \notin E.exited
  BY <1>2, <1>6
<1>8. \A i, j \in DOMAIN E.frames : E.frames[i].span = E.frames[j].span => i = j
  BY <1>2, <1>6
<1>9. \A i \in DOMAIN E.frames : \A c \in Pending(E.frames[i]) :
        c \in DOMAIN E.spans /\ E.spans[c].parent = E.frames[i].span /\ c \notin Seen(E)
  BY <1>2, <1>4, <1>6
<1>10. FramesSound(E)
  BY <1>2, <1>7, <1>8, <1>9, Zenon DEF FramesSound
<1>11. SeenSound(E)
  BY <1>2, <1>4 DEF VisitSound, SeenSound
<1> QED
  BY <1>2, <1>3, <1>5, <1>10, <1>11 DEF VisitSound

\* The frame on top goes, and its span has been left, or has no child and is to be deleted.
Leaving(T, n, id, fr) ==
    /\ VisitSound(T) /\ n \in Nat /\ n >= 1 /\ DOMAIN T.frames = 1..n
    /\ id = T.frames[n].span /\ Pending(T.frames[n]) = {}
    /\ IsSequence(fr) /\ DOMAIN fr = 1..(n - 1) /\ \A i \in 1..(n - 1) : fr[i] = T.frames[i]
WithFrames(T, fr, left) ==
    [spans |-> T.spans, root |-> T.root, frames |-> fr, exited |-> left, panic |-> FALSE]
LEMMA TopLeaves ==
  ASSUME NEW T, NEW n, NEW id, NEW fr, Leaving(T, n, id, fr),
         NEW left, left = T.exited \cup {id} \/ (left = T.exited /\ Children(T, id) = {}),
         NEW E, E = WithFrames(T, fr, left)
  PROVE  /\ VisitSound(E) /\ \A i \in DOMAIN fr : id \notin Pending(fr[i])
         /\ left = T.exited \cup {id} => Seen(E) = Seen(T)
         /\ left = T.exited => id \notin Seen(E) /\ Seen(E) = Seen(T) \ {id}
<1>0. /\ VisitSound(T) /\ n \in Nat /\ n >= 1 /\ DOMAIN T.frames = 1..n
      /\ id = T.frames[n].span /\ Pending(T.frames[n]) = {}
      /\ IsSequence(fr) /\ DOMAIN fr = 1..(n - 1) /\ \A i \in 1..(n - 1) : fr[i] = T.frames[i]
  BY DEF Leaving
<1> USE <1>0
<1>1. /\ E = [spans |-> T.spans, root |-> T.root, frames |-> fr, exited |-> left, panic |-> FALSE]
      /\ E.spans = T.spans /\ E.root = T.root /\ E.frames = fr /\ E.exited = left /\ E.panic = FALSE
  BY DEF WithFrames
<1>2. /\ \A i \in 1..n : IsFrame(T.frames[i]) /\ T.frames[i].span \notin T.exited
      /\ \A i, j \in 1..n : T.frames[i].span = T.frames[j].span => i = j
      /\ \A i \in 1..n : \A c \in Pending(T.frames[i]) :
           c \in DOMAIN T.spans /\ T.spans[c].parent = T.frames[i].span /\ c \notin Seen(T)
  BY DEF VisitSound, FramesSound
<1>3. n \in 1..n /\ (\A i \in 1..(n - 1) : i \in 1..n /\ i # n) /\ \A i \in 1..n : i = n \/ i \in 1..(n - 1)
  OBVIOUS
<1>4. \A i \in 1..(n - 1) : fr[i].span # id
  BY <1>2, <1>3
<1>5. Entered(T) = Entered(E) \cup {id}
  BY <1>1, <1>3 DEF Entered
<1>6. id \notin Entered(E) /\ id \notin T.exited /\ id \in Seen(T)
  BY <1>1, <1>2, <1>3, <1>4 DEF Entered, Seen
<1>7. left = T.exited \cup {id} => Seen(E) = Seen(T)
  BY <1>1, <1>5 DEF Seen
<1>8. left = T.exited => id \notin Seen(E) /\ Seen(E) = Seen(T) \ {id}
  BY <1>1, <1>5, <1>6 DEF Seen
<1>9. Seen(E) \subseteq Seen(T)
  BY <1>7, <1>8
<1>10. \A i \in DOMAIN fr : id \notin Pending(fr[i])
  BY <1>2, <1>3, <1>6
<1>11. IsTree(E)
  BY <1>1 DEF VisitSound, IsTree
<1>12. \A i \in DOMAIN E.frames : IsFrame(E.frames[i]) /\ E.frames[i].span \notin E.exited
  <2>1. \A i \in 1..(n - 1) : IsFrame(fr[i]) /\ fr[i].span \notin left
    BY <1>2, <1>3, <1>4
  <2> QED
    BY <1>1, <2>1
<1>13. \A i, j \in DOMAIN E.frames : E.frames[i].span = E.frames[j].span => i = j
  <2>1. \A i, j \in 1..(n - 1) : fr[i].span = fr[j].span => i = j
    BY <1>2, <1>3
  <2> QED
    BY <1>1, <2>1
<1>14. \A i \in DOMAIN E.frames : \A c \in Pending(E.frames[i]) :
        c \in DOMAIN E.spans /\ E.spans[c].parent = E.frames[i].span /\ c \notin Seen(E)
  <2>1. \A i \in 1..(n - 1) : \A c \in Pending(fr[i]) :
          c \in DOMAIN T.spans /\ T.spans[c].parent = fr[i].span /\ c \notin Seen(E)
    <3>1. \A i \in 1..(n - 1) : \A c \in Pending(fr[i]) :
            c \in DOMAIN T.spans /\ T.spans[c].parent = fr[i].span /\ c \notin Seen(T)
      BY <1>2, <1>3
    <3> QED
      BY <1>9, <3>1, Zenon
  <2>2. DOMAIN E.frames = 1..(n - 1) /\ E.frames = fr /\ E.spans = T.spans
    BY <1>1
  <2>3. ASSUME NEW i \in DOMAIN E.frames, NEW c \in Pending(E.frames[i])
        PROVE  c \in DOMAIN E.spans /\ E.spans[c].parent = E.frames[i].span /\ c \notin Seen(E)
    <3>1. i \in 1..(n - 1) /\ c \in Pending(fr[i]) /\ E.frames[i] = fr[i]
      BY <2>2, Zenon
    <3>2. c \in DOMAIN T.spans /\ T.spans[c].parent = fr[i].span /\ c \notin Seen(E)
      BY <2>1, <3>1, Zenon
    <3> QED
      BY <2>2, <3>1, <3>2, Zenon
  <2> QED
    BY <2>3, Zenon
<1>15. FramesSound(E)
  BY <1>1, <1>12, <1>13, <1>14, Zenon DEF FramesSound
<1>16. SeenSound(E)
  <2>1. /\ Seen(T) \subseteq DOMAIN T.spans
        /\ \A x \in Seen(T) : x = T.root \/ T.spans[x].parent \in Seen(T)
        /\ \A S \in SUBSET Seen(T) : S # {} => \E x \in S : T.spans[x].parent \notin S
    BY DEF VisitSound, SeenSound
  <2>2. \A x \in Seen(E) : x = T.root \/ T.spans[x].parent \in Seen(E)
    <3>1. CASE left = T.exited \cup {id}
      BY <1>7, <2>1, <3>1
    <3>2. CASE left = T.exited /\ Children(T, id) = {}
      <4>1. \A x \in DOMAIN T.spans : T.spans[x].parent # id
        BY <3>2 DEF Children
      <4> QED
        BY <1>8, <2>1, <3>2, <4>1
    <3> QED
      BY <3>1, <3>2
  <2>3. SUBSET Seen(E) \subseteq SUBSET Seen(T)
    BY <1>9
  <2> QED
    BY <1>1, <1>9, <2>1, <2>2, <2>3 DEF SeenSound
<1> QED
  BY <1>7, <1>8, <1>10, <1>11, <1>15, <1>16 DEF VisitSound

\* Between two visits nothing is seen.
LEMMA NothingSeen ==
  ASSUME NEW T, IsTree(T), T.frames = <<>>, T.exited = {}
  PROVE  VisitSound(T) /\ Seen(T) = {}
<1>1. Entered(T) = {} /\ DOMAIN T.frames = {}
  BY DEF Entered
<1>2. Seen(T) = {}
  BY <1>1 DEF Seen
<1>3. IsSequence(T.frames)
  BY DEF IsSequence
<1>4. FramesSound(T)
  BY <1>1, <1>3 DEF FramesSound
<1>5. SeenSound(T)
  BY <1>2 DEF SeenSound
<1> QED
  BY <1>2, <1>4, <1>5 DEF VisitSound

LEMMA RunStepSound ==
  ASSUME VisitInv, RunStep
  PROVE  VisitInv'
<1>1. PICK T : T = tree
  OBVIOUS
<1>2. PICK step : step = Head(steps)
  OBVIOUS
<1>3. T.frames = <<>> /\ steps # <<>> /\ tree' = visit(T, step, T.root) /\ steps' = steps
  BY <1>1, <1>2 DEF RunStep
<1>4. VisitSound(T) /\ IsSequence(steps) /\ T.exited = {} /\ GroupsNew(T, Len(steps), step.kind)
  BY <1>1, <1>2, <1>3 DEF VisitInv, KindOf
<1>5. Seen(T) = {} /\ IsTree(T)
  BY <1>3, <1>4, NothingSeen DEF VisitSound
<1>6. NextSpan(T, T.root)
  BY <1>3, <1>5 DEF NextSpan, IsTree
<1>7. Len(steps) \in Nat
  BY <1>4 DEF IsSequence
<1>8. PICK R : R = visit(T, step, T.root)
  OBVIOUS
<1>9. VisitSound(R) /\ GroupsNew(R, Len(steps), step.kind) /\ (R.frames = <<>> => R.exited = T.exited)
  BY <1>4, <1>6, <1>7, <1>8, VisitNext
<1>10. KindOf(steps) = step.kind
  BY <1>2, <1>3 DEF KindOf
<1> QED
  BY <1>3, <1>4, <1>8, <1>9, <1>10 DEF VisitInv

LEMMA VisitChildSound ==
  ASSUME VisitInv, VisitChild
  PROVE  VisitInv'
<1>1. PICK T : T = tree
  OBVIOUS
<1>2. PICK step : step = Head(steps)
  OBVIOUS
<1>3. PICK top : top = Last(T.frames)
  OBVIOUS
<1>4. T.frames # <<>> /\ steps' = steps
  BY <1>1 DEF VisitChild
<1>5. /\ VisitSound(T) /\ IsSequence(steps) /\ steps # <<>> /\ GroupsNew(T, Len(steps), step.kind)
  BY <1>1, <1>2, <1>4 DEF VisitInv, KindOf
<1>6. PICK n \in Nat : /\ n >= 1 /\ DOMAIN T.frames = 1..n /\ top = T.frames[n]
                       /\ IsSequence(Front(T.frames)) /\ DOMAIN Front(T.frames) = 1..(n - 1)
                       /\ \A i \in 1..(n - 1) : Front(T.frames)[i] = T.frames[i]
  BY <1>3, <1>4, <1>5, FrontFacts DEF VisitSound, FramesSound
<1>7. n \in 1..n /\ (\A i \in 1..(n - 1) : i \in 1..n /\ i # n) /\ \A i \in 1..n : i = n \/ i \in 1..(n - 1)
  BY <1>6
<1>8. PICK todo : todo = IF top.children # {} THEN top.children ELSE top.queue
  OBVIOUS
<1>9. PICK queue : queue = IF top.children # {} THEN top.queue ELSE {}
  OBVIOUS
<1>10. PICK id \in todo : tree' = visit(SetTop(T, [top EXCEPT !.children = todo \ {id}, !.queue = queue]), step, id)
  BY <1>1, <1>2, <1>3, <1>8, <1>9 DEF VisitChild, Top
<1>11. top = [span |-> top.span, children |-> top.children, queue |-> top.queue] /\ top.children \cap top.queue = {}
  BY <1>5, <1>6, <1>7 DEF VisitSound, FramesSound, IsFrame
<1>12. PICK f : f = [top EXCEPT !.children = todo \ {id}, !.queue = queue]
  OBVIOUS
<1>13. f = [span |-> top.span, children |-> todo \ {id}, queue |-> queue]
  <2>1. PICK rest : rest = todo \ {id}
    OBVIOUS
  <2>2. top = [span |-> top.span, children |-> top.children, queue |-> top.queue]
    BY <1>11
  <2>3. f = [top EXCEPT !.children = rest, !.queue = queue]
    BY <1>12, <2>1, Zenon
  <2>4. f = [span |-> top.span, children |-> rest, queue |-> queue]
    BY <2>2, <2>3
  <2> QED
    BY <2>1, <2>4, Zenon
<1>14. f.span = top.span /\ f.children = todo \ {id} /\ f.queue = queue
  BY <1>13
<1>15. IsFrame(f) /\ Pending(f) \subseteq Pending(top) /\ id \notin Pending(f) /\ id \in Pending(top)
  <2>1. CASE top.children # {}
    <3>1. todo = top.children /\ queue = top.queue
      BY <1>8, <1>9, <2>1
    <3> QED
      BY <1>11, <1>13, <1>14, <3>1 DEF IsFrame, Pending
  <2>2. CASE top.children = {}
    <3>1. todo = top.queue /\ queue = {}
      BY <1>8, <1>9, <2>2
    <3> QED
      BY <1>11, <1>13, <1>14, <3>1 DEF IsFrame, Pending
  <2> QED
    BY <2>1, <2>2
<1>16. PICK front : front = Front(T.frames)
  OBVIOUS
<1>17. PICK fr : fr = Append(front, f)
  OBVIOUS
<1>18. IsSequence(fr) /\ DOMAIN fr = 1..n /\ fr[n] = f /\ \A i \in 1..(n - 1) : fr[i] = T.frames[i]
  <2>1. PICK m \in Nat : m = n - 1
    BY <1>6
  <2>2. IsSequence(front) /\ DOMAIN front = 1..m /\ m + 1 = n
    BY <1>6, <1>16, <2>1
  <2>3. IsSequence(fr) /\ DOMAIN fr = 1..(m + 1) /\ fr[m + 1] = f /\ \A i \in 1..m : fr[i] = front[i]
    BY <1>17, <2>2, AppendFacts
  <2> QED
    BY <1>6, <1>16, <2>1, <2>2, <2>3
<1>19. PICK F : F = [T EXCEPT !.frames = fr]
  OBVIOUS
<1>20. F = SetTop(T, [top EXCEPT !.children = todo \ {id}, !.queue = queue])
  BY <1>12, <1>16, <1>17, <1>19 DEF SetTop
<1>21. tree' = visit(F, step, id)
  BY <1>10, <1>20
<1>22. \A i \in DOMAIN fr : IsFrame(fr[i]) /\ fr[i].span = T.frames[i].span /\ Pending(fr[i]) \subseteq Pending(T.frames[i])
  <2>1. \A i \in 1..n : IsFrame(T.frames[i])
    BY <1>5, <1>6 DEF VisitSound, FramesSound
  <2> QED
    BY <1>6, <1>7, <1>14, <1>15, <1>18, <2>1
<1>23. VisitSound(F) /\ SameFrames(T, F) /\ F.spans = T.spans /\ F.frames = fr
  <2>1. VisitSound(T) /\ IsSequence(fr) /\ DOMAIN fr = DOMAIN T.frames
    BY <1>5, <1>6, <1>18
  <2> QED
    BY <1>19, <1>22, <2>1, FramesChanged
<1>24. Seen(F) = Seen(T)
  BY <1>23, SameSeen
<1>25. id \in DOMAIN T.spans /\ T.spans[id].parent = top.span /\ id \notin Seen(T)
  BY <1>5, <1>6, <1>7, <1>15 DEF VisitSound, FramesSound
<1>26. NextSpan(F, id)
  <2>1. ASSUME NEW i \in 1..n PROVE id \notin Pending(fr[i])
    <3>1. CASE i = n
      BY <1>15, <1>18, <3>1
    <3>2. CASE i # n
      <4>1. SUFFICES ASSUME id \in Pending(T.frames[i]) PROVE FALSE
        BY <1>7, <1>18, <3>2
      <4>2. T.spans[id].parent = T.frames[i].span
        BY <1>5, <1>6, <4>1 DEF VisitSound, FramesSound
      <4>3. T.frames[i].span = T.frames[n].span
        BY <1>6, <1>25, <4>2
      <4> QED
        BY <1>5, <1>6, <1>7, <3>2, <4>3 DEF VisitSound, FramesSound
    <3> QED
      BY <3>1, <3>2
  <2>2. F.spans[id].parent \in Entered(F)
    BY <1>7, <1>14, <1>18, <1>23, <1>25 DEF Entered
  <2> QED
    BY <1>18, <1>23, <1>24, <1>25, <2>1, <2>2 DEF NextSpan
<1>27. GroupsNew(F, Len(steps), step.kind)
  BY <1>5, <1>23, <1>24 DEF GroupsNew
<1>28. Len(steps) \in Nat
  BY <1>5 DEF IsSequence
<1>29. PICK R : R = visit(F, step, id)
  OBVIOUS
<1>30. F.frames # <<>>
  BY <1>6, <1>7, <1>18, <1>23
<1>31. VisitSound(R) /\ GroupsNew(R, Len(steps), step.kind) /\ R.frames # <<>>
  BY <1>23, <1>26, <1>27, <1>28, <1>29, <1>30, VisitNext
<1>32. KindOf(steps) = step.kind
  BY <1>2, <1>5 DEF KindOf
<1> QED
  BY <1>4, <1>5, <1>21, <1>29, <1>31, <1>32 DEF VisitInv

LEMMA SetExited ==
  ASSUME NEW X, NEW left, NEW Z, Z = [X EXCEPT !.exited = left],
         X = [spans |-> X.spans, root |-> X.root, frames |-> X.frames, exited |-> X.exited, panic |-> X.panic]
  PROVE  Z = [spans |-> X.spans, root |-> X.root, frames |-> X.frames, exited |-> left, panic |-> X.panic]
OBVIOUS

\* Leaving a span rewrites it in its place, or deletes it if nothing is under it.
ExitDeletes(P, id, step, X) ==
    step.kind = "PruneChildless" /\ Children(P, id) = {} /\ id # P.root /\ X = Delete(P, {id})
ExitRewrites(P, id, X) ==
    \E sp : /\ IsSpan(sp) /\ sp.parent = P.spans[id].parent
           /\ X = [P EXCEPT !.spans = [P.spans EXCEPT ![id] = sp]]
LEMMA CompactRewrites ==
  ASSUME NEW P, IsTree(P), NEW id \in DOMAIN P.spans
  PROVE  ExitRewrites(P, id, CompactDuration(P, id))
<1>1. PICK X : X = CompactDuration(P, id)
  OBVIOUS
<1>2. PICK s : s = P.spans[id]
  OBVIOUS
<1>3. s = [parent |-> s.parent, pseudo |-> s.pseudo, source |-> s.source, logs |-> s.logs, start |-> s.start, end |-> s.end]
  BY <1>2 DEF IsTree, IsSpan
<1>4. /\ P = [spans |-> P.spans, root |-> P.root, frames |-> P.frames, exited |-> P.exited, panic |-> P.panic]
      /\ P.spans = [x \in DOMAIN P.spans |-> P.spans[x]]
  BY DEF IsTree
<1>5. X = P \/ \E a, b : X = [P EXCEPT !.spans[id].start = a, !.spans[id].end = b]
  BY <1>1 DEF CompactDuration
<1>6. CASE X = P
  <2>1. P.spans = [P.spans EXCEPT ![id] = s]
    BY <1>2, <1>4
  <2>2. P = [P EXCEPT !.spans = P.spans]
    BY <1>4
  <2>3. IsSpan(s)
    BY <1>3 DEF IsSpan
  <2> QED
    BY <1>1, <1>2, <1>6, <2>1, <2>2, <2>3 DEF ExitRewrites
<1>7. CASE \E a, b : X = [P EXCEPT !.spans[id].start = a, !.spans[id].end = b]
  <2>1. PICK a, b : X = [P EXCEPT !.spans[id].start = a, !.spans[id].end = b]
    BY <1>7
  <2>2. PICK sp : sp = [s EXCEPT !.start = a, !.end = b]
    OBVIOUS
  <2>3. sp = [parent |-> s.parent, pseudo |-> s.pseudo, source |-> s.source, logs |-> s.logs, start |-> a, end |-> b]
    BY <1>3, <2>2
  <2>4. IsSpan(sp) /\ sp.parent = s.parent
    BY <2>3 DEF IsSpan
  <2>5. X = [P EXCEPT !.spans = [P.spans EXCEPT ![id] = sp]]
    BY <1>2, <1>4, <2>1, <2>2
  <2> QED
    BY <1>1, <1>2, <2>4, <2>5 DEF ExitRewrites
<1> QED
  BY <1>5, <1>6, <1>7

LEMMA ExitEffect ==
  ASSUME NEW P, IsTree(P), NEW id \in DOMAIN P.spans, NEW step, NEW X, X = Exit(P, step, id)
  PROVE  ExitDeletes(P, id, step, X) \/ ExitRewrites(P, id, X)
<1>2. PICK s : s = P.spans[id]
  OBVIOUS
<1>3. s = [parent |-> s.parent, pseudo |-> s.pseudo, source |-> s.source, logs |-> s.logs, start |-> s.start, end |-> s.end]
  BY <1>2 DEF IsTree, IsSpan
<1>4. /\ P = [spans |-> P.spans, root |-> P.root, frames |-> P.frames, exited |-> P.exited, panic |-> P.panic]
      /\ P.spans = [x \in DOMAIN P.spans |-> P.spans[x]]
  BY DEF IsTree
<1>5. ASSUME X = P
      PROVE  ExitRewrites(P, id, X)
  <2>1. P.spans = [P.spans EXCEPT ![id] = s]
    BY <1>2, <1>4
  <2>2. P = [P EXCEPT !.spans = P.spans]
    BY <1>4
  <2>3. IsSpan(s)
    BY <1>3 DEF IsSpan
  <2> QED
    BY <1>2, <1>5, <2>1, <2>2, <2>3 DEF ExitRewrites
<1>6. CASE step.kind = "PruneChildless"
  <2>1. X = PruneChildless(P, id)
    BY <1>6 DEF Exit
  <2>2. CASE P.spans[id].pseudo # "none" /\ Children(P, id) = {} /\ id # P.root
    <3>1. X = Delete(P, {id})
      BY <2>1, <2>2 DEF PruneChildless
    <3> QED
      BY <1>6, <2>2, <3>1 DEF ExitDeletes
  <2>3. CASE ~(P.spans[id].pseudo # "none" /\ Children(P, id) = {} /\ id # P.root)
    <3>1. X = P
      BY <2>1, <2>3 DEF PruneChildless
    <3> QED
      BY <1>5, <3>1
  <2> QED
    BY <2>2, <2>3
<1>7. CASE step.kind = "CompactDuration"
  <2>1. X = CompactDuration(P, id)
    BY <1>7 DEF Exit
  <2> QED
    BY <2>1, CompactRewrites
<1>8. CASE step.kind \notin {"PruneChildless", "CompactDuration"}
  <2>1. X = P
    BY <1>8 DEF Exit
  <2> QED
    BY <1>5, <2>1
<1> QED
  BY <1>6, <1>7, <1>8

MarkExited(X, id) == [X EXCEPT !.exited = X.exited \cup ({id} \cap DOMAIN X.spans)]
HasLeft(T, fr, step, X, Z) ==
    /\ VisitSound(Z) /\ Z.frames = fr /\ X.frames = fr /\ DOMAIN Z.spans \subseteq DOMAIN T.spans
    /\ step.kind = "GroupByTraceSource" => Seen(Z) = Seen(T)
LEMMA ExitSound ==
  ASSUME NEW T, NEW n, NEW id, NEW fr, Leaving(T, n, id, fr),
         NEW step, NEW X, X = Exit([T EXCEPT !.frames = fr], step, id),
         NEW Z, Z = MarkExited(X, id)
  PROVE  HasLeft(T, fr, step, X, Z)
<1>0. /\ VisitSound(T) /\ n \in Nat /\ n >= 1 /\ DOMAIN T.frames = 1..n
      /\ id = T.frames[n].span /\ Pending(T.frames[n]) = {}
      /\ \A i \in 1..(n - 1) : fr[i] = T.frames[i]
  BY DEF Leaving
<1>1. PICK P : P = [T EXCEPT !.frames = fr]
  OBVIOUS
<1>2. P = [spans |-> T.spans, root |-> T.root, frames |-> fr, exited |-> T.exited, panic |-> FALSE]
  BY <1>0, <1>1 DEF VisitSound, IsTree
<1>3. P.spans = T.spans /\ P.root = T.root /\ P.frames = fr /\ P.exited = T.exited /\ P.panic = FALSE
  BY <1>2
<1>4. IsTree(P)
  BY <1>0, <1>2, <1>3 DEF VisitSound, IsTree
<1>5. n \in 1..n
  BY <1>0
<1>6. id \in DOMAIN T.spans
  <2>1. id \in Seen(T)
    BY <1>0, <1>5 DEF Seen, Entered
  <2> QED
    BY <1>0, <2>1 DEF VisitSound, SeenSound
<1>7. ASSUME ExitDeletes(P, id, step, X)
      PROVE  HasLeft(T, fr, step, X, Z)
  <2>1. step.kind = "PruneChildless" /\ Children(P, id) = {} /\ id # P.root /\ X = Delete(P, {id})
    BY <1>7 DEF ExitDeletes
  <2>2. Children(T, id) = {}
    BY <1>3, <2>1 DEF Children
  <2>3. PICK left : left = T.exited
    OBVIOUS
  <2>4. P = WithFrames(T, fr, left)
    BY <1>2, <2>3 DEF WithFrames
  <2>5. VisitSound(P) /\ (\A i \in DOMAIN fr : id \notin Pending(fr[i])) /\ id \notin Seen(P)
    BY <2>2, <2>3, <2>4, TopLeaves
  <2>6. {id} \subseteq DOMAIN P.spans /\ P.root \notin {id}
    BY <1>3, <1>6, <2>1
  <2>7. \A x \in {id} : x \notin Seen(P) /\ \A i \in DOMAIN P.frames : x \notin Pending(P.frames[i])
    BY <1>3, <2>5
  <2>8. VisitSound(X) /\ X.frames = P.frames /\ DOMAIN X.spans \subseteq DOMAIN P.spans \ {id}
    <3>1. Unvisited(P, {id})
      BY <2>6, <2>7 DEF Unvisited
    <3>2. VisitSound(P) /\ X = Delete(P, {id})
      BY <2>1, <2>5
    <3> QED
      BY <3>1, <3>2, DeleteSound
  <2>9. X.exited \cup ({id} \cap DOMAIN X.spans) = X.exited
    BY <2>8
  <2>10. X = [spans |-> X.spans, root |-> X.root, frames |-> X.frames, exited |-> X.exited, panic |-> X.panic]
    BY <2>8 DEF VisitSound, IsTree
  <2>11. Z = X
    <3>1. Z = [X EXCEPT !.exited = X.exited]
      BY <2>9 DEF MarkExited
    <3> QED
      BY <2>10, <3>1
  <2> QED
    BY <1>3, <2>1, <2>8, <2>11 DEF HasLeft
<1>8. ASSUME ExitRewrites(P, id, X)
      PROVE  HasLeft(T, fr, step, X, Z)
  <2>1. PICK sp : IsSpan(sp) /\ sp.parent = P.spans[id].parent /\ X = [P EXCEPT !.spans = [P.spans EXCEPT ![id] = sp]]
    BY <1>8 DEF ExitRewrites
  <2>2. PICK s2 : s2 = [T.spans EXCEPT ![id] = sp]
    OBVIOUS
  <2>3. DOMAIN s2 = DOMAIN T.spans
    BY <2>2
  <2>4. PICK Y : Y = [T EXCEPT !.spans = s2]
    OBVIOUS
  <2>5. VisitSound(Y) /\ SameFrames(T, Y) /\ Y.frames = T.frames
    BY <1>0, <1>3, <1>6, <2>1, <2>2, <2>4, Rewritten
  <2>6. Y.spans = s2 /\ Y.root = T.root /\ Y.exited = T.exited
    BY <1>0, <2>4 DEF VisitSound, IsTree
  <2>7. X = [spans |-> s2, root |-> T.root, frames |-> fr, exited |-> T.exited, panic |-> FALSE]
    <3>1. X = [P EXCEPT !.spans = s2]
      BY <1>3, <2>1, <2>2
    <3> QED
      BY <1>2, <3>1
  <2>8. X.spans = s2 /\ X.exited = T.exited /\ X.frames = fr
    BY <2>7
  <2>9. PICK left : left = T.exited \cup {id}
    OBVIOUS
  <2>10. X.exited \cup ({id} \cap DOMAIN X.spans) = left
    BY <1>6, <2>3, <2>8, <2>9
  <2>11. Z = [spans |-> s2, root |-> T.root, frames |-> fr, exited |-> left, panic |-> FALSE]
    <3>1. Z = [X EXCEPT !.exited = left]
      BY <2>10 DEF MarkExited
    <3>2. X = [spans |-> X.spans, root |-> X.root, frames |-> X.frames, exited |-> X.exited, panic |-> X.panic]
      BY <2>7
    <3>3. Z = [spans |-> X.spans, root |-> X.root, frames |-> X.frames, exited |-> left, panic |-> X.panic]
      BY <3>1, <3>2, SetExited
    <3>4. X.spans = s2 /\ X.root = T.root /\ X.frames = fr /\ X.panic = FALSE
      BY <2>7
    <3> QED
      BY <3>3, <3>4, Zenon
  <2>12. Z = WithFrames(Y, fr, left)
    BY <2>6, <2>11 DEF WithFrames
  <2>13. Leaving(Y, n, id, fr)
    BY <2>5 DEF Leaving
  <2>14. VisitSound(Z) /\ Seen(Z) = Seen(Y)
    <3>1. left = Y.exited \cup {id}
      BY <2>6, <2>9
    <3> QED
      BY <2>12, <2>13, <3>1, TopLeaves
  <2>15. Seen(Y) = Seen(T)
    BY <2>5, SameSeen
  <2>16. Z.frames = fr /\ Z.spans = s2
    BY <2>11
  <2> QED
    BY <2>3, <2>8, <2>14, <2>15, <2>16 DEF HasLeft
<1>9. X = Exit(P, step, id)
  BY <1>1
<1>10. id \in DOMAIN P.spans
  BY <1>3, <1>6
<1> QED
  BY <1>4, <1>7, <1>8, <1>9, <1>10, ExitEffect

LEMMA LeaveSpanSound ==
  ASSUME VisitInv, LeaveSpan
  PROVE  VisitInv'
<1>1. PICK T : T = tree
  OBVIOUS
<1>2. PICK step : step = Head(steps)
  OBVIOUS
<1>3. PICK top : top = Last(T.frames)
  OBVIOUS
<1>4. T.frames # <<>> /\ top.children = {} /\ top.queue = {}
  BY <1>1, <1>3 DEF LeaveSpan, Top
<1>5. /\ VisitSound(T) /\ IsSequence(steps) /\ steps # <<>> /\ GroupsNew(T, Len(steps), step.kind)
  BY <1>1, <1>2, <1>4 DEF VisitInv, KindOf
<1>6. PICK fr : fr = Front(T.frames)
  OBVIOUS
<1>7. PICK n \in Nat : /\ n >= 1 /\ Len(T.frames) = n /\ DOMAIN T.frames = 1..n /\ top = T.frames[n]
                       /\ IsSequence(fr) /\ DOMAIN fr = 1..(n - 1)
                       /\ \A i \in 1..(n - 1) : fr[i] = T.frames[i]
                       /\ fr = <<>> <=> n = 1
  <2>1. PICK F : F = T.frames
    OBVIOUS
  <2>2. IsSequence(F) /\ F # <<>>
    BY <1>4, <1>5, <2>1 DEF VisitSound, FramesSound
  <2>3. PICK n \in Nat : /\ n >= 1 /\ Len(F) = n /\ DOMAIN F = 1..n /\ Last(F) = F[n]
                         /\ IsSequence(Front(F)) /\ DOMAIN Front(F) = 1..(n - 1)
                         /\ \A i \in 1..(n - 1) : Front(F)[i] = F[i]
                         /\ Front(F) = <<>> <=> n = 1
    BY <2>2, FrontFacts, Zenon
  <2> QED
    BY <1>3, <1>6, <2>1, <2>3, Zenon
<1>8. PICK id : id = top.span
  OBVIOUS
<1>9. PICK X : X = Exit([T EXCEPT !.frames = fr], step, id)
  OBVIOUS
<1>10. PICK Z : Z = MarkExited(X, id)
  OBVIOUS
<1>11. /\ VisitSound(Z) /\ Z.frames = fr /\ X.frames = fr /\ DOMAIN Z.spans \subseteq DOMAIN T.spans
       /\ step.kind = "GroupByTraceSource" => Seen(Z) = Seen(T)
  <2>1. id = T.frames[n].span /\ Pending(T.frames[n]) = {}
    BY <1>4, <1>7, <1>8 DEF Pending
  <2>2. Leaving(T, n, id, fr)
    BY <1>5, <1>7, <2>1, Zenon DEF Leaving
  <2>3. HasLeft(T, fr, step, X, Z)
    BY <1>9, <1>10, <2>2, ExitSound
  <2> QED
    BY <2>3 DEF HasLeft
<1>12. PICK E : E = tree'
  OBVIOUS
<1>13. E = [X EXCEPT !.exited = IF X.frames = <<>> THEN {} ELSE X.exited \cup ({id} \cap DOMAIN X.spans)]
  BY <1>1, <1>2, <1>3, <1>6, <1>8, <1>9, <1>12 DEF LeaveSpan, Top
<1>14. steps' = IF n = 1 THEN Tail(steps) ELSE steps
  BY <1>1, <1>7 DEF LeaveSpan
<1>15. PICK m \in Nat : m = Len(steps) /\ m >= 1
  BY <1>5 DEF IsSequence
<1>16. KindOf(steps) = step.kind
  BY <1>2, <1>5 DEF KindOf
<1>17. CASE n = 1
  <2>1. E = [Z EXCEPT !.exited = {}]
    <3>1. X.frames = <<>>
      BY <1>7, <1>11, <1>17
    <3>2. E = [X EXCEPT !.exited = {}]
      BY <1>13, <3>1
    <3> QED
      BY <1>10, <3>2 DEF MarkExited
  <2>2. Z = [spans |-> Z.spans, root |-> Z.root, frames |-> Z.frames, exited |-> Z.exited, panic |-> FALSE] /\ Z.panic = FALSE
    BY <1>11 DEF VisitSound, IsTree
  <2>3. E = [spans |-> Z.spans, root |-> Z.root, frames |-> Z.frames, exited |-> {}, panic |-> FALSE]
    BY <2>1, <2>2
  <2>4. E.spans = Z.spans /\ E.root = Z.root /\ E.frames = Z.frames /\ E.exited = {} /\ E.panic = FALSE
    BY <2>3
  <2>5. IsTree(E)
    BY <1>11, <2>3, <2>4 DEF VisitSound, IsTree
  <2>6. E.frames = <<>>
    BY <1>7, <1>11, <1>17, <2>4
  <2>7. VisitSound(E)
    BY <2>4, <2>5, <2>6, NothingSeen
  <2>8. PICK k \in Nat : Len(Tail(steps)) = k /\ k < m
    BY <1>5, <1>15 DEF IsSequence
  <2>9. IsSequence(Tail(steps))
    <3>1. PICK S : steps \in Seq(S)
      BY <1>5 DEF IsSequence
    <3>2. PICK t : t = Tail(steps)
      OBVIOUS
    <3>3. t \in Seq(S)
      BY <1>5, <3>1, <3>2
    <3>4. PICK k1 \in Nat : DOMAIN t = 1..k1
      BY <3>3
    <3>5. t = [i \in 1..k1 |-> t[i]]
      BY <3>3, <3>4
    <3>6. IsSequence(t)
      BY <3>4, <3>5 DEF IsSequence
    <3> QED
      BY <3>2, <3>6
  <2>10. GroupsNew(E, k, KindOf(Tail(steps)))
    BY <1>5, <1>11, <1>15, <2>4, <2>8 DEF GroupsNew
  <2>11. steps' = Tail(steps)
    BY <1>14, <1>17
  <2> QED
    BY <1>12, <2>4, <2>6, <2>7, <2>8, <2>9, <2>10, <2>11 DEF VisitInv, KindOf
<1>18. CASE n # 1
  <2>1. E = Z
    <3>1. X.frames # <<>>
      BY <1>7, <1>11, <1>18
    <3> QED
      BY <1>10, <1>13, <3>1 DEF MarkExited
  <2>2. GroupsNew(Z, m, step.kind)
    BY <1>5, <1>11, <1>15 DEF GroupsNew
  <2>3. Z.frames # <<>> /\ steps' = steps
    BY <1>7, <1>11, <1>14, <1>18
  <2> QED
    BY <1>5, <1>11, <1>12, <1>15, <1>16, <2>1, <2>2, <2>3 DEF VisitInv
<1> QED
  BY <1>17, <1>18

-----------------------------------------------------------------------------
(* The tree while it is built *)

LEMMA BuiltNotNone ==
  ASSUME NEW x, Built(x)
  PROVE  x # NoSpan
BY DEF Built, NoSpan

LEMMA OnlyFacts ==
  ASSUME NEW id, NEW span
  PROVE  DOMAIN Only(id, span) = {id} /\ Only(id, span)[id] = span
BY DEF Only

\* One of the spans without a parent is the root of a new tree.
LEMMA NewSpanTreeSound ==
  ASSUME NEW s, s = [x \in DOMAIN s |-> s[x]], \A x \in DOMAIN s : IsSpan(s[x]) /\ Built(x),
         NEW r \in DOMAIN s, s[r].parent = NoSpan,
         NEW E, E = NewSpanTree(s)
  PROVE  IsTree(E) /\ E.frames = <<>> /\ E.exited = {} /\ E.spans = s
<1>1. PICK roots : roots = {id \in DOMAIN s : s[id].parent = NoSpan}
  OBVIOUS
<1>2. r \in roots /\ roots # {}
  BY <1>1
<1>3. PICK q : q = CHOOSE id \in roots : TRUE
  OBVIOUS
<1>4. q \in roots
  BY <1>2, <1>3
<1>5. PICK p : p = (roots = {})
  OBVIOUS
<1>6. E = [spans |-> s, root |-> q, frames |-> <<>>, exited |-> {}, panic |-> p]
  BY <1>1, <1>2, <1>3, <1>5 DEF NewSpanTree
<1>7. E.spans = s /\ E.root = q /\ E.frames = <<>> /\ E.exited = {} /\ E.panic = p
  BY <1>6
<1>8. p = FALSE
  BY <1>2, <1>5
<1>9. E = [spans |-> E.spans, root |-> E.root, frames |-> E.frames, exited |-> E.exited, panic |-> E.panic]
  BY <1>6
<1>10. q \in DOMAIN s /\ s[q].parent = NoSpan
  BY <1>1, <1>4
<1>11. \A x \in DOMAIN s : x # NoSpan
  BY BuiltNotNone
<1> QED
  BY <1>7, <1>8, <1>9, <1>10, <1>11 DEF IsTree

LEMMA ObjectTreeSound ==
  ASSUME LoadedSound, NEW k \in DOMAIN objects
  PROVE  ObjectRoot(ObjectTree(k), RootOf(k))
<1>1. PICK T : T = ObjectTree(k)
  OBVIOUS
<1>2. PICK r : r = RootOf(k)
  OBVIOUS
<1>3. PICK S : S = objects[k].spans
  OBVIOUS
<1>4. PICK below : below = [id \in {s.id : s \in S} |->
             LET s == CHOOSE x \in S : x.id = id
             IN  [parent |-> r, pseudo |-> IF IsLink(s) THEN "link" ELSE "none",
                  source |-> s.source, logs |-> {}, start |-> s.at, end |-> s.at + 1]]
  OBVIOUS
<1>5. PICK top : top = ObjectSpan(k)
  OBVIOUS
<1>6. PICK new : new = Only(r, top)
  OBVIOUS
<1>7. PICK all : all = Put(below, new)
  OBVIOUS
<1>8. T = NewSpanTree(all)
  BY <1>1, <1>2, <1>3, <1>4, <1>5, <1>6, <1>7 DEF ObjectTree
<1>9. DOMAIN below = {s.id : s \in S} /\ \A x \in DOMAIN below : IsSpan(below[x]) /\ below[x].parent = r
  <2>1. DOMAIN below = {s.id : s \in S}
    BY <1>4
  <2>2. ASSUME NEW x \in DOMAIN below PROVE IsSpan(below[x]) /\ below[x].parent = r
    <3>1. PICK a, b, c, d : below[x] = [parent |-> r, pseudo |-> a, source |-> b, logs |-> {}, start |-> c, end |-> d]
      BY <1>4, <2>1, <2>2
    <3> QED
      BY <3>1 DEF IsSpan
  <2> QED
    BY <2>1, <2>2
<1>10. r[1] = "root" /\ r # NoSpan /\ Built(r)
  BY <1>2 DEF RootOf, NoSpan, Built
<1>11. \A x \in DOMAIN below : Built(x) /\ x # r
  <2>1. S \subseteq Spans
    <3>1. SoundObject(objects[k], k, stored) /\ stored \subseteq Spans
      BY DEF LoadedSound
    <3> QED
      BY <1>3, <3>1 DEF SoundObject
  <2>2. \A s \in S : Built(s.id) /\ s.id[1] # "root"
    BY <2>1, IdsAssumption DEF Built
  <2> QED
    BY <1>9, <1>10, <2>2
<1>12. top = [parent |-> NoSpan, pseudo |-> "object", source |-> "object", logs |-> {}, start |-> objects[k].start, end |-> objects[k].end]
  BY <1>5 DEF ObjectSpan
<1>13. IsSpan(top) /\ top.parent = NoSpan /\ top.source = "object"
  BY <1>12 DEF IsSpan
<1>14. DOMAIN new = {r} /\ new[r] = top
  BY <1>6, OnlyFacts
<1>15. /\ DOMAIN all = DOMAIN below \cup {r} /\ all = [x \in DOMAIN all |-> all[x]]
       /\ all[r] = top /\ \A x \in DOMAIN below : all[x] = below[x]
  BY <1>7, <1>11, <1>14 DEF Put
<1>16. \A x \in DOMAIN all : IsSpan(all[x]) /\ Built(x)
  BY <1>9, <1>10, <1>11, <1>13, <1>15
<1>17. r \in DOMAIN all /\ all[r].parent = NoSpan
  BY <1>13, <1>15
<1>18. IsTree(T) /\ T.frames = <<>> /\ T.exited = {} /\ T.spans = all
  BY <1>8, <1>15, <1>16, <1>17, NewSpanTreeSound
<1>19. T.root = r
  <2>1. T.root \in DOMAIN all /\ all[T.root].parent = NoSpan
    BY <1>18 DEF IsTree
  <2>2. \A x \in DOMAIN below : all[x].parent # NoSpan
    BY <1>9, <1>10, <1>15
  <2> QED
    BY <1>15, <2>1, <2>2
<1> QED
  BY <1>1, <1>2, <1>13, <1>15, <1>16, <1>18, <1>19 DEF ObjectRoot

\* Add while nothing is visited.
LEMMA AddBuilt ==
  ASSUME NEW T, NEW r, ObjectRoot(T, r), NEW id, Built(id), id # r, NEW span, IsSpan(span), NEW p,
         NEW E, E = Add(T, Only(id, span), p)
  PROVE  ObjectRoot(E, r)
<1>1. IsTree(T) /\ T.frames = <<>> /\ T.exited = {} /\ T.root = r /\ T.spans[r].source = "object"
      /\ \A x \in DOMAIN T.spans : Built(x)
  BY DEF ObjectRoot
<1>2. VisitSound(T) /\ Seen(T) = {}
  BY <1>1, NothingSeen
<1>3. PICK new : new = Only(id, span)
  OBVIOUS
<1>4. DOMAIN new = {id} /\ new[id] = span
  BY <1>3, OnlyFacts
<1>5. DOMAIN T.frames = {}
  BY <1>1
<1>6. \A x \in DOMAIN new : /\ IsSpan(new[x]) /\ x # NoSpan /\ x # T.root /\ x \notin Seen(T)
                            /\ \A i \in DOMAIN T.frames : x \notin Pending(T.frames[i])
  BY <1>1, <1>2, <1>4, <1>5, BuiltNotNone
<1>7. p \notin T.exited /\ E = Add(T, new, p)
  BY <1>1, <1>3
<1>8. /\ VisitSound(E) /\ SameFrames(T, E) /\ DOMAIN E.spans = DOMAIN T.spans \cup DOMAIN new
      /\ \A x \in DOMAIN T.spans \ DOMAIN new : E.spans[x] = T.spans[x]
  BY <1>2, <1>6, <1>7, AddSound
<1>9. IsTree(E) /\ E.root = r /\ E.exited = {} /\ DOMAIN E.frames = {} /\ IsSequence(E.frames)
  BY <1>1, <1>5, <1>8 DEF VisitSound, SameFrames, FramesSound
<1>10. E.frames = <<>>
  BY <1>9 DEF IsSequence
<1>11. E.spans[r] = T.spans[r]
  BY <1>1, <1>4, <1>8 DEF IsTree
<1> QED
  BY <1>1, <1>4, <1>8, <1>9, <1>10, <1>11 DEF ObjectRoot

LEMMA AddTreeBuilt ==
  ASSUME NEW T, NEW r, ObjectRoot(T, r), NEW other, NEW q, ObjectRoot(other, q), q # r, NEW p,
         NEW E, E = AddTree(T, other, p)
  PROVE  ObjectRoot(E, r)
<1>1. PICK A : A = Add(T, Only(q, other.spans[q]), p)
  OBVIOUS
<1>2. /\ IsTree(other) /\ other.root = q /\ \A x \in DOMAIN other.spans : Built(x)
  BY DEF ObjectRoot
<1>3. /\ q \in DOMAIN other.spans /\ Built(q)
      /\ \A x \in DOMAIN other.spans : IsSpan(other.spans[x])
  BY <1>2 DEF IsTree
<1>4. PICK top : top = other.spans[q]
  OBVIOUS
<1>5. ObjectRoot(A, r)
  <2>1. IsSpan(top) /\ A = Add(T, Only(q, top), p)
    BY <1>1, <1>3, <1>4
  <2> QED
    BY <1>3, <2>1, AddBuilt
<1>6. /\ IsTree(A) /\ A.frames = <<>> /\ A.exited = {} /\ A.root = r /\ A.spans[r].source = "object"
      /\ \A x \in DOMAIN A.spans : Built(x)
  BY <1>5 DEF ObjectRoot
<1>7. PICK s : s = Put(other.spans, A.spans)
  OBVIOUS
<1>8. E = [A EXCEPT !.spans = s]
  BY <1>1, <1>2, <1>7 DEF AddTree
<1>9. /\ DOMAIN s = DOMAIN other.spans \cup DOMAIN A.spans /\ s = [x \in DOMAIN s |-> s[x]]
      /\ \A x \in DOMAIN A.spans : s[x] = A.spans[x]
      /\ \A x \in DOMAIN other.spans : x \notin DOMAIN A.spans => s[x] = other.spans[x]
  BY <1>7 DEF Put
<1>10. A = [spans |-> A.spans, root |-> A.root, frames |-> A.frames, exited |-> A.exited, panic |-> A.panic] /\ A.panic = FALSE
  BY <1>6 DEF IsTree
<1>11. E = [spans |-> s, root |-> A.root, frames |-> A.frames, exited |-> A.exited, panic |-> A.panic]
  BY <1>8, <1>10
<1>12. E.spans = s /\ E.root = r /\ E.frames = <<>> /\ E.exited = {} /\ E.panic = FALSE
  BY <1>6, <1>10, <1>11
<1>13. \A x \in DOMAIN A.spans : IsSpan(A.spans[x])
  BY <1>6 DEF IsTree
<1>14. \A x \in DOMAIN s : IsSpan(s[x]) /\ Built(x)
  BY <1>2, <1>3, <1>6, <1>9, <1>13
<1>15. r \in DOMAIN A.spans /\ A.spans[r].parent = NoSpan
  BY <1>6 DEF IsTree
<1>16. r \in DOMAIN s /\ s[r] = A.spans[r]
  BY <1>9, <1>15
<1>17. IsTree(E)
  <2>1. E = [spans |-> E.spans, root |-> E.root, frames |-> E.frames, exited |-> E.exited, panic |-> E.panic]
    BY <1>11
  <2>2. \A x \in DOMAIN s : x # NoSpan
    BY <1>14, BuiltNotNone
  <2> QED
    BY <1>9, <1>12, <1>14, <1>15, <1>16, <2>1, <2>2 DEF IsTree
<1> QED
  BY <1>6, <1>12, <1>14, <1>16, <1>17 DEF ObjectRoot

\* What mergeLinkedTraces has built.
BuiltSt(st) ==
    /\ st = [tree |-> st.tree, inTree |-> st.inTree, todo |-> st.todo]
    /\ BuiltSound(st.tree, st.inTree)

LEMMA AttachBuilt ==
  ASSUME LoadedSound, shown.members \subseteq DOMAIN objects, NEW subj, NEW link, NEW st, BuiltSt(st)
  PROVE  BuiltSt(attach(subj, link, st))
<1>1. PICK u : u = attach(subj, link, st)
  OBVIOUS
<1>2. PICK k \in st.inTree : ObjectRoot(st.tree, RootOf(k))
  BY DEF BuiltSt, BuiltSound
<1>3. st = [tree |-> st.tree, inTree |-> st.inTree, todo |-> st.todo]
  BY DEF BuiltSt
<1>4. PICK r : r = RootOf(k)
  OBVIOUS
<1>5. PICK id : id = <<"class", link.id, 0>>
  OBVIOUS
<1>6. PICK own : own = RootOf(subj)
  OBVIOUS
<1>7. PICK T : T = IF link.class = "" THEN st.tree ELSE Add(st.tree, Only(id, createVirtualSpan(subj)), own)
  OBVIOUS
<1>8. PICK under : under = IF link.class = "" THEN own ELSE id
  OBVIOUS
<1>9. u = IF link.to \in st.inTree \/ link.to \notin shown.members THEN [st EXCEPT !.tree = T]
          ELSE [tree |-> AddTree(T, ObjectTree(link.to), under),
                inTree |-> st.inTree \cup {link.to}, todo |-> Append(st.todo, link.to)]
  BY <1>1, <1>5, <1>6, <1>7, <1>8 DEF attach
<1>10. ObjectRoot(T, r)
  <2>1. CASE link.class = ""
    BY <1>2, <1>4, <1>7, <2>1
  <2>2. CASE link.class # ""
    <3>1. PICK span : span = createVirtualSpan(subj)
      OBVIOUS
    <3>2. span = [parent |-> NoSpan, pseudo |-> "linkClass", source |-> "none", logs |-> {},
                  start |-> objects[subj].start, end |-> objects[subj].end]
      BY <3>1 DEF createVirtualSpan, ObjectSpan
    <3>3. IsSpan(span)
      BY <3>2 DEF IsSpan
    <3>4. id[1] = "class" /\ r[1] = "root"
      BY <1>4, <1>5 DEF RootOf
    <3>5. Built(id) /\ id # r
      BY <3>4 DEF Built
    <3>6. T = Add(st.tree, Only(id, span), own)
      BY <1>7, <2>2, <3>1
    <3>7. PICK S : S = st.tree
      OBVIOUS
    <3>8. ObjectRoot(S, r) /\ T = Add(S, Only(id, span), own)
      BY <1>2, <1>4, <3>6, <3>7
    <3> QED
      BY <3>3, <3>5, <3>8, AddBuilt
  <2> QED
    BY <2>1, <2>2
<1>11. CASE link.to \in st.inTree \/ link.to \notin shown.members
  <2>1. u = [tree |-> T, inTree |-> st.inTree, todo |-> st.todo]
    BY <1>3, <1>9, <1>11
  <2>2. u.tree = T /\ u.inTree = st.inTree /\ u = [tree |-> u.tree, inTree |-> u.inTree, todo |-> u.todo]
    BY <2>1
  <2>3. BuiltSound(T, st.inTree)
    BY <1>4, <1>10 DEF BuiltSound
  <2> QED
    BY <1>1, <2>2, <2>3 DEF BuiltSt
<1>12. CASE ~(link.to \in st.inTree \/ link.to \notin shown.members)
  <2>1. PICK other : other = ObjectTree(link.to)
    OBVIOUS
  <2>2. PICK q : q = RootOf(link.to)
    OBVIOUS
  <2>3. ObjectRoot(other, q)
    BY <1>12, <2>1, <2>2, ObjectTreeSound
  <2>4. q # r
    <3>1. q[2] = link.to /\ r[2] = k
      BY <1>4, <2>2 DEF RootOf
    <3>2. link.to # k
      BY <1>12
    <3> QED
      BY <3>1, <3>2
  <2>5. PICK E : E = AddTree(T, other, under)
    OBVIOUS
  <2>6. ObjectRoot(E, r)
    BY <1>10, <2>3, <2>4, <2>5, AddTreeBuilt
  <2>7. PICK todo : todo = Append(st.todo, link.to)
    OBVIOUS
  <2>8. u = [tree |-> E, inTree |-> st.inTree \cup {link.to}, todo |-> todo]
    BY <1>9, <1>12, <2>1, <2>5, <2>7
  <2>9. /\ u.tree = E /\ u.inTree = st.inTree \cup {link.to}
        /\ u = [tree |-> u.tree, inTree |-> u.inTree, todo |-> u.todo]
    BY <2>8
  <2>10. BuiltSound(E, st.inTree \cup {link.to})
    <3>1. k \in st.inTree \cup {link.to}
      OBVIOUS
    <3> QED
      BY <1>4, <2>6, <3>1 DEF BuiltSound
  <2> QED
    BY <1>1, <2>9, <2>10 DEF BuiltSt
<1> QED
  BY <1>11, <1>12

LEMMA AttachAllBuilt ==
  ASSUME LoadedSound, shown.members \subseteq DOMAIN objects,
         NEW subj, NEW order, Len(order) \in Nat, NEW start, BuiltSt(start)
  PROVE  BuiltSt(attachAll(subj, order, start)[Len(order)])
<1>1. PICK g : g = attachAll(subj, order, start)
  OBVIOUS
<1>2. g[0] = start /\ \A i \in 1..Len(order) : g[i] = attach(subj, order[i], g[i - 1])
  <2>1. Loop("attach", subj, subj, order, start, Len(order), g)
    BY <1>1, AttachLoop, Zenon
  <2>2. g[0] = start /\ \A i \in 1..Len(order) : g[i] = Step("attach", subj, subj, order[i], g[i - 1])
    BY <2>1 DEF Loop
  <2> QED
    BY <2>2 DEF Step
<1>3. PICK N : N = {n \in 0..Len(order) : ~BuiltSt(g[n])}
  OBVIOUS
<1>4. SUFFICES ASSUME N # {} PROVE FALSE
  <2>1. Len(order) \in 0..Len(order)
    OBVIOUS
  <2> QED
    BY <1>1, <1>3, <2>1
<1>5. N \in SUBSET Nat
  BY <1>3
<1>6. PICK n \in N : \A y \in N : n <= y
  BY <1>4, <1>5, FirstNumber
<1>7. n \in Nat /\ n <= Len(order) /\ ~BuiltSt(g[n])
  BY <1>3
<1>8. CASE n = 0
  BY <1>2, <1>7, <1>8
<1>9. CASE n # 0
  <2>1. n - 1 \in 0..Len(order) /\ ~(n <= n - 1) /\ n \in 1..Len(order)
    BY <1>7, <1>9
  <2>2. PICK prev : prev = g[n - 1]
    OBVIOUS
  <2>3. BuiltSt(prev)
    BY <1>3, <1>6, <2>1, <2>2
  <2>4. g[n] = attach(subj, order[n], prev)
    BY <1>2, <2>1, <2>2
  <2>5. BuiltSt(attach(subj, order[n], prev))
    BY <2>3, AttachBuilt
  <2> QED
    BY <1>7, <2>4, <2>5
<1> QED
  BY <1>8, <1>9

LEMMA mergeLinkedBuilds ==
  ASSUME ReaderInv, BuiltSound(tree, shown.inTree), mergeLinkedTraces
  PROVE  BuiltSound(tree', shown'.inTree)
<1>1. phase = "merge" /\ shown.todo # <<>>
  BY DEF mergeLinkedTraces
<1>2. PICK sh : sh = shown
  OBVIOUS
<1>3. TreeSoundIn(objects, sh) /\ LoadedSound
  BY <1>1, <1>2 DEF ReaderInv, TreeSound
<1>4. sh.members \subseteq DOMAIN objects /\ sh.inTree \subseteq sh.members /\ sh.todo \in Seq(sh.inTree)
  BY <1>3 DEF TreeSoundIn
<1>5. PICK subj : subj = Last(sh.todo)
  OBVIOUS
<1>6. subj \in sh.inTree
  BY <1>1, <1>2, <1>4, <1>5, TakeLast
<1>7. PICK down : down = {l \in objects[subj].links : l.role = "child"}
  OBVIOUS
<1>8. IsFiniteSet(down)
  <2>1. SoundObject(objects[subj], subj, stored) /\ stored \subseteq Spans
    BY <1>3, <1>4, <1>6 DEF LoadedSound
  <2>2. down \in SUBSET Spans
    BY <1>7, <2>1 DEF SoundObject, LinksIn
  <2> QED
    BY <2>2, SpansAssumption, FS_Subset
<1>9. PICK start : start = [tree |-> tree, inTree |-> sh.inTree, todo |-> Front(sh.todo)]
  OBVIOUS
<1>10. PICK order \in Orders(down) :
          LET st == attachAll(subj, order, start)[Len(order)]
          IN  tree' = st.tree /\ shown' = [shown EXCEPT !.inTree = st.inTree, !.todo = st.todo]
  BY <1>2, <1>5, <1>7, <1>9 DEF mergeLinkedTraces
<1>11. PICK st : st = attachAll(subj, order, start)[Len(order)]
  OBVIOUS
<1>12. tree' = st.tree /\ shown' = [shown EXCEPT !.inTree = st.inTree, !.todo = st.todo]
  BY <1>10, <1>11
<1>13. Len(order) \in Nat
  BY <1>8, OrderFacts
<1>14. BuiltSt(start)
  <2>1. start.tree = tree /\ start.inTree = sh.inTree /\ start = [tree |-> start.tree, inTree |-> start.inTree, todo |-> start.todo]
    BY <1>9
  <2> QED
    BY <1>2, <2>1 DEF BuiltSt
<1>15. BuiltSt(st)
  BY <1>2, <1>3, <1>4, <1>11, <1>13, <1>14, AttachAllBuilt
<1>16. sh = [members |-> sh.members, inTree |-> sh.inTree, todo |-> sh.todo, extensions |-> sh.extensions, groups |-> sh.groups]
  BY <1>2 DEF ReaderInv, GroupsConnected
<1>17. PICK new : new = shown'
  OBVIOUS
<1>18. new.inTree = st.inTree
  BY <1>2, <1>12, <1>16, <1>17
<1> QED
  BY <1>12, <1>15, <1>17, <1>18 DEF BuiltSt

\* What the steps start from.
LEMMA TransformStarts ==
  ASSUME ConfigsSound, BuiltSound(tree, shown.inTree), Transform
  PROVE  VisitInv'
<1>1. PICK T : T = tree
  OBVIOUS
<1>2. PICK s : s = IF req.kind = "find" THEN ClipMerged(T) ELSE T.spans
  OBVIOUS
<1>3. PICK ids : tree' = NewSpanTree(Put(s, setRootParent(ids)))
  BY <1>1, <1>2 DEF Transform
<1>4. phase = "merge" /\ steps' = Configs[req.config].steps
  BY DEF Transform
<1>5. PICK r : ObjectRoot(T, r)
  BY <1>1 DEF BuiltSound
<1>6. IsTree(T) /\ T.root = r /\ T.spans[r].source = "object" /\ \A x \in DOMAIN T.spans : Built(x)
  BY <1>5 DEF ObjectRoot
<1>7. /\ r \in DOMAIN T.spans /\ T.spans[r].parent = NoSpan /\ \A x \in DOMAIN T.spans : IsSpan(T.spans[x])
      /\ T.spans = [x \in DOMAIN T.spans |-> T.spans[x]]
  BY <1>6 DEF IsTree
<1>8. /\ DOMAIN s \subseteq DOMAIN T.spans /\ r \in DOMAIN s /\ s = [x \in DOMAIN s |-> s[x]]
      /\ \A x \in DOMAIN s : IsSpan(s[x]) /\ s[x].parent = T.spans[x].parent
  <2>1. CASE req.kind # "find"
    BY <1>2, <1>7, <2>1
  <2>2. CASE req.kind = "find"
    <3>1. s = ClipMerged(T)
      BY <1>2, <2>2
    <3>2. /\ DOMAIN s = {x \in DOMAIN T.spans : T.spans[x].source = "object" \/ InRange(T.spans[x].start)}
          /\ s = [x \in DOMAIN s |-> s[x]]
          /\ \A x \in DOMAIN s : s[x] = IF T.spans[x].source = "object"
                                          THEN [T.spans[x] EXCEPT !.start = QueryStart, !.end = QueryEnd]
                                          ELSE T.spans[x]
      BY <3>1 DEF ClipMerged
    <3>3. ASSUME NEW x \in DOMAIN s PROVE IsSpan(s[x]) /\ s[x].parent = T.spans[x].parent
      <4>1. PICK old : old = T.spans[x]
        OBVIOUS
      <4>2. old = [parent |-> old.parent, pseudo |-> old.pseudo, source |-> old.source, logs |-> old.logs, start |-> old.start, end |-> old.end]
        BY <1>7, <3>2, <4>1 DEF IsSpan
      <4>3. PICK new : new = s[x]
        OBVIOUS
      <4>4. new = old \/ new = [old EXCEPT !.start = QueryStart, !.end = QueryEnd]
        BY <3>2, <3>3, <4>1, <4>3
      <4>5. CASE new = old
        BY <4>1, <4>2, <4>3, <4>5 DEF IsSpan
      <4>6. CASE new = [old EXCEPT !.start = QueryStart, !.end = QueryEnd]
        <5>1. new = [parent |-> old.parent, pseudo |-> old.pseudo, source |-> old.source, logs |-> old.logs, start |-> QueryStart, end |-> QueryEnd]
          BY <4>2, <4>6
        <5> QED
          BY <4>1, <4>3, <5>1 DEF IsSpan
      <4> QED
        BY <4>4, <4>5, <4>6
    <3> QED
      BY <1>6, <1>7, <3>2, <3>3
  <2> QED
    BY <2>1, <2>2
<1>9. PICK new : new = setRootParent(ids)
  OBVIOUS
<1>10. \A x \in DOMAIN new : IsSpan(new[x]) /\ x[1] = "extension"
  <2>1. DOMAIN new = {ExtensionId(id) : id \in ids}
    BY <1>9 DEF setRootParent
  <2>2. ASSUME NEW x \in DOMAIN new PROVE IsSpan(new[x])
    <3>1. PICK p : new[x] = [parent |-> p, pseudo |-> "none", source |-> "none", logs |-> {}, start |-> QueryStart, end |-> QueryEnd]
      BY <1>9, <2>1, <2>2 DEF setRootParent
    <3> QED
      BY <3>1 DEF IsSpan
  <2>3. \A x \in DOMAIN new : x[1] = "extension"
    BY <2>1 DEF ExtensionId
  <2> QED
    BY <2>2, <2>3
<1>11. PICK all : all = Put(s, new)
  OBVIOUS
<1>12. /\ DOMAIN all = DOMAIN s \cup DOMAIN new /\ all = [x \in DOMAIN all |-> all[x]]
       /\ \A x \in DOMAIN new : all[x] = new[x]
       /\ \A x \in DOMAIN s : x \notin DOMAIN new => all[x] = s[x]
  BY <1>11 DEF Put
<1>13. \A x \in DOMAIN all : IsSpan(all[x]) /\ Built(x)
  <2>1. \A x \in DOMAIN new : Built(x)
    BY <1>10 DEF Built
  <2> QED
    BY <1>6, <1>8, <1>10, <1>12, <2>1
<1>14. r \in DOMAIN all /\ all[r].parent = NoSpan
  <2>1. r \notin DOMAIN new
    <3>1. PICK k : r = RootOf(k)
      BY <1>1, <1>5, <1>6 DEF BuiltSound, ObjectRoot
    <3>2. r[1] = "root"
      BY <3>1 DEF RootOf
    <3> QED
      BY <1>10, <3>2
  <2> QED
    BY <1>7, <1>8, <1>12, <2>1
<1>15. PICK E : E = NewSpanTree(all)
  OBVIOUS
<1>16. IsTree(E) /\ E.frames = <<>> /\ E.exited = {} /\ E.spans = all
  BY <1>12, <1>13, <1>14, <1>15, NewSpanTreeSound
<1>17. VisitSound(E)
  BY <1>16, NothingSeen
<1>18. PICK list : list = Configs[req.config].steps
  OBVIOUS
<1>19. IsSequence(list)
  BY <1>4, <1>18, ConfigsAssumption DEF ConfigsSound, IsSequence
<1>20. GroupsNew(E, Len(list), KindOf(list))
  BY <1>13, <1>16 DEF GroupsNew, Built
<1>21. tree' = E /\ steps' = list
  BY <1>3, <1>4, <1>9, <1>11, <1>15, <1>18
<1> QED
  BY <1>16, <1>17, <1>19, <1>20, <1>21 DEF VisitInv

-----------------------------------------------------------------------------

LEMMA TreeInit == Init => TreeInv
BY DEF Init, TreeInv, ConfigsSound

LEMMA ConfigsLoaded ==
  ASSUME ConfigsSound, NEW batch, NEW kind, NEW config \in DOMAIN Configs, NEW g, NEW x, NEW follow,
         Load(batch, kind, config, g, x, follow), entries' = entries
  PROVE  ConfigsSound' /\ phase' = "follow"
<1>1. phase' = "follow" /\ req'.config = config
  BY DEF Load
<1> QED
  BY <1>1 DEF ConfigsSound

LEMMA TreeNext ==
  ASSUME ReaderInv, TreeInv, [Next]_vars
  PROVE  TreeInv'
<1>1. /\ ConfigsSound
      /\ phase = "merge" => BuiltSound(tree, shown.inTree)
      /\ phase = "transform" => VisitInv
      /\ phase \notin {"merge", "transform"} => tree = NoTree
  BY DEF TreeInv
<1>2. ASSUME entries' = entries, req' = req, phase' = phase, shown' = shown, tree' = tree, steps' = steps
      PROVE  TreeInv'
  <2>1. ConfigsSound' /\ (VisitInv => VisitInv')
    BY <1>1, <1>2 DEF ConfigsSound, VisitInv
  <2> QED
    BY <1>1, <1>2, <2>1 DEF TreeInv
<1>3. ASSUME NEW s \in Late, Arrive(s) PROVE TreeInv'
  BY <1>2, <1>3 DEF Arrive, treeVars
<1>4. CASE FindTraces
  <2>1. phase = "idle" /\ entries' = entries /\ tree' = tree
    BY <1>4 DEF FindTraces, treeVars
  <2>2. PICK search \in Searches : \E batch, g, follow : Load(batch, "find", search.config, g, {}, follow)
    BY <1>4 DEF FindTraces
  <2>3. ConfigsSound' /\ phase' = "follow"
    BY <1>1, <2>1, <2>2, ConfigsLoaded, ConfigsAssumption
  <2> QED
    BY <1>1, <2>1, <2>3 DEF TreeInv
<1>5. CASE GetTrace
  <2>1. phase = "idle" /\ entries' = entries /\ tree' = tree
    BY <1>5 DEF GetTrace, treeVars
  <2>2. PICK entry \in entries : \E batch, g, x : Load(batch, "get", entry.config, g, x, TRUE)
    BY <1>5 DEF GetTrace
  <2>3. entry.config \in DOMAIN Configs
    BY <1>1 DEF ConfigsSound
  <2>4. ConfigsSound' /\ phase' = "follow"
    BY <1>1, <2>1, <2>2, <2>3, ConfigsLoaded
  <2> QED
    BY <1>1, <2>1, <2>4 DEF TreeInv
<1>6. ASSUME NEW key \in Keys, followFrom(key) PROVE TreeInv'
  BY <1>2, <1>6 DEF followFrom, treeVars
<1>7. ASSUME NEW task \in tasks, listTask(task) \/ publishTask(task) PROVE TreeInv'
  BY <1>2, <1>7 DEF listTask, publishTask, treeVars
<1>8. CASE Fail
  <2>1. phase' = "idle" /\ tree' = NoTree /\ entries' = entries
    BY <1>8 DEF Fail
  <2> QED
    BY <1>1, <2>1 DEF TreeInv, ConfigsSound
<1>9. CASE MergeTraces
  <2>1. phase = "follow" /\ entries' = entries /\ req' = req
    BY <1>9 DEF MergeTraces
  <2>2. \/ phase' = "inconsistent" /\ tree' = tree
        \/ /\ phase' = "merge"
           /\ \E links \in abLinkMaps : \E members \in findConnectedComponents(links) : \E root \in detectRoot(links, members) :
                shown'.inTree = {root} /\ tree' = ObjectTree(root)
    BY <1>9 DEF MergeTraces
  <2>3. ConfigsSound'
    BY <1>1, <2>1, <2>2 DEF ConfigsSound
  <2>4. CASE phase' = "inconsistent" /\ tree' = tree
    BY <1>1, <2>1, <2>3, <2>4 DEF TreeInv
  <2>5. CASE /\ phase' = "merge"
             /\ \E links \in abLinkMaps : \E members \in findConnectedComponents(links) : \E root \in detectRoot(links, members) :
                  shown'.inTree = {root} /\ tree' = ObjectTree(root)
    <3>1. PICK links \in abLinkMaps : \E members \in findConnectedComponents(links) : \E root \in detectRoot(links, members) :
                  shown'.inTree = {root} /\ tree' = ObjectTree(root)
      BY <2>5
    <3>2. PICK members \in findConnectedComponents(links) : \E root \in detectRoot(links, members) :
                  shown'.inTree = {root} /\ tree' = ObjectTree(root)
      BY <3>1
    <3>3. PICK root \in detectRoot(links, members) : shown'.inTree = {root} /\ tree' = ObjectTree(root)
      BY <3>2
    <3>4. root \in DOMAIN objects
      <4>1. members \subseteq DOMAIN objects
        BY DEF findConnectedComponents, dfsTaint
      <4> QED
        BY <4>1 DEF detectRoot
    <3>5. ObjectRoot(ObjectTree(root), RootOf(root))
      BY <3>4, ObjectTreeSound DEF ReaderInv
    <3>6. BuiltSound(tree', shown'.inTree)
      BY <3>3, <3>5 DEF BuiltSound
    <3> QED
      BY <2>3, <2>5, <3>6 DEF TreeInv, BuiltSound
  <2> QED
    BY <2>2, <2>4, <2>5
<1>10. CASE mergeLinkedTraces
  <2>1. phase = "merge" /\ phase' = phase /\ entries' = entries /\ req' = req
    BY <1>10 DEF mergeLinkedTraces
  <2>2. BuiltSound(tree', shown'.inTree)
    BY <1>1, <1>10, <2>1, mergeLinkedBuilds
  <2>3. ConfigsSound'
    BY <1>1, <2>1 DEF ConfigsSound
  <2> QED
    BY <2>1, <2>2, <2>3 DEF TreeInv, BuiltSound
<1>11. CASE Transform
  <2>1. phase = "merge" /\ phase' = "transform" /\ entries' = entries /\ req' = req
    BY <1>11 DEF Transform
  <2>2. VisitInv'
    BY <1>1, <1>11, <2>1, TransformStarts
  <2>3. ConfigsSound'
    BY <1>1, <2>1 DEF ConfigsSound
  <2> QED
    BY <2>1, <2>2, <2>3 DEF TreeInv
<1>12. CASE RunSteps
  <2>1. phase = "transform" /\ phase' = phase /\ entries' = entries /\ req' = req
    BY <1>12 DEF RunSteps
  <2>2. VisitInv'
    BY <1>1, <1>12, <2>1, RunStepSound, VisitChildSound, LeaveSpanSound DEF RunSteps, Visit
  <2>3. ConfigsSound'
    BY <1>1, <2>1 DEF ConfigsSound
  <2> QED
    BY <2>1, <2>2, <2>3 DEF TreeInv
<1>13. CASE Reply
  <2>1. phase = "transform" /\ phase' = "idle" /\ tree' = NoTree
    BY <1>13 DEF Reply
  <2>2. PICK cached : entries' = IF req.kind = "find" THEN Entries(cached) ELSE entries
    BY <1>13 DEF Reply
  <2>3. \A e \in Entries(cached) : e.config = req.config
    BY DEF Entries
  <2> QED
    BY <1>1, <2>1, <2>2, <2>3 DEF TreeInv, ConfigsSound
<1>14. CASE UNCHANGED vars
  BY <1>2, <1>14 DEF vars
<1> QED
  BY <1>3, <1>4, <1>5, <1>6, <1>7, <1>8, <1>9, <1>10, <1>11, <1>12, <1>13, <1>14, Zenon DEF Next

\* The inductive invariant of the transformation, for every tree, every list of
\* steps and every order in which children come: the frames are for different spans
\* whose children still to visit were not seen, what is above a span seen was seen
\* up to the root, and the ids that grouping makes up are new.
THEOREM TreeInvariant == Spec => []TreeInv
<1>1. Init => TreeInv
  BY TreeInit
<1>2. ReaderInv /\ TreeInv /\ [Next]_vars => TreeInv'
  BY TreeNext
<1> QED
  BY <1>1, <1>2, ReaderInvariant, PTL DEF Spec

\* No visitor makes SpanTree panic: none adds or moves a span to one that was left,
\* moves or deletes the root, deletes a span that is being visited or was left, or has
\* the visit come to a span that is gone or that it is in.
THEOREM VisitorsAreSafe == Spec => []VisitorsRespectTree
<1>1. TreeInv => VisitorsRespectTree
  <2>1. TreeInv => IsTree(tree) \/ tree = NoTree
    BY DEF TreeInv, BuiltSound, ObjectRoot, VisitInv, VisitSound
  <2>2. NoTree.panic = FALSE
    BY DEF NoTree
  <2> QED
    BY <2>1, <2>2 DEF VisitorsRespectTree, IsTree
<1> QED
  BY <1>1, TreeInvariant, PTL
=============================================================================
