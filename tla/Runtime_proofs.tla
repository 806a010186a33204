-------------------------- MODULE Runtime_proofs ----------------------------
(***************************************************************************)
(* What the process runs on: pkg/manager, pkg/util and the local diff      *)
(* cache, which has its snapshots in a cache of pkg/util.                  *)
(*                                                                         *)
(* The component manager, for any wiring of any finite set of components:  *)
(* what TrimDisabled leaves is complete and in use, because the counters   *)
(* of dependents follow the dependencies; components are initialized,      *)
(* started and closed in the order of their dependencies, because          *)
(* insertDeps sorts them topologically.                                    *)
(*                                                                         *)
(* The unbounded queue behaves as an unbounded channel for every capacity  *)
(* of its ring buffer and number of senders; the semaphore runs every set  *)
(* of tasks with every limit, and returns nil only when nothing is left;   *)
(* the once-only cache keeps its queue in step with its data and an entry  *)
(* for its time; the local diff cache keeps its patches for theirs.        *)
(***************************************************************************)
EXTENDS Manager, UnboundedQueue, Semaphore, LocalDiffCache, FiniteSetTheorems, WellFoundedInduction, TLAPS

-----------------------------------------------------------------------------
(* The counters *)

Entry == [ty : Types, at : Nat]

\* What t has asked for before its request n.
Received(t, n) == {Requests(t)[j] : j \in 1..(n - 1)}
Requested(t) == {Requests(t)[j] : j \in 1..Len(Requests(t))}

\* The components of S that got d.
Users(S, d) == {u \in S : d \in dependencies[u]}

\* The counter of a component is no less than the number of its users, and no
\* more unless somebody requests it twice.
CountOf(S, d) ==
  /\ Cardinality(Users(S, d)) <= dependents[d]
  /\ ~RequestedTwice(d) => Cardinality(Users(S, d)) = dependents[d]
Counted(S) == \A d \in Types : CountOf(S, d)
ListImplsCounted == \A d \in Types : Kind(d) = "listImpl" => dependents[d] <= 1

\* A component is waiting to be built, being built (and then the one above it
\* on the stack is what it is waiting for) or built.
StackSound(s, built) ==
  /\ \A i \in 1..Len(s) :
       /\ s[i].ty \notin factories \cup built
       /\ s[i].at \in 1..(Len(Requests(s[i].ty)) + 1)
       /\ dependencies[s[i].ty] = Received(s[i].ty, s[i].at)
  /\ \A i \in 1..(Len(s) - 1) :
       /\ s[i].at <= Len(Requests(s[i].ty))
       /\ s[i + 1].ty = Requests(s[i].ty)[s[i].at]
  /\ \A i, j \in 1..Len(s) : s[i].ty = s[j].ty => i = j
Building ==
  /\ StackSound(stack, components)
  /\ \A t \in Types : t \in factories \/ t \in components \/ \E i \in 1..Len(stack) : stack[i].ty = t
  /\ factories \cap components = {}
  /\ \A t \in factories : dependencies[t] = {}
  /\ \A t \in components : dependencies[t] = Requested(t)
  /\ Counted(Types)
  /\ ListImplsCounted

Built ==
  /\ components = Types
  /\ \A t \in Types : dependencies[t] = Requested(t)
  /\ Counted(Types)
  /\ ListImplsCounted

\* An implementation of a mux that was disabled although the mux is there and
\* was told to use it: the mux is about to follow.
ChosenGone ==
  \A d \in disabled : Kind(d) = "impl" /\ ParentOf(d) \in components /\ Chosen(d) => dependents[ParentOf(d)] = 0
Trimming ==
  /\ \A t \in Types : dependencies[t] \subseteq Requested(t)
  /\ Counted(components)
  /\ Types = components \cup disabled
  /\ ChosenGone
  /\ pass.todo \subseteq components
  /\ ~pass.hasChange => \A t \in components \ pass.todo : ~shouldDisable(t)

CountTypes ==
  /\ wiring \in Wirings
  /\ stack \in Seq(Entry)
  /\ factories \subseteq Types /\ components \subseteq Types /\ disabled \subseteq Types
  /\ dependents \in [Types -> Nat]
  /\ dependencies \in [Types -> SUBSET Types]
  /\ pass \in [todo : SUBSET Types, hasChange : BOOLEAN]

\* The inductive invariant of Build and TrimDisabled.
CountInv ==
  /\ CountTypes
  /\ phase = "build" => Building
  /\ phase = "parse" => Built
  /\ phase \in {"build", "parse"} => disabled = {}
  /\ phase = "trim" => Trimming
  /\ NothingMissing
  /\ NothingIdle

-----------------------------------------------------------------------------
(* The order *)

\* Everything comes after its dependencies, and once.
Sorted ==
  /\ \A i, j \in 1..Len(ordered) : ordered[i] = ordered[j] => i = j
  /\ \A i \in 1..Len(ordered) :
       /\ ordered[i] \in components
       /\ \A d \in dependencies[ordered[i]] \cap components : \E j \in 1..(i - 1) : ordered[j] = d

\* insertDeps is on its way to components that are not inserted.
Pending ==
  /\ \A i \in 1..Len(stack) : stack[i].ty \in Remaining
  /\ \A i, j \in 1..Len(stack) : stack[i].ty = stack[j].ty => i = j

\* The first n components in the order are in state a, the others in state b.
Progress(n, a, b) == \A i \in 1..Len(ordered) : state[ordered[i]] = IF i <= n THEN a ELSE b

OrderTypes ==
  /\ phase \in Phases
  /\ stack \in Seq(Entry)
  /\ factories \subseteq Types /\ components \subseteq Types
  /\ ordered \in Seq(Types)
  /\ next \in Nat
  /\ state \in [Types -> {"none", "initialized", "started", "closed"}]

\* The inductive invariant of orderComponents, Init, Start and Close.
OrderInv ==
  /\ OrderTypes
  /\ phase \in {"build", "parse", "trim", "fatal"} => ordered = <<>>
  /\ phase \in {"parse", "trim"} => stack = <<>>
  /\ phase \in {"build", "parse", "trim", "fatal", "order", "cycle"} => next = 1 /\ \A t \in Types : state[t] = "none"
  /\ phase = "order" => Pending
  /\ phase \in {"order", "init", "start", "close", "closed"} => Sorted
  /\ phase \in {"init", "start", "close", "closed"} => Remaining = {}
  /\ phase = "init" => next \in 1..(Len(ordered) + 1) /\ Progress(next - 1, "initialized", "none")
  /\ phase = "start" => next \in 1..(Len(ordered) + 1) /\ Progress(next - 1, "started", "initialized")
  /\ phase = "close" => next \in 0..Len(ordered) /\ Progress(next, "started", "closed")
  /\ phase = "closed" => Progress(0, "started", "closed")
  /\ phase \in {"failed", "crashed"} => DependenciesFirst

\* Before Init there is nothing that could be out of order.
LEMMA NothingIsUp ==
  ASSUME components \subseteq Types, \A t \in Types : state[t] = "none"
  PROVE  DependenciesFirst
  BY DEF DependenciesFirst

\* The part of the invariant that the phases before the order disturb.
LEMMA EarlyInv ==
  ASSUME OrderInv, phase \in {"build", "parse", "trim"}, UNCHANGED <<ordered, next, state>>,
         stack' \in Seq(Entry), factories' \subseteq Types, components' \subseteq Types,
         phase' \in {"build", "parse", "trim", "fatal", "failed", "order"},
         phase' \in {"parse", "trim", "order"} => stack' = <<>>
  PROVE  OrderInv'
<1>1. ordered' = <<>> /\ next' = 1 /\ (\A t \in Types : state'[t] = "none") /\ OrderTypes'
  BY DEF OrderInv, OrderTypes, Phases
<1>2. DependenciesFirst'
  BY <1>1 DEF DependenciesFirst
<1>3. phase' = "order" => Pending'
  BY DEF Pending
<1>4. Sorted'
  BY <1>1 DEF Sorted
<1> QED
  BY <1>1, <1>2, <1>3, <1>4 DEF OrderInv

\* The components below the top of the stack.
LEMMA PopStack ==
  ASSUME stack \in Seq(Entry), stack # <<>>
  PROVE  /\ Len(stack) \in Nat /\ Len(stack) >= 1
         /\ Popped \in Seq(Entry) /\ Len(Popped) = Len(stack) - 1
         /\ \A i \in 1..Len(Popped) : i \in 1..Len(stack) /\ Popped[i] = stack[i]
         /\ Top \in Entry /\ Top = stack[Len(stack)] /\ Top.ty \in Types /\ Top.at \in Nat
<1>1. Len(stack) \in Nat /\ Len(stack) >= 1
  OBVIOUS
<1> DEFINE n == Len(stack)
<1>2. Popped \in Seq(Entry) /\ Len(Popped) = Len(stack) - 1 /\ \A i \in 1..Len(Popped) : i \in 1..Len(stack) /\ Popped[i] = stack[i]
  <2>1. \A i \in 1..(n - 1) : i \in 1..n /\ stack[i] \in Entry
    BY <1>1
  <2>2. Popped = [i \in 1..(n - 1) |-> stack[i]]
    BY <1>1 DEF Popped
  <2>3. n - 1 \in Nat
    BY <1>1
  <2>4. Popped \in Seq(Entry) /\ Len(Popped) = n - 1
    BY <2>1, <2>2, <2>3
  <2> QED
    BY <2>1, <2>2, <2>3, <2>4
<1>3. Top \in Entry /\ Top = stack[Len(stack)]
  BY <1>1 DEF Top
<1> QED
  BY <1>1, <1>2, <1>3 DEF Entry

\* Handing a component over keeps the stack a stack.
LEMMA ReceivesStack ==
  ASSUME stack \in Seq(Entry), NEW s \in Seq(Entry), s # <<>>, NEW t, Receives(s, t)
  PROVE  stack' \in Seq(Entry) /\ phase' \in {phase, "failed"}
<1> DEFINE n == Len(s)
<1>1. n \in 1..Len(s) /\ s[n] \in Entry
  OBVIOUS
<1>2. [s EXCEPT ![n].at = @ + 1] \in Seq(Entry)
  <2>1. [s[n] EXCEPT !.at = @ + 1] \in Entry
    <3>1. s[n] = [ty |-> s[n].ty, at |-> s[n].at] /\ s[n].ty \in Types /\ s[n].at \in Nat
      BY <1>1 DEF Entry
    <3>2. [s[n] EXCEPT !.at = @ + 1] = [ty |-> s[n].ty, at |-> s[n].at + 1] /\ s[n].at + 1 \in Nat
      BY <3>1
    <3> QED
      BY <3>1, <3>2 DEF Entry
  <2>2. [s EXCEPT ![n].at = @ + 1] = [s EXCEPT ![n] = [s[n] EXCEPT !.at = @ + 1]]
    OBVIOUS
  <2> QED
    BY <1>1, <2>1, <2>2
<1> QED
  BY <1>2 DEF Receives

LEMMA BuildOrder == ASSUME OrderInv, Build \/ resolve \/ construct PROVE OrderInv'
<1> USE DEF config, lifecycle
<1>0. stack \in Seq(Entry) /\ factories \subseteq Types /\ components \subseteq Types
  BY DEF OrderInv, OrderTypes
<1>1. CASE Build
  <2>1. ASSUME NEW t \in factories PROVE <<[ty |-> t, at |-> 1]>> \in Seq(Entry)
    BY <1>0, <2>1 DEF Entry
  <2>2. stack' \in Seq(Entry) /\ factories' \subseteq Types /\ components' \subseteq Types
    BY <1>0, <1>1, <2>1 DEF Build
  <2> QED
    BY <1>1, <2>2, EarlyInv DEF Build
<1>2. CASE resolve
  <2>1. ASSUME NEW r \in factories PROVE Append(stack, [ty |-> r, at |-> 1]) \in Seq(Entry)
    BY <1>0, <2>1 DEF Entry
  <2>2. stack' \in Seq(Entry) /\ phase' \in {phase, "failed"}
    BY <1>0, <1>2, <2>1, ReceivesStack DEF resolve
  <2>3. factories' \subseteq Types /\ components' \subseteq Types /\ phase = "build" /\ UNCHANGED <<ordered, next, state>>
    BY <1>0, <1>2 DEF resolve
  <2> QED
    BY <2>2, <2>3, EarlyInv
<1>3. CASE construct
  <2>0. phase = "build" /\ stack # <<>> /\ UNCHANGED <<factories, ordered, next, state>>
        /\ components' = components \cup {Top.ty}
    BY <1>3 DEF construct
  <2>1. Top.ty \in Types /\ Popped \in Seq(Entry) /\ (Len(stack) > 1 => Popped # <<>>)
    <3>1. Top.ty \in Types /\ Popped \in Seq(Entry) /\ Len(Popped) = Len(stack) - 1 /\ Len(stack) \in Nat
      BY <1>0, <2>0, PopStack
    <3> QED
      BY <3>1
  <2>2. stack' \in Seq(Entry) /\ phase' \in {phase, "failed"}
    <3>1. CASE Len(stack) = 1 /\ stack' = <<>> /\ UNCHANGED phase
      BY <3>1
    <3>2. CASE Len(stack) > 1 /\ Receives(Popped, Top.ty)
      <4> HIDE DEF Popped
      <4> QED
        BY <1>0, <2>1, <3>2, ReceivesStack
    <3> QED
      BY <1>3, <3>1, <3>2 DEF construct
  <2> QED
    BY <1>0, <2>0, <2>1, <2>2, EarlyInv
<1> QED
  BY <1>1, <1>2, <1>3

LEMMA TrimOrder == ASSUME OrderInv, TrimLists \/ TrimDisabled \/ TrimPass PROVE OrderInv'
<1> USE DEF config, lifecycle, build
<1>0. stack \in Seq(Entry) /\ factories \subseteq Types /\ components \subseteq Types
  BY DEF OrderInv, OrderTypes
<1>1. /\ phase \in {"parse", "trim"} /\ phase' \in {"trim", "fatal", "order"}
      /\ components' \subseteq components /\ UNCHANGED <<stack, factories, ordered, next, state>>
  BY DEF TrimLists, TrimDisabled, TrimPass
<1>2. stack = <<>>
  BY <1>1 DEF OrderInv
<1> QED
  BY <1>0, <1>1, <1>2, EarlyInv

LEMMA InsertOrder == ASSUME OrderInv, orderComponents \/ insertDeps PROVE OrderInv'
<1> USE DEF config, lifecycle, build
<1>0. /\ stack \in Seq(Entry) /\ factories \subseteq Types /\ components \subseteq Types /\ ordered \in Seq(Types)
      /\ phase = "order" /\ next = 1 /\ (\A t \in Types : state[t] = "none") /\ Pending /\ Sorted
      /\ UNCHANGED <<factories, components, dependencies, next, state>> /\ OrderTypes
  BY DEF orderComponents, insertDeps, OrderInv, OrderTypes
<1>1. ASSUME orderComponents, stack = <<>>, NEW t \in Remaining, stack' = <<[ty |-> t, at |-> 0]>>, UNCHANGED <<phase, ordered>>
      PROVE  OrderInv'
  <2>1. t \in Types /\ stack' \in Seq(Entry) /\ Len(stack') = 1 /\ stack'[1].ty = t
    BY <1>0, <1>1 DEF Remaining, Entry
  <2>2. Pending'
    BY <1>0, <1>1, <2>1 DEF Pending, Remaining
  <2>3. Sorted'
    BY <1>0, <1>1 DEF Sorted
  <2>4. OrderTypes'
    BY <1>0, <1>1, <2>1 DEF OrderTypes
  <2> QED
    BY <1>0, <1>1, <2>2, <2>3, <2>4 DEF OrderInv
<1>2. ASSUME orderComponents, Remaining = {}, phase' = "init", UNCHANGED <<stack, ordered>>
      PROVE  OrderInv'
  <2>0. OrderTypes'
    BY <1>0, <1>2 DEF OrderTypes, Phases
  <2>1. Sorted' /\ OrderTypes' /\ Remaining' = {}
    BY <1>0, <1>2, <2>0 DEF Sorted, Remaining
  <2>2. \A i \in 1..Len(ordered) : state[ordered[i]] = "none"
    BY <1>0
  <2>3. next' = 1 /\ next' \in 1..(Len(ordered') + 1) /\ Progress(next - 1, "initialized", "none")'
    BY <1>0, <1>2, <2>2 DEF Progress
  <2> QED
    BY <1>2, <2>1, <2>3 DEF OrderInv
<1>3. ASSUME UNCHANGED <<stack, ordered>>, phase' = "cycle" PROVE OrderInv'
  <2>1. OrderTypes'
    BY <1>0, <1>3 DEF OrderTypes, Phases
  <2> QED
    BY <1>0, <1>3, <2>1 DEF OrderInv
<1>4. ASSUME insertDeps, NEW d \in Remaining, d \notin OnStack, stack' = Append(stack, [ty |-> d, at |-> 0]),
             UNCHANGED <<phase, ordered>>
      PROVE  OrderInv'
  <2> DEFINE n == Len(stack)
             f == [ty |-> d, at |-> 0]
  <2>0. f \in Entry /\ f.ty = d
    BY <1>0 DEF Remaining, Entry
  <2> HIDE DEF f
  <2>1. /\ n \in Nat /\ stack' \in Seq(Entry) /\ Len(stack') = n + 1 /\ stack'[n + 1].ty = d
        /\ \A i \in 1..n : stack'[i] = stack[i]
    BY <1>0, <1>4, <2>0 DEF f
  <2>2. \A i \in 1..n : stack[i].ty # d
    BY <1>0, <1>4 DEF OnStack
  <2>3. Pending'
    <3>1. \A i \in 1..(n + 1) : stack'[i].ty \in Remaining'
      BY <1>0, <1>4, <2>1 DEF Pending, Remaining
    <3>2. ASSUME NEW i \in 1..(n + 1), NEW j \in 1..(n + 1), stack'[i].ty = stack'[j].ty PROVE i = j
      <4>1. CASE i \in 1..n /\ j \in 1..n
        BY <1>0, <2>1, <3>2, <4>1 DEF Pending
      <4>2. CASE i = n + 1 \/ j = n + 1
        BY <2>1, <2>2, <3>2, <4>2
      <4> QED
        BY <2>1, <4>1, <4>2
    <3> QED
      BY <2>1, <3>1, <3>2 DEF Pending
  <2>4. Sorted'
    <3>1. UNCHANGED <<ordered, components, dependencies>>
      BY <1>0, <1>4
    <3> QED
      BY <1>0, <3>1 DEF Sorted
  <2>5. OrderTypes'
    BY <1>0, <1>4, <2>1 DEF OrderTypes
  <2> QED
    BY <1>0, <1>4, <2>3, <2>4, <2>5 DEF OrderInv
<1>5. ASSUME insertDeps, stack # <<>>, dependencies[Top.ty] \cap Remaining = {}, ordered' = Append(ordered, Top.ty),
             stack' = Popped, UNCHANGED phase
      PROVE  OrderInv'
  <2> DEFINE n == Len(stack)
             m == Len(ordered)
             t == Top.ty
  <2>1. /\ n \in Nat /\ n >= 1 /\ stack' \in Seq(Entry) /\ Len(stack') = n - 1 /\ t = stack[n].ty
        /\ \A i \in 1..(n - 1) : i \in 1..n /\ stack'[i] = stack[i]
    BY <1>0, <1>5, PopStack
  <2> HIDE DEF t
  <2>2. t \in Remaining /\ \A i \in 1..(n - 1) : stack[i].ty # t
    <3>1. Pending
      BY <1>0
    <3>2. n \in 1..n /\ \A i \in 1..(n - 1) : i \in 1..n /\ i # n
      BY <2>1
    <3> QED
      BY <2>1, <3>1, <3>2 DEF Pending
  <2>3. t \in components /\ t \in Types /\ \A i \in 1..m : ordered[i] # t
    BY <1>0, <2>2 DEF Remaining
  <2>4. /\ m \in Nat /\ ordered' \in Seq(Types) /\ Len(ordered') = m + 1 /\ ordered'[m + 1] = t
        /\ \A i \in 1..m : ordered'[i] = ordered[i]
    BY <1>0, <1>5, <2>3 DEF t
  <2>5. Remaining' = Remaining \ {t}
    <3>1. DOMAIN ordered = 1..m /\ DOMAIN ordered' = 1..(m + 1) /\ components' = components
      BY <1>0, <2>4
    <3>2. {ordered'[i] : i \in 1..(m + 1)} = {ordered[i] : i \in 1..m} \cup {t}
      <4>1. \A i \in 1..(m + 1) : i \in 1..m \/ i = m + 1
        BY <2>4
      <4>2. m + 1 \in 1..(m + 1) /\ \A i \in 1..m : i \in 1..(m + 1)
        BY <2>4
      <4> HIDE DEF m
      <4> QED
        BY <2>4, <4>1, <4>2
    <3> QED
      BY <3>1, <3>2 DEF Remaining
  <2>6. Pending'
    <3>1. \A i \in 1..(n - 1) : stack'[i].ty \in Remaining'
      BY <1>0, <2>1, <2>2, <2>5 DEF Pending
    <3>2. \A i, j \in 1..(n - 1) : stack'[i].ty = stack'[j].ty => i = j
      BY <1>0, <2>1 DEF Pending
    <3> QED
      BY <2>1, <3>1, <3>2 DEF Pending
  <2>7. Sorted'
    <3>1. ASSUME NEW i \in 1..(m + 1), NEW j \in 1..(m + 1), ordered'[i] = ordered'[j] PROVE i = j
      <4>1. CASE i \in 1..m /\ j \in 1..m
        BY <1>0, <2>4, <3>1, <4>1 DEF Sorted
      <4>2. CASE i = m + 1 \/ j = m + 1
        BY <2>3, <2>4, <3>1, <4>2
      <4> QED
        BY <2>4, <4>1, <4>2
    <3>2. ASSUME NEW i \in 1..(m + 1)
          PROVE  /\ ordered'[i] \in components
                 /\ \A d \in dependencies[ordered'[i]] \cap components : \E j \in 1..(i - 1) : ordered'[j] = d
      <4>1. CASE i \in 1..m
        <5>1. \A j \in 1..(i - 1) : j \in 1..m
          BY <2>4, <4>1
        <5> QED
          BY <1>0, <2>4, <4>1, <5>1 DEF Sorted
      <4>2. CASE i = m + 1
        <5>1. ASSUME NEW d \in dependencies[t] \cap components PROVE \E j \in 1..m : ordered[j] = d
          BY <1>0, <1>5, <5>1 DEF Remaining, t
        <5>2. i - 1 = m
          BY <2>4, <4>2
        <5> QED
          BY <2>3, <2>4, <4>2, <5>1, <5>2
      <4> QED
        BY <2>4, <4>1, <4>2
    <3> QED
      BY <1>0, <2>4, <3>1, <3>2 DEF Sorted
  <2>8. OrderTypes'
    BY <1>0, <1>5, <2>1, <2>4 DEF OrderTypes
  <2> QED
    BY <1>0, <1>5, <2>6, <2>7, <2>8 DEF OrderInv
<1>6. CASE orderComponents
  BY <1>1, <1>2, <1>6 DEF orderComponents
<1>7. CASE insertDeps
  BY <1>3, <1>4, <1>5, <1>7 DEF insertDeps
<1> QED
  BY <1>6, <1>7

\* Everything is in the order when it is no longer to be inserted.
LEMMA InOrder ==
  ASSUME OrderTypes, Remaining = {}, NEW t \in components
  PROVE  \E i \in 1..Len(ordered) : ordered[i] = t
  BY DEF OrderTypes, Remaining

\* What a prefix of the order has reached says of what the components have.
LEMMA ProgressIsOrdered ==
  ASSUME OrderTypes, Sorted, Remaining = {}, NEW n \in Nat, NEW a, NEW b, Progress(n, a, b), n <= Len(ordered),
         \/ a = "initialized" /\ b = "none"
         \/ a = "started" /\ b = "initialized"
         \/ a = "started" /\ b = "closed"
  PROVE  DependenciesFirst
<1> SUFFICES ASSUME NEW t \in components, NEW d \in dependencies[t] \cap components
             PROVE  /\ state[t] = "initialized" => state[d] \in Up
                    /\ state[t] = "started" => state[d] = "started"
                    /\ state[d] = "closed" => state[t] = "closed"
  BY DEF DependenciesFirst
<1>1. PICK i \in 1..Len(ordered) : ordered[i] = t
  BY InOrder
<1>2. PICK j \in 1..(i - 1) : ordered[j] = d
  BY <1>1 DEF Sorted
<1>3. Len(ordered) \in Nat /\ j \in 1..Len(ordered) /\ j < i
  BY <1>1, <1>2 DEF OrderTypes
<1>4. state[t] = (IF i <= n THEN a ELSE b) /\ state[d] = (IF j <= n THEN a ELSE b)
  BY <1>1, <1>2, <1>3 DEF Progress
<1>5. i <= n => j <= n
  BY <1>1, <1>3
<1> QED
  BY <1>4, <1>5 DEF Up

\* The component at position m gets into state e.
LEMMA AdvanceStep ==
  ASSUME OrderTypes, Sorted, NEW m \in 1..Len(ordered), NEW e \in {"none", "initialized", "started", "closed"},
         state' = [state EXCEPT ![ordered[m]] = e]
  PROVE  /\ state' \in [Types -> {"none", "initialized", "started", "closed"}] /\ state'[ordered[m]] = e
         /\ \A i \in 1..Len(ordered) : i # m => state'[ordered[i]] = state[ordered[i]]
<1>0. Len(ordered) \in Nat /\ ordered[m] \in Types /\ \A i \in 1..Len(ordered) : ordered[i] \in Types
  BY DEF OrderTypes
<1>1. state' \in [Types -> {"none", "initialized", "started", "closed"}] /\ state'[ordered[m]] = e
  BY <1>0 DEF OrderTypes
<1>2. \A i \in 1..Len(ordered) : i # m => state'[ordered[i]] = state[ordered[i]]
  BY <1>0 DEF OrderTypes, Sorted
<1> QED
  BY <1>1, <1>2

\* From one phase to the next: what all of a prefix has reached, nothing of the
\* next prefix has left.
LEMMA NextPhase ==
  ASSUME OrderTypes, NEW a, NEW b, NEW e, Progress(Len(ordered), a, b)
  PROVE  Progress(0, e, a) /\ Progress(Len(ordered), a, e)
  BY DEF OrderTypes, Progress

LEMMA LifeOrder ==
  ASSUME OrderInv, InitComponent \/ StartComponent \/ Signal \/ CloseComponent
  PROVE  OrderInv'
<1> USE DEF config, lifecycle, build, Phases
<1>0. /\ OrderTypes /\ Sorted /\ Remaining = {} /\ phase \in {"init", "start", "close"}
      /\ UNCHANGED <<stack, factories, components, dependencies, ordered>>
  BY DEF InitComponent, StartComponent, Signal, CloseComponent, OrderInv
<1>1. Sorted' /\ Remaining' = {}
  BY <1>0 DEF Sorted, Remaining
<1>2. Len(ordered) \in Nat /\ next \in Nat
  BY <1>0 DEF OrderTypes
<1>3. ASSUME next' \in Nat, UNCHANGED phase, state' \in [Types -> {"none", "initialized", "started", "closed"}]
      PROVE  OrderTypes'
  BY <1>0, <1>3 DEF OrderTypes
<1>4. ASSUME UNCHANGED <<next, state>>, phase' = "failed", phase \in {"init", "start"} PROVE OrderInv'
  <2>1. DependenciesFirst
    <3>1. next - 1 \in Nat /\ next - 1 <= Len(ordered)
      BY <1>2, <1>4 DEF OrderInv
    <3>2. \/ Progress(next - 1, "initialized", "none")
          \/ Progress(next - 1, "started", "initialized")
      BY <1>4 DEF OrderInv
    <3> QED
      BY <1>0, <3>1, <3>2, ProgressIsOrdered
  <2>2. DependenciesFirst' /\ OrderTypes'
    BY <1>0, <1>4, <2>1 DEF DependenciesFirst, OrderTypes
  <2> QED
    BY <1>4, <2>2 DEF OrderInv
<1>5. CASE InitComponent
  <2>0. phase = "init" /\ next \in 1..(Len(ordered) + 1) /\ Progress(next - 1, "initialized", "none")
    BY <1>5 DEF InitComponent, OrderInv
  <2>1. CASE next > Len(ordered) /\ phase' = "start" /\ next' = 1 /\ UNCHANGED state
    <3>1. next - 1 = Len(ordered)
      BY <1>2, <2>0, <2>1
    <3>2. Progress(0, "started", "initialized")
      BY <1>0, <2>0, <3>1, NextPhase
    <3>3. Progress(next - 1, "started", "initialized")' /\ next' \in 1..(Len(ordered') + 1)
      BY <1>0, <1>2, <2>1, <3>2 DEF Progress
    <3>4. OrderTypes'
      BY <1>0, <2>1 DEF OrderTypes
    <3> QED
      BY <1>1, <2>1, <3>3, <3>4 DEF OrderInv
  <2>2. CASE next <= Len(ordered) /\ Advance("initialized") /\ phase' = phase
    <3>1. next \in 1..Len(ordered) /\ next' = next + 1 /\ next' - 1 = next
      BY <1>2, <2>0, <2>2 DEF Advance
    <3>2. /\ state' \in [Types -> {"none", "initialized", "started", "closed"}] /\ state'[ordered[next]] = "initialized"
          /\ \A i \in 1..Len(ordered) : i # next => state'[ordered[i]] = state[ordered[i]]
      BY <1>0, <2>2, <3>1, AdvanceStep DEF Advance
    <3>4. ASSUME NEW i \in 1..Len(ordered) PROVE state'[ordered[i]] = IF i <= next THEN "initialized" ELSE "none"
      <4>1. CASE i = next
        BY <1>2, <3>2, <4>1
      <4>2. CASE i # next
        <5>1. i <= next <=> i <= next - 1
          BY <1>2, <4>2
        <5> QED
          BY <2>0, <3>2, <4>2, <5>1 DEF Progress
      <4> QED
        BY <4>1, <4>2
    <3>3. Progress(next - 1, "initialized", "none")' /\ next' \in 1..(Len(ordered') + 1) /\ next' \in Nat
      BY <1>0, <1>2, <3>1, <3>4 DEF Progress
    <3> QED
      BY <1>1, <1>3, <2>0, <2>2, <3>2, <3>3 DEF OrderInv
  <2> QED
    BY <1>4, <1>5, <2>0, <2>1, <2>2 DEF InitComponent
<1>6. CASE StartComponent
  <2>0. phase = "start" /\ next \in 1..(Len(ordered) + 1) /\ Progress(next - 1, "started", "initialized")
    BY <1>6 DEF StartComponent, OrderInv
  <2>1. CASE next > Len(ordered) /\ phase' = "close" /\ next' = Len(ordered) /\ UNCHANGED state
    <3>1. next - 1 = Len(ordered)
      BY <1>2, <2>0, <2>1
    <3>2. Progress(Len(ordered), "started", "closed")
      BY <1>0, <2>0, <3>1, NextPhase
    <3>3. Progress(next, "started", "closed")' /\ next' \in 0..Len(ordered')
      BY <1>0, <1>2, <2>1, <3>2 DEF Progress
    <3>4. OrderTypes'
      BY <1>0, <1>2, <2>1 DEF OrderTypes
    <3> QED
      BY <1>1, <2>1, <3>3, <3>4 DEF OrderInv
  <2>2. CASE next <= Len(ordered) /\ Advance("started") /\ phase' = phase
    <3>1. next \in 1..Len(ordered) /\ next' = next + 1 /\ next' - 1 = next
      BY <1>2, <2>0, <2>2 DEF Advance
    <3>2. /\ state' \in [Types -> {"none", "initialized", "started", "closed"}] /\ state'[ordered[next]] = "started"
          /\ \A i \in 1..Len(ordered) : i # next => state'[ordered[i]] = state[ordered[i]]
      BY <1>0, <2>2, <3>1, AdvanceStep DEF Advance
    <3>4. ASSUME NEW i \in 1..Len(ordered) PROVE state'[ordered[i]] = IF i <= next THEN "started" ELSE "initialized"
      <4>1. CASE i = next
        BY <1>2, <3>2, <4>1
      <4>2. CASE i # next
        <5>1. i <= next <=> i <= next - 1
          BY <1>2, <4>2
        <5> QED
          BY <2>0, <3>2, <4>2, <5>1 DEF Progress
      <4> QED
        BY <4>1, <4>2
    <3>3. Progress(next - 1, "started", "initialized")' /\ next' \in 1..(Len(ordered') + 1) /\ next' \in Nat
      BY <1>0, <1>2, <3>1, <3>4 DEF Progress
    <3> QED
      BY <1>1, <1>3, <2>0, <2>2, <3>2, <3>3 DEF OrderInv
  <2> QED
    BY <1>4, <1>6, <2>0, <2>1, <2>2 DEF StartComponent
<1>7. CASE Signal
  <2>1. UNCHANGED <<phase, next, state>>
    BY <1>7 DEF Signal
  <2> QED
    BY <1>0, <1>1, <2>1 DEF OrderInv, OrderTypes, Progress
<1>8. CASE CloseComponent
  <2>0. phase = "close" /\ next \in 0..Len(ordered) /\ Progress(next, "started", "closed")
    BY <1>8 DEF CloseComponent, OrderInv
  <2>1. CASE next = 0 /\ phase' = "closed" /\ UNCHANGED <<next, state>>
    <3>1. Progress(0, "started", "closed")' /\ OrderTypes'
      BY <1>0, <2>0, <2>1 DEF Progress, OrderTypes
    <3> QED
      BY <1>1, <2>1, <3>1 DEF OrderInv
  <2>2. CASE next > 0 /\ state' = [state EXCEPT ![ordered[next]] = "closed"] /\ next' = next - 1 /\ phase' = phase
    <3>1. next \in 1..Len(ordered) /\ next' = next - 1 /\ next' \in Nat /\ next' \in 0..Len(ordered)
      BY <1>2, <2>0, <2>2
    <3>2. /\ state' \in [Types -> {"none", "initialized", "started", "closed"}] /\ state'[ordered[next]] = "closed"
          /\ \A i \in 1..Len(ordered) : i # next => state'[ordered[i]] = state[ordered[i]]
      BY <1>0, <2>2, <3>1, AdvanceStep
    <3>3. ASSUME NEW i \in 1..Len(ordered) PROVE state'[ordered[i]] = IF i <= next - 1 THEN "started" ELSE "closed"
      <4>1. CASE i = next
        BY <1>2, <3>2, <4>1
      <4>2. CASE i # next
        <5>1. i <= next <=> i <= next - 1
          BY <1>2, <4>2
        <5> QED
          BY <2>0, <3>2, <4>2, <5>1 DEF Progress
      <4> QED
        BY <4>1, <4>2
    <3>4. Progress(next, "started", "closed")'
      BY <1>0, <3>1, <3>3 DEF Progress
    <3> QED
      BY <1>0, <1>1, <1>3, <2>0, <2>2, <3>1, <3>2, <3>4 DEF OrderInv
  <2>3. CASE phase' = "crashed" /\ UNCHANGED <<next, state>>
    <3>1. DependenciesFirst
      BY <1>0, <1>2, <2>0, ProgressIsOrdered
    <3>2. DependenciesFirst' /\ OrderTypes'
      BY <1>0, <2>3, <3>1 DEF DependenciesFirst, OrderTypes
    <3> QED
      BY <2>3, <3>2 DEF OrderInv
  <2> QED
    BY <1>8, <2>1, <2>2, <2>3 DEF CloseComponent
<1> QED
  BY <1>5, <1>6, <1>7, <1>8

LEMMA InitOrder == Init => OrderInv
  BY DEF Init, OrderInv, OrderTypes, Sorted, Phases

LEMMA StepOrder == ASSUME OrderInv, [Next]_vars PROVE OrderInv'
<1>1. ASSUME UNCHANGED vars PROVE OrderInv'
  BY <1>1
  DEF vars, build, config, lifecycle, OrderInv, OrderTypes, Sorted, Pending, Remaining, Progress, DependenciesFirst
<1> QED
  BY <1>1, BuildOrder, TrimOrder, InsertOrder, LifeOrder DEF Next

LEMMA OrderedFirst == OrderInv => DependenciesFirst
<1> SUFFICES ASSUME OrderInv PROVE DependenciesFirst
  OBVIOUS
<1>0. OrderTypes /\ components \subseteq Types /\ Len(ordered) \in Nat /\ phase \in Phases
  BY DEF OrderInv, OrderTypes
<1>1. CASE phase \in {"build", "parse", "trim", "fatal", "order", "cycle"}
  BY <1>0, <1>1, NothingIsUp DEF OrderInv
<1>2. CASE phase = "init"
  <2>1. next - 1 \in Nat /\ next - 1 <= Len(ordered) /\ Progress(next - 1, "initialized", "none") /\ Sorted /\ Remaining = {}
    BY <1>0, <1>2 DEF OrderInv
  <2> QED
    BY <1>0, <2>1, ProgressIsOrdered
<1>3. CASE phase = "start"
  <2>1. next - 1 \in Nat /\ next - 1 <= Len(ordered) /\ Progress(next - 1, "started", "initialized") /\ Sorted /\ Remaining = {}
    BY <1>0, <1>3 DEF OrderInv
  <2> QED
    BY <1>0, <2>1, ProgressIsOrdered
<1>4. CASE phase = "close"
  <2>1. next \in Nat /\ next <= Len(ordered) /\ Progress(next, "started", "closed") /\ Sorted /\ Remaining = {}
    BY <1>0, <1>4 DEF OrderInv
  <2> QED
    BY <1>0, <2>1, ProgressIsOrdered
<1>5. CASE phase = "closed"
  <2>1. 0 <= Len(ordered) /\ Progress(0, "started", "closed") /\ Sorted /\ Remaining = {}
    BY <1>0, <1>5 DEF OrderInv
  <2> QED
    BY <1>0, <2>1, ProgressIsOrdered
<1>6. CASE phase \in {"failed", "crashed"}
  BY <1>6 DEF OrderInv
<1> QED
  BY <1>0, <1>1, <1>2, <1>3, <1>4, <1>5, <1>6 DEF Phases

-----------------------------------------------------------------------------
(* Lemmas about requests and counters *)

LEMMA RequestTypes ==
  ASSUME wiring \in Wirings, NEW t \in Types
  PROVE  /\ Requests(t) \in Seq(Types) /\ Len(Requests(t)) \in Nat
         /\ \A i \in 1..Len(Requests(t)) : Requests(t)[i] \in Types
         /\ Requested(t) \subseteq Types
<1>1. wiring.params[t] \in Seq(Types) /\ wiring.impls[t] \in Seq(Types)
  BY ManagerAssumption DEF Wiring
<1>2. Requests(t) \in Seq(Types)
  BY <1>1 DEF Requests
<1>3. Len(Requests(t)) \in Nat /\ \A i \in 1..Len(Requests(t)) : Requests(t)[i] \in Types
  BY <1>2
<1> QED
  BY <1>2, <1>3 DEF Requested

\* The requests of t come from its parameters or from its implementations.
LEMMA RequestOrigins ==
  ASSUME wiring \in Wirings, NEW t \in Types, NEW d
  PROVE  /\ d \in Impls(t) => d \in Requested(t)
         /\ d \in Requested(t) => d \in Impls(t) \/ \E i \in DOMAIN wiring.params[t] : wiring.params[t][i] = d
         /\ d \in Impls(t) <=> Provides(wiring, t, d)
<1> DEFINE a == wiring.params[t]
           b == wiring.impls[t]
<1>1. a \in Seq(Types) /\ b \in Seq(Types)
  BY ManagerAssumption DEF Wiring
<1>3. Requests(t) = a \o b
  BY DEF Requests
<1> HIDE DEF a, b
<1>2. /\ Len(a) \in Nat /\ Len(b) \in Nat /\ Len(a \o b) = Len(a) + Len(b)
      /\ DOMAIN a = 1..Len(a) /\ DOMAIN b = 1..Len(b)
      /\ \A i \in 1..Len(a) : (a \o b)[i] = a[i]
      /\ \A i \in 1..Len(b) : (a \o b)[Len(a) + i] = b[i]
  <2>1. Len(a) \in Nat /\ Len(b) \in Nat /\ DOMAIN a = 1..Len(a) /\ DOMAIN b = 1..Len(b)
    BY <1>1
  <2>2. Len(a \o b) = Len(a) + Len(b)
    BY <1>1
  <2>3. \A i \in 1..Len(a) : (a \o b)[i] = a[i]
    BY <1>1, <2>1
  <2>4. ASSUME NEW i \in 1..Len(b) PROVE (a \o b)[Len(a) + i] = b[i]
    <3>1. Len(a) + i \in 1..(Len(a) + Len(b)) /\ ~(Len(a) + i <= Len(a)) /\ (Len(a) + i) - Len(a) = i
      BY <2>1
    <3> QED
      BY <1>1, <2>1, <3>1
  <2> QED
    BY <2>1, <2>2, <2>3, <2>4
<1>4. ASSUME d \in Impls(t) PROVE d \in Requested(t)
  <2>1. PICK i \in 1..Len(b) : b[i] = d
    BY <1>2, <1>4 DEF Impls, b
  <2>2. Len(a) + i \in 1..Len(a \o b) /\ (a \o b)[Len(a) + i] = d
    BY <1>2, <2>1
  <2> QED
    BY <1>3, <2>2 DEF Requested
<1>5. ASSUME d \in Requested(t) PROVE d \in Impls(t) \/ \E i \in DOMAIN a : a[i] = d
  <2>1. PICK i \in 1..Len(a \o b) : (a \o b)[i] = d
    BY <1>3, <1>5 DEF Requested
  <2>2. CASE i <= Len(a)
    <3>1. i \in 1..Len(a)
      BY <1>2, <2>1, <2>2
    <3> QED
      BY <1>2, <2>1, <3>1
  <2>3. CASE i > Len(a)
    <3> DEFINE j == i - Len(a)
    <3>1. j \in 1..Len(b) /\ Len(a) + j = i
      BY <1>2, <2>1, <2>3
    <3> HIDE DEF j
    <3>2. b[j] = d
      BY <1>2, <2>1, <3>1
    <3> QED
      BY <1>2, <3>1, <3>2 DEF Impls, b
  <2> QED
    BY <1>2, <2>1, <2>2, <2>3
<1>6. d \in Impls(t) <=> Provides(wiring, t, d)
  BY DEF Impls, Provides
<1> QED
  BY <1>4, <1>5, <1>6 DEF a

LEMMA ReceivedGrows ==
  ASSUME wiring \in Wirings, NEW t \in Types, NEW n \in 1..(Len(Requests(t)) + 1)
  PROVE  /\ Received(t, 1) = {}
         /\ n <= Len(Requests(t)) => Received(t, n + 1) = Received(t, n) \cup {Requests(t)[n]}
         /\ n > Len(Requests(t)) => Received(t, n) = Requested(t)
<1>0. Len(Requests(t)) \in Nat /\ n \in Nat /\ n >= 1
  BY RequestTypes
<1>1. Received(t, 1) = {}
  BY DEF Received
<1>2. ASSUME n <= Len(Requests(t)) PROVE Received(t, n + 1) = Received(t, n) \cup {Requests(t)[n]}
  <2>1. (n + 1) - 1 = n /\ \A j : j \in 1..n <=> j \in 1..(n - 1) \/ j = n
    BY <1>0
  <2> QED
    BY <2>1 DEF Received
<1>3. ASSUME n > Len(Requests(t)) PROVE Received(t, n) = Requested(t)
  <2>1. n - 1 = Len(Requests(t))
    BY <1>0, <1>3
  <2> QED
    BY <2>1 DEF Received, Requested
<1> QED
  BY <1>1, <1>2, <1>3

\* What t receives again it has requested twice.
LEMMA ReceivedTwice ==
  ASSUME wiring \in Wirings, NEW t \in Types, NEW n \in 1..Len(Requests(t)), Requests(t)[n] \in Received(t, n)
  PROVE  RequestedTwice(Requests(t)[n])
<1> DEFINE d == Requests(t)[n]
           R == Requests(t)
           P == {i \in DOMAIN R : R[i] = d}
<1>1. R \in Seq(Types) /\ Len(R) \in Nat /\ DOMAIN R = 1..Len(R)
  BY RequestTypes
<1>2. PICK j \in 1..(n - 1) : R[j] = d
  BY DEF Received
<1>3. j \in P /\ n \in P /\ j # n
  BY <1>1, <1>2
<1>4. IsFiniteSet(1..Len(R)) /\ P \subseteq 1..Len(R)
  BY <1>1, FS_Interval
<1>5. IsFiniteSet(P)
  BY <1>4, FS_Subset
<1> HIDE DEF P
<1>6. IsFiniteSet(P \ {j}) /\ Cardinality(P \ {j}) = Cardinality(P) - 1 /\ n \in P \ {j}
  BY <1>3, <1>5, FS_RemoveElement
<1>7. Cardinality(P) \in Nat /\ Cardinality(P \ {j}) \in Nat /\ Cardinality(P \ {j}) # 0
  BY <1>5, <1>6, FS_CardinalityType, FS_EmptySet
<1>8. Cardinality(P) > 1
  BY <1>6, <1>7
<1> QED
  BY <1>8 DEF RequestedTwice, P

LEMMA UsersFinite ==
  ASSUME NEW S \in SUBSET Types, NEW d
  PROVE  /\ IsFiniteSet(Users(S, d)) /\ Cardinality(Users(S, d)) \in Nat
         /\ \A u \in Users(S, d) : Cardinality(Users(S, d)) > 0
<1>1. Users(S, d) \subseteq Types
  BY DEF Users
<1>2. IsFiniteSet(Users(S, d))
  BY <1>1, ManagerAssumption, FS_Subset
<1>3. Cardinality(Users(S, d)) \in Nat
  BY <1>2, FS_CardinalityType
<1>4. Users(S, d) # {} => Cardinality(Users(S, d)) # 0
  BY <1>2, FS_EmptySet
<1> QED
  BY <1>2, <1>3, <1>4

\* A component receives another and is counted.
LEMMA CountReceived ==
  ASSUME Counted(Types), dependents \in [Types -> Nat], dependencies \in [Types -> SUBSET Types], UNCHANGED wiring,
         NEW u \in Types, NEW t \in Types,
         dependents' = [dependents EXCEPT ![t] = @ + 1],
         dependencies' = [dependencies EXCEPT ![u] = @ \cup {t}],
         t \in dependencies[u] => RequestedTwice(t)
  PROVE  Counted(Types)'
<1> SUFFICES ASSUME NEW d \in Types PROVE CountOf(Types, d)'
  BY DEF Counted
<1>0. RequestedTwice(d)' <=> RequestedTwice(d)
  BY DEF RequestedTwice, Requests
<1>1. CASE d # t
  <2>1. dependents'[d] = dependents[d]
    BY <1>1
  <2>2. Users(Types, d)' = Users(Types, d)
    BY <1>1 DEF Users
  <2>3. Cardinality(Users(Types, d))' = Cardinality(Users(Types, d))
    BY <2>2
  <2> QED
    BY <1>0, <2>1, <2>3 DEF Counted, CountOf
<1>2. CASE d = t
  <2>1. dependents'[d] = dependents[d] + 1 /\ dependents[d] \in Nat
    BY <1>2
  <2>2. Users(Types, d)' = Users(Types, d) \cup {u}
    BY <1>2 DEF Users
  <2>3. IsFiniteSet(Users(Types, d)) /\ Cardinality(Users(Types, d)) \in Nat
    BY UsersFinite
  <2>4. Cardinality(Users(Types, d) \cup {u})
          = IF u \in Users(Types, d) THEN Cardinality(Users(Types, d)) ELSE Cardinality(Users(Types, d)) + 1
    BY <2>3, FS_AddElement
  <2>5. u \in Users(Types, d) => RequestedTwice(d)
    BY <1>2 DEF Users
  <2>6. CountOf(Types, d)
    BY DEF Counted
  <2>7. Cardinality(Users(Types, d))'
          = IF u \in Users(Types, d) THEN Cardinality(Users(Types, d)) ELSE Cardinality(Users(Types, d)) + 1
    BY <2>2, <2>4
  <2> HIDE DEF Users
  <2> QED
    BY <1>0, <2>1, <2>3, <2>5, <2>6, <2>7 DEF CountOf
<1> QED
  BY <1>1, <1>2

-----------------------------------------------------------------------------
(* Build *)

\* The new stack, in terms of the wiring that stays.
LEMMA StackIsSound ==
  ASSUME UNCHANGED wiring,
         \A i \in 1..Len(stack') :
           /\ stack'[i].ty \notin factories' \cup components'
           /\ stack'[i].at \in 1..(Len(Requests(stack'[i].ty)) + 1)
           /\ dependencies'[stack'[i].ty] = Received(stack'[i].ty, stack'[i].at),
         \A i \in 1..(Len(stack') - 1) :
           /\ stack'[i].at <= Len(Requests(stack'[i].ty))
           /\ stack'[i + 1].ty = Requests(stack'[i].ty)[stack'[i].at],
         \A i, j \in 1..Len(stack') : stack'[i].ty = stack'[j].ty => i = j
  PROVE  StackSound(stack, components)'
<1>1. ASSUME NEW i \in 1..Len(stack')
      PROVE  /\ stack'[i].ty \notin factories' \cup components'
             /\ stack'[i].at \in 1..(Len(Requests(stack[i].ty)') + 1)
             /\ dependencies'[stack'[i].ty] = Received(stack[i].ty, stack[i].at)'
  <2>1. Requests(stack[i].ty)' = Requests(stack'[i].ty)
    BY DEF Requests
  <2>2. Received(stack[i].ty, stack[i].at)' = Received(stack'[i].ty, stack'[i].at)
    BY <2>1 DEF Received
  <2> QED
    BY <2>1, <2>2
<1>2. ASSUME NEW i \in 1..(Len(stack') - 1)
      PROVE  /\ stack'[i].at <= Len(Requests(stack[i].ty)')
             /\ stack'[i + 1].ty = Requests(stack[i].ty)'[stack'[i].at]
  <2>1. Requests(stack[i].ty)' = Requests(stack'[i].ty)
    BY DEF Requests
  <2> QED
    BY <2>1
<1> QED
  BY <1>1, <1>2 DEF StackSound

\* What depends on the wiring and the counters only.
LEMMA CountsStay ==
  ASSUME UNCHANGED <<wiring, dependents, dependencies>>, NEW S
  PROVE  /\ Counted(S) => Counted(S)'
         /\ ListImplsCounted => ListImplsCounted'
<1>1. ASSUME NEW d \in Types, CountOf(S, d) PROVE CountOf(S, d)'
  <2>1. Users(S, d)' = Users(S, d) /\ (RequestedTwice(d)' <=> RequestedTwice(d)) /\ dependents'[d] = dependents[d]
    BY DEF Users, RequestedTwice, Requests
  <2> QED
    BY <1>1, <2>1 DEF CountOf
<1>2. ListImplsCounted => ListImplsCounted'
  BY DEF ListImplsCounted, Kind
<1> QED
  BY <1>1, <1>2 DEF Counted

\* The component on top of s receives what it is waiting for, which is built.
LEMMA ReceivesSound ==
  ASSUME CountTypes, Counted(Types), ListImplsCounted, NEW s \in Seq(Entry), s # <<>>, UNCHANGED <<wiring, factories>>,
         StackSound(s, components'), components' \subseteq Types,
         s[Len(s)].at <= Len(Requests(s[Len(s)].ty)),
         NEW t, t = Requests(s[Len(s)].ty)[s[Len(s)].at],
         Receives(s, t)
  PROVE  /\ dependents' \in [Types -> Nat] /\ dependencies' \in [Types -> SUBSET Types]
         /\ phase' # phase => phase' = "failed"
         /\ phase' = phase /\ phase # "failed" =>
              /\ StackSound(stack, components)' /\ Counted(Types)' /\ ListImplsCounted'
              /\ Len(stack') = Len(s) /\ \A i \in 1..Len(s) : stack'[i].ty = s[i].ty
              /\ \A u \in factories \cup components' : dependencies'[u] = dependencies[u]
<1> DEFINE n == Len(s)
           u == s[n].ty
           m == s[n].at
<1>0. /\ n \in Nat /\ n \in 1..n /\ \A i \in 1..n : s[i] \in Entry /\ s[i].ty \in Types /\ s[i].at \in Nat
  <2>1. n \in Nat /\ n \in 1..n /\ \A i \in 1..n : s[i] \in Entry
    OBVIOUS
  <2> QED
    BY <2>1 DEF Entry
<1>1. u \in Types /\ m \in Nat /\ m >= 1 /\ Len(Requests(u)) \in Nat /\ t \in Types /\ m \in 1..Len(Requests(u))
      /\ dependencies[u] = Received(u, m) /\ u \notin factories \cup components'
  <2>1. u \in Types /\ m \in Nat /\ dependencies[u] = Received(u, m) /\ u \notin factories \cup components'
        /\ m \in 1..(Len(Requests(u)) + 1)
    BY <1>0 DEF StackSound
  <2>2. Len(Requests(u)) \in Nat /\ \A i \in 1..Len(Requests(u)) : Requests(u)[i] \in Types
    BY <2>1, RequestTypes DEF CountTypes
  <2> QED
    BY <2>1, <2>2
<1>2. dependents' = [dependents EXCEPT ![t] = @ + 1] /\ dependents' \in [Types -> Nat]
  BY <1>1 DEF Receives, CountTypes
<1>3. CASE phase' = "failed" /\ UNCHANGED dependencies
  BY <1>2, <1>3 DEF CountTypes
<1>4. CASE /\ ~(Kind(t) = "listImpl" /\ dependents[t] > 0)
           /\ dependencies' = [dependencies EXCEPT ![u] = @ \cup {t}]
           /\ stack' = [s EXCEPT ![n].at = @ + 1]
           /\ phase' = phase
  <2>1. dependencies' \in [Types -> SUBSET Types] /\ dependencies'[u] = dependencies[u] \cup {t}
        /\ \A v \in Types : v # u => dependencies'[v] = dependencies[v]
    BY <1>1, <1>4 DEF CountTypes
  <2>2. /\ Len(stack') = n /\ \A i \in 1..n : i # n => stack'[i] = s[i]
        /\ stack'[n].ty = u /\ stack'[n].at = m + 1
    <3>0. DOMAIN s = 1..n
      OBVIOUS
    <3>1. stack' = [s EXCEPT ![n] = [s[n] EXCEPT !.at = @ + 1]]
      BY <1>4
    <3>2. [s[n] EXCEPT !.at = @ + 1] = [ty |-> u, at |-> m + 1]
      <4>1. s[n] = [ty |-> s[n].ty, at |-> s[n].at]
        BY <1>0 DEF Entry
      <4>2. [s[n] EXCEPT !.at = @ + 1] = [ty |-> s[n].ty, at |-> s[n].at + 1]
        BY <4>1
      <4> QED
        BY <4>2
    <3>3. stack' = [s EXCEPT ![n] = [ty |-> u, at |-> m + 1]]
      BY <3>1, <3>2
    <3>4. Len(stack') = n
      BY <1>0, <3>0, <3>3
    <3>5. \A i \in 1..n : i # n => stack'[i] = s[i]
      BY <1>0, <3>0, <3>3
    <3>6. stack'[n] = [ty |-> u, at |-> m + 1]
      BY <1>0, <3>0, <3>3
    <3> QED
      BY <3>4, <3>5, <3>6
  <2>3. Counted(Types)'
    <3>1. t \in dependencies[u] => RequestedTwice(t)
      BY <1>1, ReceivedTwice DEF CountTypes
    <3>2. /\ dependents \in [Types -> Nat] /\ dependencies \in [Types -> SUBSET Types] /\ UNCHANGED wiring
          /\ dependencies' = [dependencies EXCEPT ![u] = @ \cup {t}] /\ u \in Types /\ t \in Types
      BY <1>1, <1>4 DEF CountTypes
    <3> HIDE DEF u, m, n
    <3> QED
      BY <1>2, <3>1, <3>2, CountReceived
  <2>4. ListImplsCounted'
    <3> SUFFICES ASSUME NEW d \in Types, Kind(d) = "listImpl" PROVE dependents'[d] <= 1
      BY DEF ListImplsCounted, Kind
    <3>1. CASE d = t
      BY <1>1, <1>2, <1>4, <3>1 DEF CountTypes
    <3>2. CASE d # t
      BY <1>1, <1>2, <3>2 DEF CountTypes, ListImplsCounted
    <3> QED
      BY <3>1, <3>2
  <2>5. \A v, k : (Requests(v)' = Requests(v)) /\ (Received(v, k)' = Received(v, k))
    BY DEF Requests, Received
  <2>6. \A i \in 1..n : stack'[i].ty = s[i].ty
    BY <2>2
  <2>7. StackSound(stack, components)'
    <3>1. ASSUME NEW i \in 1..n
          PROVE  /\ stack'[i].ty \notin factories' \cup components'
                 /\ stack'[i].at \in 1..(Len(Requests(stack'[i].ty)) + 1)
                 /\ dependencies'[stack'[i].ty] = Received(stack'[i].ty, stack'[i].at)
      <4>1. CASE i = n
        <5>0. m \in 1..(Len(Requests(u)) + 1) /\ m <= Len(Requests(u))
          BY <1>1
        <5>1. Received(u, m + 1) = Received(u, m) \cup {t}
          BY <1>1, <5>0, ReceivedGrows DEF CountTypes
        <5>2. m + 1 \in 1..(Len(Requests(u)) + 1)
          BY <1>1
        <5> QED
          BY <1>1, <2>1, <2>2, <4>1, <5>1, <5>2
      <4>2. CASE i # n
        <5>1. s[i].ty # u /\ s[i].ty \in Types
          BY <1>0, <4>2 DEF StackSound
        <5>2. dependencies'[s[i].ty] = dependencies[s[i].ty]
          BY <2>1, <5>1
        <5> QED
          BY <2>2, <4>2, <5>2 DEF StackSound
      <4> QED
        BY <4>1, <4>2
    <3>2. ASSUME NEW i \in 1..(n - 1)
          PROVE  /\ stack'[i].at <= Len(Requests(stack'[i].ty))
                 /\ stack'[i + 1].ty = Requests(stack'[i].ty)[stack'[i].at]
      <4>1. i \in 1..n /\ i + 1 \in 1..n /\ i # n
        BY <1>0
      <4> QED
        BY <2>2, <2>6, <4>1 DEF StackSound
    <3>3. \A i, j \in 1..n : stack'[i].ty = stack'[j].ty => i = j
      BY <2>6 DEF StackSound
    <3> HIDE DEF n, u, m
    <3> QED
      BY <2>2, <3>1, <3>2, <3>3, StackIsSound
  <2>8. \A v \in factories \cup components' : dependencies'[v] = dependencies[v]
    BY <1>1, <2>1 DEF CountTypes
  <2> QED
    BY <1>2, <1>4, <2>1, <2>2, <2>3, <2>4, <2>6, <2>7, <2>8
<1> QED
  BY <1>3, <1>4 DEF Receives

LEMMA BuildingNow ==
  ASSUME UNCHANGED wiring, StackSound(stack, components)', Counted(Types)', ListImplsCounted',
         \A t \in Types : t \in factories' \/ t \in components' \/ \E i \in 1..Len(stack') : stack'[i].ty = t,
         factories' \cap components' = {},
         \A t \in factories' : dependencies'[t] = {},
         \A t \in components' : dependencies'[t] = Requested(t)
  PROVE  Building'
<1>1. ASSUME NEW t PROVE Requested(t)' = Requested(t)
  BY DEF Requested, Requests
<1>2. \A t \in components' : dependencies'[t] = Requested(t)'
  BY <1>1
<1> QED
  BY <1>2 DEF Building

\* What the phase of building requires of the next state.
LEMMA StillBuilding ==
  ASSUME CountInv, phase = "build", UNCHANGED <<wiring, pass, disabled>>,
         stack' \in Seq(Entry), factories' \subseteq Types, components' \subseteq Types,
         dependents' \in [Types -> Nat], dependencies' \in [Types -> SUBSET Types],
         phase' \in {"build", "failed"}, phase' = "build" => Building'
  PROVE  CountInv'
<1>1. CountTypes' /\ disabled' = {}
  BY DEF CountInv, CountTypes
<1>2. NothingMissing' /\ NothingIdle'
  BY DEF NothingMissing, NothingIdle, Trimmed
<1> QED
  BY <1>1, <1>2 DEF CountInv

LEMMA BuildCount == ASSUME CountInv, Build PROVE CountInv'
<1> USE DEF config, lifecycle
<1>0. /\ CountTypes /\ Building /\ phase = "build" /\ stack = <<>> /\ stack \in Seq(Entry)
      /\ UNCHANGED <<wiring, components, pass, disabled, dependents, dependencies>>
  BY DEF Build, CountInv, CountTypes
<1>1. Counted(Types)' /\ ListImplsCounted'
  BY <1>0, CountsStay DEF Building
<1>2. ASSUME NEW t \in factories, factories' = factories \ {t}, stack' = <<[ty |-> t, at |-> 1]>>, phase' = phase
      PROVE  CountInv'
  <2>1. t \in Types /\ Len(stack') = 1 /\ stack'[1].ty = t /\ stack'[1].at = 1 /\ stack' \in Seq(Entry)
    BY <1>0, <1>2 DEF Entry, CountTypes
  <2>2. 1 \in 1..(Len(Requests(t)) + 1) /\ Received(t, 1) = {}
    <3>1. Len(Requests(t)) \in Nat
      BY <1>0, <2>1, RequestTypes DEF CountTypes
    <3>2. 1 \in 1..(Len(Requests(t)) + 1)
      BY <3>1
    <3> QED
      BY <1>0, <2>1, <3>2, ReceivedGrows DEF CountTypes
  <2>3. t \notin factories' /\ t \notin components' /\ dependencies'[t] = {}
    BY <1>0, <1>2 DEF Building
  <2>4. StackSound(stack, components)'
    <3>1. 1..Len(stack') = {1} /\ 1..(Len(stack') - 1) = {}
      BY <2>1
    <3> QED
      BY <1>0, <2>1, <2>2, <2>3, <3>1, StackIsSound
  <2>5. \A v \in Types : v \in factories' \/ v \in components' \/ \E i \in 1..Len(stack') : stack'[i].ty = v
    <3>1. \A v \in Types : v \in factories \/ v \in components
      BY <1>0 DEF Building
    <3>2. 1 \in 1..Len(stack')
      BY <2>1
    <3> QED
      BY <1>0, <1>2, <2>1, <3>1, <3>2
  <2>6. /\ factories' \cap components' = {}
        /\ \A v \in factories' : dependencies'[v] = {}
        /\ \A v \in components' : dependencies'[v] = Requested(v)
    BY <1>0, <1>2 DEF Building
  <2>7. Building'
    BY <1>0, <1>1, <2>4, <2>5, <2>6, BuildingNow
  <2> QED
    BY <1>0, <1>2, <2>1, <2>7, StillBuilding DEF CountTypes
<1>3. ASSUME factories = {}, phase' = "parse", UNCHANGED <<stack, factories>>
      PROVE  CountInv'
  <2>1. components' = Types
    <3>1. components \subseteq Types /\ \A v \in Types : v \in components \/ \E i \in 1..Len(stack) : stack[i].ty = v
      BY <1>0, <1>3 DEF Building, CountTypes
    <3>2. 1..Len(stack) = {}
      BY <1>0
    <3> QED
      BY <1>0, <3>1, <3>2
  <2>2. \A v \in Types : dependencies'[v] = Requested(v)'
    <3>1. \A v \in Types : dependencies'[v] = Requested(v)
      BY <1>0, <2>1 DEF Building
    <3>2. \A v \in Types : Requested(v)' = Requested(v)
      BY <1>0 DEF Requested, Requests
    <3> QED
      BY <3>1, <3>2
  <2>3. CountTypes' /\ disabled' = {}
    BY <1>0, <1>3 DEF CountInv, CountTypes
  <2>4. NothingMissing' /\ NothingIdle'
    BY <1>3 DEF NothingMissing, NothingIdle, Trimmed
  <2> QED
    BY <1>1, <1>3, <2>1, <2>2, <2>3, <2>4 DEF CountInv, Built
<1> QED
  BY <1>2, <1>3 DEF Build

LEMMA ResolveCount == ASSUME CountInv, resolve PROVE CountInv'
<1> USE DEF config, lifecycle
<1> DEFINE n == Len(stack)
           u == Top.ty
           m == Top.at
           req == Requests(u)[m]
<1>0. /\ CountTypes /\ Building /\ phase = "build" /\ stack # <<>> /\ stack \in Seq(Entry)
      /\ UNCHANGED <<wiring, components, pass, disabled>> /\ m <= Len(Requests(u)) /\ wiring \in Wirings
  BY DEF resolve, CountInv, CountTypes
<1>1. n \in Nat /\ n >= 1 /\ n \in 1..n /\ u = stack[n].ty /\ m = stack[n].at /\ u \in Types /\ m \in Nat
  BY <1>0, PopStack
<1>2. Len(Requests(u)) \in Nat /\ m \in 1..Len(Requests(u)) /\ req \in Types
  <2>1. Len(Requests(u)) \in Nat /\ \A i \in 1..Len(Requests(u)) : Requests(u)[i] \in Types
    BY <1>0, <1>1, RequestTypes
  <2>2. m >= 1
    BY <1>0, <1>1 DEF Building, StackSound
  <2> QED
    BY <1>0, <1>1, <2>1, <2>2
<1>3. ASSUME req \in factories, factories' = factories \ {req}, stack' = Append(stack, [ty |-> req, at |-> 1]),
             UNCHANGED <<phase, dependents, dependencies>>
      PROVE  CountInv'
  <2> DEFINE f == [ty |-> req, at |-> 1]
  <2>0. f \in Entry /\ f.ty = req /\ f.at = 1
    BY <1>2 DEF Entry
  <2> HIDE DEF f
  <2>1. /\ stack' \in Seq(Entry) /\ Len(stack') = n + 1 /\ stack'[n + 1].ty = req /\ stack'[n + 1].at = 1
        /\ \A i \in 1..n : stack'[i] = stack[i]
    BY <1>0, <1>1, <1>3, <2>0 DEF f
  <2> HIDE DEF req, u, m
  <2>2. 1 \in 1..(Len(Requests(req)) + 1) /\ Received(req, 1) = {}
    <3>1. Len(Requests(req)) \in Nat
      BY <1>0, <1>2, RequestTypes
    <3>2. 1 \in 1..(Len(Requests(req)) + 1)
      BY <3>1
    <3> QED
      BY <1>0, <1>2, <3>2, ReceivedGrows
  <2>3. req \notin factories' /\ req \notin components' /\ dependencies'[req] = {}
    BY <1>0, <1>3 DEF Building
  <2>4. \A i \in 1..n : stack[i].ty # req
    BY <1>0, <1>3 DEF Building, StackSound
  <2>5. ASSUME NEW i \in 1..Len(stack')
        PROVE  /\ stack'[i].ty \notin factories' \cup components'
               /\ stack'[i].at \in 1..(Len(Requests(stack'[i].ty)) + 1)
               /\ dependencies'[stack'[i].ty] = Received(stack'[i].ty, stack'[i].at)
    <3>1. CASE i = n + 1
      BY <2>1, <2>2, <2>3, <3>1
    <3>2. CASE i \in 1..n
      <4>1. /\ stack[i].ty \notin factories \cup components
            /\ stack[i].at \in 1..(Len(Requests(stack[i].ty)) + 1)
            /\ dependencies[stack[i].ty] = Received(stack[i].ty, stack[i].at)
        BY <1>0, <3>2 DEF Building, StackSound
      <4> QED
        BY <1>0, <1>3, <2>1, <3>2, <4>1
    <3> QED
      BY <1>1, <2>1, <2>5, <3>1, <3>2
  <2>6. ASSUME NEW i \in 1..(Len(stack') - 1)
        PROVE  /\ stack'[i].at <= Len(Requests(stack'[i].ty))
               /\ stack'[i + 1].ty = Requests(stack'[i].ty)[stack'[i].at]
    <3>1. CASE i = n
      BY <1>0, <1>1, <2>1, <3>1 DEF req
    <3>2. CASE i # n
      <4>1. i \in 1..(n - 1) /\ i \in 1..n /\ i + 1 \in 1..n
        BY <1>1, <2>1, <2>6, <3>2
      <4>2. stack[i].at <= Len(Requests(stack[i].ty)) /\ stack[i + 1].ty = Requests(stack[i].ty)[stack[i].at]
        BY <1>0, <4>1 DEF Building, StackSound
      <4> QED
        BY <2>1, <4>1, <4>2
    <3> QED
      BY <3>1, <3>2
  <2>7. ASSUME NEW i \in 1..Len(stack'), NEW j \in 1..Len(stack'), stack'[i].ty = stack'[j].ty PROVE i = j
    <3>1. CASE i \in 1..n /\ j \in 1..n
      BY <1>0, <2>1, <2>7, <3>1 DEF Building, StackSound
    <3>2. CASE i = n + 1 \/ j = n + 1
      BY <1>1, <2>1, <2>4, <2>7, <3>2
    <3> QED
      BY <1>1, <2>1, <2>7, <3>1, <3>2
  <2>8. StackSound(stack, components)'
    BY <1>0, <2>5, <2>6, <2>7, StackIsSound
  <2>9. \A v \in Types : v \in factories' \/ v \in components' \/ \E i \in 1..Len(stack') : stack'[i].ty = v
    <3> SUFFICES ASSUME NEW v \in Types, v \notin factories', v \notin components'
                 PROVE  \E i \in 1..Len(stack') : stack'[i].ty = v
      OBVIOUS
    <3>1. CASE v = req
      BY <1>1, <2>1, <3>1
    <3>2. CASE v # req
      <4>1. PICK i \in 1..n : stack[i].ty = v
        BY <1>0, <1>3, <3>2 DEF Building
      <4>2. i \in 1..Len(stack') /\ stack'[i] = stack[i]
        BY <1>1, <2>1
      <4> QED
        BY <4>1, <4>2
    <3> QED
      BY <3>1, <3>2
  <2>10. /\ factories' \cap components' = {}
         /\ \A v \in factories' : dependencies'[v] = {}
         /\ \A v \in components' : dependencies'[v] = Requested(v)
    BY <1>0, <1>3 DEF Building
  <2>11. Counted(Types)' /\ ListImplsCounted'
    BY <1>0, <1>3, CountsStay DEF Building
  <2>12. Building'
    BY <1>0, <2>8, <2>9, <2>10, <2>11, BuildingNow
  <2> QED
    BY <1>0, <1>3, <2>1, <2>12, StillBuilding DEF CountTypes
<1>4. ASSUME req \in components, Receives(stack, req), UNCHANGED factories PROVE CountInv'
  <2>1. StackSound(stack, components') /\ Counted(Types) /\ ListImplsCounted /\ components' \subseteq Types
    BY <1>0 DEF Building, CountTypes
  <2>2. /\ dependents' \in [Types -> Nat] /\ dependencies' \in [Types -> SUBSET Types]
        /\ phase' # phase => phase' = "failed"
        /\ phase' = phase /\ phase # "failed" =>
             /\ StackSound(stack, components)' /\ Counted(Types)' /\ ListImplsCounted'
             /\ Len(stack') = n /\ \A i \in 1..n : stack'[i].ty = stack[i].ty
             /\ \A v \in factories \cup components' : dependencies'[v] = dependencies[v]
    BY <1>0, <1>1, <1>4, <2>1, ReceivesSound
  <2>3. stack' \in Seq(Entry)
    BY <1>0, <1>4, ReceivesStack
  <2>4. ASSUME phase' = "build" PROVE Building'
    <3>1. \A v \in Types : v \in factories' \/ v \in components' \/ \E i \in 1..Len(stack') : stack'[i].ty = v
      BY <1>0, <1>4, <2>2, <2>4 DEF Building
    <3>2. /\ factories' \cap components' = {}
          /\ \A v \in factories' : dependencies'[v] = {}
          /\ \A v \in components' : dependencies'[v] = Requested(v)
      BY <1>0, <1>4, <2>2, <2>4 DEF Building
    <3> QED
      BY <1>0, <2>2, <2>4, <3>1, <3>2, BuildingNow
  <2> QED
    BY <1>0, <1>4, <2>2, <2>3, <2>4, StillBuilding DEF CountTypes
<1>5. ASSUME phase' = "failed", UNCHANGED <<stack, factories, dependents, dependencies>> PROVE CountInv'
  BY <1>0, <1>5, StillBuilding DEF CountTypes
<1> QED
  BY <1>3, <1>4, <1>5 DEF resolve

LEMMA ConstructCount == ASSUME CountInv, construct PROVE CountInv'
<1> USE DEF config, lifecycle
<1> DEFINE n == Len(stack)
           u == Top.ty
<1>0. /\ CountTypes /\ Building /\ phase = "build" /\ stack # <<>> /\ stack \in Seq(Entry) /\ components \subseteq Types
      /\ UNCHANGED <<wiring, factories, pass, disabled>> /\ wiring \in Wirings /\ components' = components \cup {u}
      /\ Top.at > Len(Requests(u))
  BY DEF construct, CountInv, CountTypes
<1>1. /\ n \in Nat /\ n >= 1 /\ n \in 1..n /\ u = stack[n].ty /\ Top.at = stack[n].at /\ u \in Types
      /\ Popped \in Seq(Entry) /\ Len(Popped) = n - 1 /\ \A i \in 1..Len(Popped) : i \in 1..n /\ Popped[i] = stack[i]
  BY <1>0, PopStack
<1>2. dependencies[u] = Requested(u) /\ u \notin factories /\ components' \subseteq Types
  <2>1. /\ Top.at \in 1..(Len(Requests(u)) + 1) /\ dependencies[u] = Received(u, Top.at) /\ u \notin factories
    BY <1>0, <1>1 DEF Building, StackSound
  <2> QED
    BY <1>0, <1>1, <2>1, ReceivedGrows
<1> HIDE DEF u
<1>3. /\ factories' \cap components' = {} /\ (\A v \in factories : dependencies[v] = {})
      /\ \A v \in components' : dependencies[v] = Requested(v)
  BY <1>0, <1>2 DEF Building
<1>4. ASSUME n = 1, stack' = <<>>, UNCHANGED <<phase, dependents, dependencies>> PROVE CountInv'
  <2>1. StackSound(stack, components)'
    <3>1. 1..Len(stack') = {} /\ 1..(Len(stack') - 1) = {}
      BY <1>4
    <3> QED
      BY <1>0, <3>1, StackIsSound
  <2>2. \A v \in Types : v \in factories' \/ v \in components' \/ \E i \in 1..Len(stack') : stack'[i].ty = v
    <3>1. \A v \in Types : v \in factories \/ v \in components \/ \E i \in 1..n : stack[i].ty = v
      BY <1>0 DEF Building
    <3>2. 1..n = {1}
      BY <1>4
    <3> QED
      BY <1>0, <1>1, <1>4, <3>1, <3>2
  <2>3. Counted(Types)' /\ ListImplsCounted'
    BY <1>0, <1>4, CountsStay DEF Building
  <2>4. Building'
    BY <1>0, <1>3, <1>4, <2>1, <2>2, <2>3, BuildingNow
  <2>5. stack' \in Seq(Entry)
    BY <1>4
  <2> QED
    BY <1>0, <1>2, <1>4, <2>4, <2>5, StillBuilding DEF CountTypes
<1>5. ASSUME n > 1, Receives(Popped, u) PROVE CountInv'
  <2> DEFINE k == n - 1
  <2>1. /\ k \in Nat /\ k \in 1..n /\ k + 1 = n /\ Len(Popped) = k /\ k \in 1..k /\ Popped # <<>> /\ k \in 1..(n - 1)
        /\ \A i \in 1..k : i \in 1..n /\ i # n /\ Popped[i] = stack[i]
    BY <1>1, <1>5
  <2> HIDE DEF k
  <2>2. Popped[k].at <= Len(Requests(Popped[k].ty)) /\ u = Requests(Popped[k].ty)[Popped[k].at]
    <3>1. \A i \in 1..(n - 1) : stack[i].at <= Len(Requests(stack[i].ty)) /\ stack[i + 1].ty = Requests(stack[i].ty)[stack[i].at]
      BY <1>0 DEF Building, StackSound
    <3>2. Popped[k] = stack[k] /\ stack[k + 1].ty = u
      BY <1>1, <2>1
    <3> QED
      BY <2>1, <3>1, <3>2
  <2>3. StackSound(Popped, components')
    <3>1. ASSUME NEW i \in 1..k
          PROVE  /\ Popped[i].ty \notin factories \cup components'
                 /\ Popped[i].at \in 1..(Len(Requests(Popped[i].ty)) + 1)
                 /\ dependencies[Popped[i].ty] = Received(Popped[i].ty, Popped[i].at)
      <4>1. i \in 1..n /\ i # n /\ Popped[i] = stack[i]
        BY <2>1
      <4>2. /\ stack[i].ty \notin factories \cup components /\ stack[i].ty # u
            /\ stack[i].at \in 1..(Len(Requests(stack[i].ty)) + 1)
            /\ dependencies[stack[i].ty] = Received(stack[i].ty, stack[i].at)
        BY <1>0, <1>1, <4>1 DEF Building, StackSound
      <4> QED
        BY <1>0, <4>1, <4>2
    <3>2. ASSUME NEW i \in 1..(k - 1)
          PROVE  Popped[i].at <= Len(Requests(Popped[i].ty)) /\ Popped[i + 1].ty = Requests(Popped[i].ty)[Popped[i].at]
      <4>1. i \in 1..k /\ i + 1 \in 1..k /\ i \in 1..(n - 1)
        BY <1>1, <2>1
      <4>2. stack[i].at <= Len(Requests(stack[i].ty)) /\ stack[i + 1].ty = Requests(stack[i].ty)[stack[i].at]
        BY <1>0, <4>1 DEF Building, StackSound
      <4> QED
        BY <2>1, <4>1, <4>2
    <3>3. \A i, j \in 1..k : Popped[i].ty = Popped[j].ty => i = j
      BY <1>0, <2>1 DEF Building, StackSound
    <3> HIDE DEF Popped
    <3> QED
      BY <2>1, <3>1, <3>2, <3>3 DEF StackSound
  <2>4. Counted(Types) /\ ListImplsCounted
    BY <1>0 DEF Building
  <2>5. /\ dependents' \in [Types -> Nat] /\ dependencies' \in [Types -> SUBSET Types]
        /\ phase' # phase => phase' = "failed"
        /\ phase' = phase /\ phase # "failed" =>
             /\ StackSound(stack, components)' /\ Counted(Types)' /\ ListImplsCounted'
             /\ Len(stack') = k /\ \A i \in 1..k : stack'[i].ty = Popped[i].ty
             /\ \A v \in factories \cup components' : dependencies'[v] = dependencies[v]
    BY <1>0, <1>1, <1>2, <1>5, <2>1, <2>2, <2>3, <2>4, ReceivesSound
  <2>6. stack' \in Seq(Entry)
    BY <1>0, <1>1, <1>5, <2>1, ReceivesStack
  <2>7. ASSUME phase' = "build" PROVE Building'
    <3>1. ASSUME NEW v \in Types, v \notin factories', v \notin components' PROVE \E i \in 1..Len(stack') : stack'[i].ty = v
      <4>1. PICK i \in 1..n : stack[i].ty = v
        BY <1>0, <3>1 DEF Building
      <4>2. i # n
        BY <1>0, <1>1, <3>1, <4>1
      <4>3. i \in 1..k
        BY <1>1, <2>1, <4>1, <4>2
      <4> QED
        BY <1>0, <2>1, <2>5, <2>7, <4>1, <4>3
    <3>2. /\ \A v \in factories' : dependencies'[v] = {}
          /\ \A v \in components' : dependencies'[v] = Requested(v)
      BY <1>0, <1>3, <2>5, <2>7
    <3> QED
      BY <1>0, <1>3, <2>5, <2>7, <3>1, <3>2, BuildingNow
  <2> QED
    BY <1>0, <1>2, <2>5, <2>6, <2>7, StillBuilding DEF CountTypes
<1> QED
  BY <1>4, <1>5 DEF construct, u

-----------------------------------------------------------------------------
(* TrimDisabled *)

\* A user less.
LEMMA UserLess ==
  ASSUME NEW S \in SUBSET Types, NEW d, NEW u \in Users(S, d)
  PROVE  Cardinality(Users(S, d) \ {u}) = Cardinality(Users(S, d)) - 1
  BY UsersFinite, FS_RemoveElement

\* Every disabled list implementation has exactly one user, its list.
LEMMA ListUser ==
  ASSUME CountTypes, Built, NEW d \in Types, Kind(d) = "listImpl"
  PROVE  \E p \in Types : Kind(p) = "list" /\ Users(Types, d) = {p} /\ dependents[d] = 1
<1>1. PICK p \in Types : Kind(p) = "list" /\ Provides(wiring, p, d)
  BY ManagerAssumption DEF WellProvided, CountTypes, Kind
<1>2. p \in Users(Types, d)
  <2>1. d \in Requested(p)
    BY <1>1, RequestOrigins DEF CountTypes
  <2> QED
    BY <2>1 DEF Users, Built
<1>3. /\ IsFiniteSet(Users(Types, d)) /\ Cardinality(Users(Types, d)) \in Nat /\ Cardinality(Users(Types, d)) > 0
      /\ Cardinality(Users(Types, d) \ {p}) = Cardinality(Users(Types, d)) - 1
  BY <1>2, UsersFinite, UserLess
<1>4. Cardinality(Users(Types, d)) <= dependents[d] /\ dependents[d] <= 1 /\ dependents[d] \in Nat
  BY DEF Built, Counted, CountOf, ListImplsCounted, CountTypes
<1>5. dependents[d] = 1 /\ Cardinality(Users(Types, d) \ {p}) = 0
  BY <1>3, <1>4
<1>6. IsFiniteSet(Users(Types, d) \ {p})
  BY <1>3, FS_Subset
<1>7. Users(Types, d) \ {p} = {}
  BY <1>5, <1>6, FS_EmptySet
<1>8. Users(Types, d) = {p}
  BY <1>2, <1>7
<1> QED
  BY <1>1, <1>5, <1>8

LEMMA TrimListsCount == ASSUME CountInv, TrimLists PROVE CountInv'
<1> USE DEF config, lifecycle
<1> DEFINE R == Removed(flags')
<1>0. /\ CountTypes /\ Built /\ disabled = {} /\ phase' = "trim" /\ wiring \in Wirings
      /\ UNCHANGED <<wiring, stack, factories, components, disabled>> /\ components = Types
      /\ pass' = [todo |-> components, hasChange |-> FALSE]
      /\ dependents \in [Types -> Nat] /\ dependencies \in [Types -> SUBSET Types]
  BY DEF TrimLists, CountInv, CountTypes, Built
<1>1. /\ R \subseteq Types /\ \A d \in R : Kind(d) = "listImpl"
  BY DEF Removed
<1>2. /\ \A t \in Types : dependencies'[t] = IF Kind(t) = "list" THEN dependencies[t] \ R ELSE dependencies[t]
      /\ \A t \in Types : dependents'[t] = dependents[t] - (IF t \in R THEN 1 ELSE 0)
      /\ dependencies' = [t \in Types |-> IF Kind(t) = "list" THEN dependencies[t] \ R ELSE dependencies[t]]
      /\ dependents' = [t \in Types |-> dependents[t] - (IF t \in R THEN 1 ELSE 0)]
  BY DEF TrimLists
<1> HIDE DEF R
<1>3. ASSUME NEW d \in Types PROVE dependents'[d] \in Nat /\ CountOf(Types, d)'
  <2>0. RequestedTwice(d)' <=> RequestedTwice(d)
    BY <1>0 DEF RequestedTwice, Requests
  <2>1. CASE d \in R
    <3>1. PICK p \in Types : Kind(p) = "list" /\ Users(Types, d) = {p} /\ dependents[d] = 1
      BY <1>0, <1>1, <2>1, ListUser
    <3>2. Users(Types, d)' = {}
      BY <1>0, <1>2, <2>1, <3>1 DEF Users
    <3>3. Cardinality(Users(Types, d))' = 0
      BY <3>2, FS_EmptySet
    <3>4. dependents'[d] = 0
      BY <1>2, <2>1, <3>1
    <3> QED
      BY <3>3, <3>4 DEF CountOf
  <2>2. CASE d \notin R
    <3>1. Users(Types, d)' = Users(Types, d)
      BY <1>2, <2>2 DEF Users
    <3>2. dependents'[d] = dependents[d] /\ dependents[d] \in Nat
      BY <1>0, <1>2, <2>2
    <3>3. CountOf(Types, d)
      BY <1>0 DEF Built, Counted
    <3> QED
      BY <2>0, <3>1, <3>2, <3>3 DEF CountOf
  <2> QED
    BY <2>1, <2>2
<1>4. Counted(components)'
  BY <1>0, <1>3 DEF Counted
<1>5. CountTypes'
  <2>1. dependents' \in [Types -> Nat]
    BY <1>2, <1>3
  <2>2. dependencies' \in [Types -> SUBSET Types]
    BY <1>0, <1>2
  <2>3. pass' \in [todo : SUBSET Types, hasChange : BOOLEAN]
    BY <1>0
  <2> QED
    BY <1>0, <2>1, <2>2, <2>3 DEF CountTypes
<1>6. \A t \in Types : dependencies'[t] \subseteq Requested(t)'
  <2>1. \A t \in Types : Requested(t)' = Requested(t)
    BY <1>0 DEF Requested, Requests
  <2>2. \A t \in Types : dependencies'[t] \subseteq dependencies[t]
    BY <1>2
  <2> QED
    BY <1>0, <2>1, <2>2 DEF Built
<1>7. Trimming'
  <2>1. ChosenGone'
    BY <1>0 DEF ChosenGone
  <2>2. pass'.todo = components' /\ components' = Types /\ disabled' = {}
    BY <1>0
  <2>3. components' \ pass'.todo = {}
    BY <2>2
  <2> QED
    BY <1>4, <1>6, <2>1, <2>2, <2>3 DEF Trimming
<1>8. NothingMissing' /\ NothingIdle'
  BY <1>0 DEF NothingMissing, NothingIdle, Trimmed
<1> QED
  BY <1>0, <1>5, <1>7, <1>8 DEF CountInv

\* Whether a component should be disabled depends on what is unchanged here.
LEMMA DecisionStays ==
  ASSUME UNCHANGED <<wiring, components, dependents, flags, which>>, NEW t
  PROVE  shouldDisable(t)' <=> shouldDisable(t)
<1>1. ParentOf(t)' = ParentOf(t)
  BY DEF ParentOf, Impls
<1>2. Kind(t)' = Kind(t) /\ (Chosen(t)' <=> Chosen(t))
  BY <1>1 DEF Kind, Chosen
<1>3. (dependents[ParentOf(t)] = 0)' <=> dependents[ParentOf(t)] = 0
  BY <1>1
<1>4. (ParentOf(t) \in components)' <=> ParentOf(t) \in components
  BY <1>1
<1> QED
  BY <1>2, <1>3, <1>4 DEF shouldDisable

\* The part of Trimming that a step with the same components and counters keeps.
LEMMA TrimmingStays ==
  ASSUME Trimming, UNCHANGED <<wiring, components, disabled, dependents, dependencies, which>>
  PROVE  /\ Counted(components)' /\ ChosenGone' /\ Types = components' \cup disabled'
         /\ \A v \in Types : dependencies'[v] \subseteq Requested(v)'
<1>1. Counted(components)'
  <2> SUFFICES ASSUME NEW d \in Types PROVE CountOf(components, d)'
    BY DEF Counted
  <2>1. Users(components, d)' = Users(components, d) /\ (RequestedTwice(d)' <=> RequestedTwice(d))
    BY DEF Users, RequestedTwice, Requests
  <2> QED
    BY <2>1 DEF Trimming, Counted, CountOf
<1>2. \A v \in Types : dependencies'[v] \subseteq Requested(v)'
  <2>1. \A v \in Types : Requested(v)' = Requested(v)
    BY DEF Requested, Requests
  <2> QED
    BY <2>1 DEF Trimming
<1>3. ChosenGone'
  <2> SUFFICES ASSUME NEW d \in disabled, (Kind(d) = "impl")', (ParentOf(d) \in components)', Chosen(d)'
               PROVE  (dependents[ParentOf(d)] = 0)'
    BY DEF ChosenGone
  <2>1. ParentOf(d)' = ParentOf(d)
    BY DEF ParentOf, Impls
  <2>2. Kind(d) = "impl" /\ ParentOf(d) \in components /\ Chosen(d)
    BY <2>1 DEF Kind, Chosen
  <2>3. dependents[ParentOf(d)] = 0
    BY <2>2 DEF Trimming, ChosenGone
  <2> QED
    BY <2>1, <2>3
<1> QED
  BY <1>1, <1>2, <1>3 DEF Trimming

LEMMA KeepCount ==
  ASSUME CountInv, phase = "trim", phase' = "trim", NEW t \in pass.todo, ~shouldDisable(t),
         pass' = [pass EXCEPT !.todo = @ \ {t}],
         UNCHANGED <<wiring, stack, factories, components, disabled, dependents, dependencies, flags, which>>
  PROVE  CountInv'
<1>0. CountTypes /\ Trimming /\ pass \in [todo : SUBSET Types, hasChange : BOOLEAN]
  BY DEF CountInv, CountTypes
<1>1. pass' \in [todo : SUBSET Types, hasChange : BOOLEAN] /\ pass'.todo = pass.todo \ {t} /\ pass'.hasChange = pass.hasChange
  BY <1>0
<1>2. CountTypes'
  BY <1>0, <1>1 DEF CountTypes
<1>3. /\ Counted(components)' /\ ChosenGone' /\ Types = components' \cup disabled'
      /\ \A v \in Types : dependencies'[v] \subseteq Requested(v)'
  BY <1>0, TrimmingStays
<1>4. ASSUME ~pass'.hasChange, NEW v \in components' \ pass'.todo PROVE ~shouldDisable(v)'
  <2>1. ~shouldDisable(v)
    BY <1>0, <1>1, <1>4 DEF Trimming
  <2> QED
    BY <2>1, DecisionStays
<1>5. Trimming'
  BY <1>0, <1>1, <1>3, <1>4 DEF Trimming
<1>6. NothingMissing' /\ NothingIdle'
  BY DEF NothingMissing, NothingIdle, Trimmed
<1> QED
  BY <1>2, <1>5, <1>6 DEF CountInv

LEMMA DisableCount ==
  ASSUME CountInv, phase = "trim", phase' = "trim", NEW t \in pass.todo, shouldDisable(t),
         dependents' = [d \in Types |-> dependents[d] - (IF d \in dependencies[t] THEN 1 ELSE 0)],
         components' = components \ {t}, disabled' = disabled \cup {t},
         pass' = [todo |-> pass.todo \ {t}, hasChange |-> TRUE],
         UNCHANGED <<wiring, stack, factories, dependencies, flags, which>>
  PROVE  CountInv'
<1>0. /\ CountTypes /\ Trimming /\ pass \in [todo : SUBSET Types, hasChange : BOOLEAN] /\ components \subseteq Types
      /\ t \in components /\ t \in Types /\ dependents \in [Types -> Nat]
  BY DEF CountInv, CountTypes, Trimming
<1>1. pass' \in [todo : SUBSET Types, hasChange : BOOLEAN] /\ pass'.todo = pass.todo \ {t} /\ pass'.hasChange
  BY <1>0
<1>2. ASSUME NEW d \in Types PROVE dependents'[d] \in Nat /\ dependents'[d] <= dependents[d] /\ CountOf(components, d)'
  <2>0. RequestedTwice(d)' <=> RequestedTwice(d)
    BY DEF RequestedTwice, Requests
  <2>1. Users(components, d)' = Users(components, d) \ {t}
    BY DEF Users
  <2>2. Cardinality(Users(components, d))' = Cardinality(Users(components, d) \ {t})
    BY <2>1
  <2>3. /\ Cardinality(Users(components, d)) <= dependents[d] /\ dependents[d] \in Nat
        /\ ~RequestedTwice(d) => Cardinality(Users(components, d)) = dependents[d]
    BY <1>0 DEF Trimming, Counted, CountOf
  <2>4. CASE d \in dependencies[t]
    <3>1. t \in Users(components, d) /\ dependents'[d] = dependents[d] - 1
      BY <1>0, <2>4 DEF Users
    <3>2. Cardinality(Users(components, d)) \in Nat /\ Cardinality(Users(components, d)) > 0
      BY <1>0, <3>1, UsersFinite
    <3>3. Cardinality(Users(components, d) \ {t}) = Cardinality(Users(components, d)) - 1
      BY <1>0, <3>1, UserLess
    <3>4. Cardinality(Users(components, d))' = Cardinality(Users(components, d)) - 1
      BY <2>2, <3>3
    <3> QED
      BY <2>0, <2>3, <3>1, <3>2, <3>4 DEF CountOf
  <2>5. CASE d \notin dependencies[t]
    <3>1. Users(components, d) \ {t} = Users(components, d) /\ dependents'[d] = dependents[d]
      BY <2>3, <2>5 DEF Users
    <3>2. Cardinality(Users(components, d))' = Cardinality(Users(components, d))
      BY <2>2, <3>1
    <3> QED
      BY <2>0, <2>3, <3>1, <3>2 DEF CountOf
  <2> QED
    BY <2>4, <2>5
<1>3. CountTypes'
  <2>1. dependents' \in [Types -> Nat]
    BY <1>2
  <2> QED
    BY <1>0, <1>1, <2>1 DEF CountTypes
<1>4. \A v \in Types : dependencies'[v] \subseteq Requested(v)'
  <2>1. \A v \in Types : Requested(v)' = Requested(v)
    BY DEF Requested, Requests
  <2> QED
    BY <1>0, <2>1 DEF Trimming
<1>5. ChosenGone'
  <2> SUFFICES ASSUME NEW d \in disabled', (Kind(d) = "impl")', (ParentOf(d) \in components)', Chosen(d)'
               PROVE  (dependents[ParentOf(d)] = 0)'
    BY DEF ChosenGone
  <2>1. ParentOf(d)' = ParentOf(d)
    BY DEF ParentOf, Impls
  <2>2. Kind(d) = "impl" /\ ParentOf(d) \in components /\ Chosen(d)
    BY <2>1 DEF Kind, Chosen
  <2>3. dependents[ParentOf(d)] = 0
    <3>1. CASE d \in disabled
      BY <1>0, <2>2, <3>1 DEF Trimming, ChosenGone
    <3>2. CASE d = t
      BY <2>2, <3>2 DEF shouldDisable
    <3> QED
      BY <3>1, <3>2
  <2>4. dependents'[ParentOf(d)] = 0
    <3>1. ParentOf(d) \in Types
      BY <1>0, <2>2
    <3> QED
      BY <1>2, <2>3, <3>1
  <2> QED
    BY <2>1, <2>4
<1>6. Types = components' \cup disabled' /\ pass'.todo \subseteq components'
  BY <1>0, <1>1 DEF Trimming
<1>7. Counted(components)'
  BY <1>2 DEF Counted
<1>8. Trimming'
  BY <1>1, <1>4, <1>5, <1>6, <1>7 DEF Trimming
<1>9. NothingMissing' /\ NothingIdle'
  BY DEF NothingMissing, NothingIdle, Trimmed
<1> QED
  BY <1>3, <1>8, <1>9 DEF CountInv

LEMMA TrimDisabledCount == ASSUME CountInv, TrimDisabled PROVE CountInv'
<1>1. /\ phase = "trim" /\ phase' = "trim"
      /\ UNCHANGED <<wiring, stack, factories, dependencies, flags, which>>
  BY DEF TrimDisabled, config
<1>2. PICK t \in pass.todo :
       \/ ~shouldDisable(t) /\ pass' = [pass EXCEPT !.todo = @ \ {t}] /\ UNCHANGED <<components, disabled, dependents>>
       \/ /\ shouldDisable(t)
          /\ dependents' = [d \in Types |-> dependents[d] - (IF d \in dependencies[t] THEN 1 ELSE 0)]
          /\ components' = components \ {t}
          /\ disabled' = disabled \cup {t}
          /\ pass' = [todo |-> pass.todo \ {t}, hasChange |-> TRUE]
  BY DEF TrimDisabled
<1> QED
  BY <1>1, <1>2, KeepCount, DisableCount

\* What the last pass leaves.
LEMMA TrimmedIsComplete ==
  ASSUME CountTypes, Trimming, pass.todo = {}, ~pass.hasChange, StillWanted = {},
         NEW t \in components, NEW d \in dependencies[t] \ components
  PROVE  Kind(t) = "mux" /\ which[t] # d
<1>1. t \in Types /\ d \in Types /\ d \in disabled /\ d \in Requested(t)
  BY DEF CountTypes, Trimming
<1>2. Kind(d) = "impl"
  <2>1. t \in Users(components, d)
    BY DEF Users
  <2>2. Cardinality(Users(components, d)) \in Nat /\ Cardinality(Users(components, d)) > 0
    BY <2>1, UsersFinite DEF CountTypes
  <2>3. Cardinality(Users(components, d)) <= dependents[d] /\ dependents[d] \in Nat
    BY <1>1 DEF Trimming, Counted, CountOf, CountTypes
  <2>4. dependents[d] > 0
    BY <2>2, <2>3
  <2> QED
    BY <1>1, <2>4 DEF StillWanted
<1>3. /\ \A p \in Types : \A i \in DOMAIN wiring.params[p] : wiring.params[p][i] # d
      /\ \A p \in Types : Provides(wiring, p, d) => Kind(p) = "mux"
      /\ \A p, q \in Types : Provides(wiring, p, d) /\ Provides(wiring, q, d) => p = q
  BY <1>1, <1>2, ManagerAssumption DEF WellProvided, CountTypes, Kind
<1>4. d \in Impls(t) /\ Provides(wiring, t, d) /\ Kind(t) = "mux"
  BY <1>1, <1>3, RequestOrigins DEF CountTypes
<1>5. ParentOf(d) = t
  <2>1. ParentOf(d) \in Types /\ d \in Impls(ParentOf(d))
    BY <1>1, <1>4 DEF ParentOf
  <2>2. Provides(wiring, ParentOf(d), d)
    BY <2>1, RequestOrigins DEF CountTypes
  <2> QED
    BY <1>1, <1>3, <1>4, <2>1, <2>2
<1>6. ASSUME which[t] = d PROVE FALSE
  <2>1. dependents[t] = 0
    BY <1>1, <1>2, <1>5, <1>6 DEF Trimming, ChosenGone, Chosen
  <2>2. ~shouldDisable(t)
    BY DEF Trimming
  <2> QED
    BY <1>4, <2>1, <2>2 DEF shouldDisable
<1> QED
  BY <1>4, <1>6

LEMMA TrimmedIsUsed ==
  ASSUME CountTypes, Trimming, pass.todo = {}, ~pass.hasChange,
         NEW t \in components, Kind(t) \notin {"explicit", "impl"}, ~RequestedTwice(t)
  PROVE  \E u \in components : t \in dependencies[u]
<1>1. t \in Types /\ ~shouldDisable(t)
  BY DEF CountTypes, Trimming
<1>2. dependents[t] # 0
  BY <1>1 DEF shouldDisable
<1>3. Cardinality(Users(components, t)) = dependents[t]
  BY <1>1 DEF Trimming, Counted, CountOf
<1>4. Users(components, t) # {}
  BY <1>2, <1>3, FS_EmptySet
<1> QED
  BY <1>4 DEF Users

LEMMA TrimPassCount == ASSUME CountInv, TrimPass PROVE CountInv'
<1> USE DEF config, build, lifecycle
<1>0. /\ CountTypes /\ Trimming /\ phase = "trim" /\ pass.todo = {}
      /\ UNCHANGED <<wiring, stack, factories, components, disabled, dependents, dependencies, flags, which>>
  BY DEF TrimPass, CountInv
<1>1. ASSUME pass' = [todo |-> components, hasChange |-> FALSE], phase' = phase PROVE CountInv'
  <2>1. CountTypes' /\ pass'.todo = components'
    BY <1>0, <1>1 DEF CountTypes
  <2>2. /\ Counted(components)' /\ ChosenGone' /\ Types = components' \cup disabled'
        /\ \A v \in Types : dependencies'[v] \subseteq Requested(v)'
    BY <1>0, TrimmingStays
  <2>3. components' \ pass'.todo = {}
    BY <2>1
  <2>4. Trimming'
    BY <2>1, <2>2, <2>3 DEF Trimming
  <2>5. NothingMissing' /\ NothingIdle'
    BY <1>0, <1>1 DEF NothingMissing, NothingIdle, Trimmed
  <2> QED
    BY <1>0, <1>1, <2>1, <2>4, <2>5 DEF CountInv
<1>2. ASSUME ~pass.hasChange, phase' = (IF StillWanted # {} THEN "fatal" ELSE "order"), pass' = pass PROVE CountInv'
  <2>1. CountTypes' /\ phase' \in {"fatal", "order"}
    BY <1>0, <1>2 DEF CountTypes
  <2>2. NothingMissing'
    <3> SUFFICES ASSUME Trimmed', NEW t \in components', NEW d \in (dependencies[t] \ components)'
                 PROVE  (Kind(t) = "mux" /\ which[t] # d)'
      BY DEF NothingMissing
    <3>1. StillWanted = {} /\ t \in components /\ d \in dependencies[t] \ components
      BY <1>0, <1>2 DEF Trimmed
    <3>2. Kind(t) = "mux" /\ which[t] # d
      BY <1>0, <1>2, <3>1, TrimmedIsComplete
    <3> QED
      BY <1>0, <3>2 DEF Kind
  <2>3. NothingIdle'
    <3> SUFFICES ASSUME NEW t \in components', (Kind(t) \notin {"explicit", "impl"})', ~RequestedTwice(t)'
                 PROVE  (\E u \in components : t \in dependencies[u])'
      BY DEF NothingIdle
    <3>1. t \in components /\ Kind(t) \notin {"explicit", "impl"} /\ ~RequestedTwice(t)
      BY <1>0 DEF Kind, RequestedTwice, Requests
    <3>2. \E u \in components : t \in dependencies[u]
      BY <1>0, <1>2, <3>1, TrimmedIsUsed
    <3> QED
      BY <1>0, <3>2
  <2> QED
    BY <2>1, <2>2, <2>3 DEF CountInv
<1> QED
  BY <1>1, <1>2 DEF TrimPass

\* Nothing changes the components after that.
LEMMA LateCount ==
  ASSUME CountInv, stack' \in Seq(Entry),
         orderComponents \/ insertDeps \/ InitComponent \/ StartComponent \/ Signal \/ CloseComponent
  PROVE  CountInv'
<1>1. /\ Trimmed /\ phase' \in {"order", "cycle", "init", "start", "close", "closed", "failed", "crashed"}
      /\ UNCHANGED <<wiring, factories, components, disabled, dependents, dependencies, pass, which>>
  BY DEF Trimmed, orderComponents, insertDeps, InitComponent, StartComponent, Signal, CloseComponent, Advance,
         config, build, lifecycle
<1>2. CountTypes'
  BY <1>1 DEF CountInv, CountTypes
<1>3. NothingMissing'
  BY <1>1 DEF CountInv, NothingMissing, Kind
<1>4. NothingIdle'
  BY <1>1 DEF CountInv, NothingIdle, Kind, RequestedTwice, Requests
<1> QED
  BY <1>1, <1>2, <1>3, <1>4 DEF CountInv

LEMMA InitCount == Init => CountInv
<1> SUFFICES ASSUME Init PROVE CountInv
  OBVIOUS
<1>1. /\ CountTypes /\ phase = "build" /\ stack = <<>> /\ factories = Types /\ components = {} /\ disabled = {}
      /\ (\A t \in Types : dependents[t] = 0 /\ dependencies[t] = {})
  BY DEF Init, CountTypes
<1>2. \A d \in Types : Users(Types, d) = {}
  BY <1>1 DEF Users
<1>3. Counted(Types) /\ ListImplsCounted
  <2>1. \A d \in Types : Cardinality(Users(Types, d)) = 0
    BY <1>2, FS_EmptySet
  <2>2. \A d \in Types : CountOf(Types, d)
    BY <1>1, <2>1 DEF CountOf
  <2> QED
    BY <1>1, <2>2 DEF Counted, ListImplsCounted
<1>4. 1..Len(stack) = {} /\ 1..(Len(stack) - 1) = {}
  BY <1>1
<1>5. StackSound(stack, components)
  BY <1>4 DEF StackSound
<1>6. Building
  BY <1>1, <1>3, <1>5 DEF Building
<1> QED
  BY <1>1, <1>6 DEF CountInv, NothingMissing, NothingIdle, Trimmed

LEMMA StepCount == ASSUME CountInv, stack' \in Seq(Entry), [Next]_vars PROVE CountInv'
<1>1. ASSUME UNCHANGED vars PROVE CountInv'
  <2>1. UNCHANGED <<wiring, phase, stack, factories, components, disabled, dependents, dependencies, pass, flags, which>>
    BY <1>1 DEF vars, build, config
  <2>2. CountTypes => CountTypes'
    BY <2>1 DEF CountTypes
  <2>3. \A t \in Types : Requested(t)' = Requested(t)
    BY <2>1 DEF Requested, Requests
  <2>4. (Counted(Types) => Counted(Types)') /\ (ListImplsCounted => ListImplsCounted')
    BY <2>1, CountsStay
  <2>5. Building => Building'
    <3> SUFFICES ASSUME Building PROVE Building'
      OBVIOUS
    <3>1. StackSound(stack, components)'
      BY <2>1, StackIsSound DEF Building, StackSound
    <3>2. components \subseteq Types
      BY DEF CountInv, CountTypes
    <3> QED
      BY <2>1, <2>4, <3>1, <3>2, BuildingNow DEF Building
  <2>6. Built => Built'
    BY <2>1, <2>3, <2>4 DEF Built
  <2>7. Trimming => Trimming'
    <3> SUFFICES ASSUME Trimming PROVE Trimming'
      OBVIOUS
    <3>1. /\ Counted(components)' /\ ChosenGone' /\ Types = components' \cup disabled'
          /\ \A v \in Types : dependencies'[v] \subseteq Requested(v)'
      BY <2>1, TrimmingStays
    <3>2. \A t : shouldDisable(t)' <=> shouldDisable(t)
      BY <2>1, DecisionStays
    <3> QED
      BY <2>1, <3>1, <3>2 DEF Trimming
  <2>8. NothingMissing => NothingMissing'
    BY <2>1 DEF NothingMissing, Trimmed, Kind
  <2>9. NothingIdle => NothingIdle'
    BY <2>1 DEF NothingIdle, Trimmed, Kind, RequestedTwice, Requests
  <2> QED
    BY <2>1, <2>2, <2>5, <2>6, <2>7, <2>8, <2>9 DEF CountInv
<1> QED
  BY <1>1, BuildCount, ResolveCount, ConstructCount, TrimListsCount, TrimDisabledCount, TrimPassCount, LateCount DEF Next

-----------------------------------------------------------------------------
(* The theorems *)

\* insertDeps, Init, Start and Close keep OrderInv, whatever the wiring.
THEOREM OrderInvariant == Spec => []OrderInv
<1>1. Init => OrderInv
  BY InitOrder
<1>2. OrderInv /\ [Next]_vars => OrderInv'
  BY StepOrder
<1> QED
  BY <1>1, <1>2, PTL DEF Spec

\* A component is initialized and started after what it got in its
\* constructor and closed before it (insertDeps, Init, Start, Close).
THEOREM DependenciesAreFirst == Spec => []DependenciesFirst
<1>1. OrderInv => DependenciesFirst
  BY OrderedFirst
<1> QED
  BY <1>1, OrderInvariant, PTL

\* resolve, Build and TrimDisabled keep CountInv: the counters of dependents
\* follow the dependencies.
THEOREM CountInvariant == Spec => []CountInv
<1>1. Init => CountInv
  BY InitCount
<1>2. OrderInv' => stack' \in Seq(Entry)
  BY DEF OrderInv, OrderTypes
<1>3. CountInv /\ OrderInv' /\ [Next]_vars => CountInv'
  BY <1>2, StepCount
<1> QED
  BY <1>1, <1>3, OrderInvariant, PTL DEF Spec

\* After TrimDisabled no component works with a disabled one, other than a mux
\* with the implementations it was not told to use.
THEOREM NothingIsMissing == Spec => []NothingMissing
<1>1. CountInv => NothingMissing
  BY DEF CountInv
<1> QED
  BY <1>1, CountInvariant, PTL

\* After TrimDisabled a component without a flag is there for a user, unless
\* somebody requests it twice.
THEOREM NothingIsIdle == Spec => []NothingIdle
<1>1. CountInv => NothingIdle
  BY DEF CountInv
<1> QED
  BY <1>1, CountInvariant, PTL

-----------------------------------------------------------------------------
(* The unbounded queue *)

\* Advancing a slot by one either stays in the buffer or wraps to slot 0.
LEMMA Wrap == ASSUME NEW n \in Nat \ {0}, NEW i \in 0..(n - 1)
              PROVE  (i + 1) % n = IF i + 1 = n THEN 0 ELSE i + 1
  BY SMT

\* The length is smaller than the capacity, and the queue occupies the slots
\* from start on; slot end is the first free one.
LEMMA Lengths ==
  ASSUME NEW q, Indices(q)
  PROVE  /\ lockedLen(q) \in 0..(q.cap - 1)
         /\ \A n \in 0..(q.cap - 1) : Slot(q, n) \in 0..(q.cap - 1)
         /\ \A n \in 0..(q.cap - 1) : Slot(q, n) = q.end <=> n = lockedLen(q)
         /\ lockedLen(q) = 0 <=> IsEmpty(q)
  BY DEF Indices, lockedLen, Slot, IsEmpty

\* Popping removes the front and keeps the order of the rest.
LEMMA PopSound ==
  ASSUME NEW q, Sound(q), ~IsEmpty(q)
  PROVE  /\ Sound(PopFront(q))
         /\ lockedLen(PopFront(q)) = lockedLen(q) - 1
         /\ PeekFront(q) = At(q, 0)
         /\ \A n \in 0..(lockedLen(q) - 2) : At(PopFront(q), n) = At(q, n + 1)
<1> DEFINE p == PopFront(q)
<1>0. Indices(q)
  BY DEF Sound
<1>1. /\ p.cap = q.cap /\ p.end = q.end /\ p.maxLength = q.maxLength
      /\ p.data = [q.data EXCEPT ![q.start] = Zero]
      /\ p.start = IF q.start + 1 = q.cap THEN 0 ELSE q.start + 1
  BY <1>0, Wrap DEF PopFront, Indices
<1> HIDE DEF p
<1>2. Indices(p)
  BY <1>0, <1>1 DEF Indices
<1>3. lockedLen(p) = lockedLen(q) - 1
  BY <1>0, <1>1 DEF Indices, lockedLen, IsEmpty
<1>4. PeekFront(q) = At(q, 0)
  BY <1>0 DEF Indices, PeekFront, At, Slot
<1>5. ASSUME NEW n \in 0..(lockedLen(q) - 2) PROVE At(p, n) = At(q, n + 1)
  <2>1. Slot(p, n) = Slot(q, n + 1) /\ Slot(p, n) \in 0..(q.cap - 1) /\ Slot(p, n) # q.start
    BY <1>0, <1>1 DEF Indices, Slot, lockedLen, IsEmpty
  <2> QED
    BY <1>1, <2>1 DEF Sound, At
<1>6. Sound(p)
  BY <1>1, <1>2 DEF Sound
<1> QED
  BY <1>3, <1>4, <1>5, <1>6 DEF p

\* Putting an item in place fills slot end, which lies outside the queue.
LEMMA PutSound ==
  ASSUME NEW q, Sound(q), NEW x \in Items
  PROVE  /\ Put(q, x).cap = q.cap /\ Put(q, x).start = q.start
         /\ Put(q, x).end = IF q.end + 1 = q.cap THEN 0 ELSE q.end + 1
         /\ Put(q, x).maxLength = q.maxLength
         /\ Sound(Put(q, x))
         /\ \A n \in 0..(lockedLen(q) - 1) : At(Put(q, x), n) = At(q, n)
         /\ At(Put(q, x), lockedLen(q)) = x
<1> DEFINE p == Put(q, x)
<1>0. Indices(q)
  BY DEF Sound
<1>1. /\ p.cap = q.cap /\ p.start = q.start /\ p.maxLength = q.maxLength
      /\ p.data = [q.data EXCEPT ![q.end] = x]
      /\ p.end = IF q.end + 1 = q.cap THEN 0 ELSE q.end + 1
  BY <1>0, Wrap DEF Put, Indices
<1> HIDE DEF p
<1>2. Indices(p)
  BY <1>0, <1>1 DEF Indices
<1>3. Sound(p)
  BY <1>1, <1>2 DEF Sound, Indices
<1>4. ASSUME NEW n \in 0..lockedLen(q)
      PROVE  /\ Slot(p, n) = Slot(q, n) /\ Slot(q, n) \in 0..(q.cap - 1)
             /\ Slot(q, n) = q.end <=> n = lockedLen(q)
  <2>1. n \in 0..(q.cap - 1)
    BY <1>0, Lengths DEF Indices
  <2> QED
    BY <1>0, <1>1, <2>1, Lengths DEF Slot
<1>5. ASSUME NEW n \in 0..lockedLen(q)
      PROVE  At(p, n) = IF n = lockedLen(q) THEN x ELSE At(q, n)
  BY <1>1, <1>4 DEF Sound, At
<1>6. lockedLen(q) \in Nat
  BY <1>0, Lengths DEF Indices
<1> QED
  BY <1>1, <1>3, <1>5, <1>6 DEF p

\* A full buffer is copied in the order of the queue.
LEMMA ExpandSound ==
  ASSUME NEW p, Sound(p), IsEmpty(p)
  PROVE  /\ Sound(Expand(p))
         /\ lockedLen(Expand(p)) = p.cap
         /\ \A n \in 0..(p.cap - 1) : At(Expand(p), n) = At(p, n)
<1> DEFINE g == Expand(p)
<1>0. Indices(p) /\ p.start = p.end
  BY DEF Sound, IsEmpty
<1>1. /\ g.cap = 2 * p.cap /\ g.start = 0 /\ g.end = p.cap /\ g.maxLength = p.maxLength
      /\ g.data = [i \in 0..(2 * p.cap - 1) |->
                     IF i < p.cap - p.start THEN p.data[p.start + i]
                     ELSE IF i < p.cap - p.start + p.end THEN p.data[i - (p.cap - p.start)]
                     ELSE Zero]
  BY DEF Expand
<1> HIDE DEF g
<1>2. Indices(g)
  BY <1>0, <1>1 DEF Indices
<1>3. g.data \in [0..(g.cap - 1) -> Items \cup {Zero}]
  <2> SUFFICES ASSUME NEW i \in 0..(2 * p.cap - 1)
               PROVE  (IF i < p.cap - p.start THEN p.data[p.start + i]
                       ELSE IF i < p.cap - p.start + p.end THEN p.data[i - (p.cap - p.start)]
                       ELSE Zero) \in Items \cup {Zero}
    BY <1>1
  <2>1. /\ i < p.cap - p.start => p.start + i \in 0..(p.cap - 1)
        /\ (~(i < p.cap - p.start) /\ i < p.cap - p.start + p.end) =>
             i - (p.cap - p.start) \in 0..(p.cap - 1)
    BY <1>0 DEF Indices
  <2> QED
    BY <2>1 DEF Sound
<1>4. lockedLen(g) = p.cap
  BY <1>0, <1>1 DEF Indices, lockedLen
<1>5. ASSUME NEW n \in 0..(p.cap - 1) PROVE At(g, n) = At(p, n)
  <2>1. /\ Slot(g, n) = n /\ n \in 0..(2 * p.cap - 1)
        /\ Slot(p, n) = IF n < p.cap - p.start THEN p.start + n ELSE n - (p.cap - p.start)
        /\ n < p.cap - p.start + p.end
    BY <1>0, <1>1 DEF Slot, Indices
  <2> QED
    BY <1>1, <2>1 DEF At
<1>6. Sound(g)
  BY <1>1, <1>2, <1>3 DEF Sound
<1> QED
  BY <1>4, <1>5, <1>6 DEF g

\* Pushing appends an item, whether or not the buffer has to grow.
LEMMA PushSound ==
  ASSUME NEW q, Sound(q), NEW x \in Items
  PROVE  /\ Sound(PushBack(q, x))
         /\ lockedLen(PushBack(q, x)) = lockedLen(q) + 1
         /\ \A n \in 0..(lockedLen(q) - 1) : At(PushBack(q, x), n) = At(q, n)
         /\ At(PushBack(q, x), lockedLen(q)) = x
<1> DEFINE p == Put(q, x)
           g == IF IsEmpty(p) THEN Expand(p) ELSE p
           r == Longest(g)
<1>0. Indices(q) /\ lockedLen(q) \in 0..(q.cap - 1) /\ q.cap \in Nat
  BY Lengths DEF Sound, Indices
<1>1. /\ p.cap = q.cap /\ p.start = q.start
      /\ p.end = IF q.end + 1 = q.cap THEN 0 ELSE q.end + 1
      /\ Sound(p)
      /\ \A n \in 0..(lockedLen(q) - 1) : At(p, n) = At(q, n)
      /\ At(p, lockedLen(q)) = x
  BY PutSound
<1> HIDE DEF p
<1>2. Sound(g) /\ lockedLen(g) = lockedLen(q) + 1 /\ \A n \in 0..lockedLen(q) : At(g, n) = At(p, n)
  <2>1. CASE IsEmpty(p)
    <3>1. lockedLen(q) = q.cap - 1
      BY <1>0, <1>1, <2>1 DEF Indices, lockedLen, IsEmpty
    <3> QED
      BY <1>0, <1>1, <2>1, <3>1, ExpandSound
  <2>2. CASE ~IsEmpty(p)
    <3>1. lockedLen(p) = lockedLen(q) + 1
      BY <1>0, <1>1, <2>2 DEF Indices, lockedLen, IsEmpty
    <3> QED
      BY <1>1, <2>2, <3>1
  <2> QED
    BY <2>1, <2>2
<1> HIDE DEF g
<1>3. /\ r.data = g.data /\ r.cap = g.cap /\ r.start = g.start /\ r.end = g.end
      /\ r.maxLength \in Nat
  BY <1>0, <1>2 DEF Longest, Sound
<1> HIDE DEF r
<1>4. Sound(r) /\ lockedLen(r) = lockedLen(g) /\ \A n : At(r, n) = At(g, n)
  BY <1>2, <1>3 DEF Sound, Indices, lockedLen, At, Slot
<1>5. r = PushBack(q, x)
  BY DEF PushBack, p, g, r
<1> QED
  BY <1>0, <1>1, <1>2, <1>4, <1>5

\* Whether slot i is one of the queue from slot s to slot e.
Holds(s, e, i) == IF s <= e THEN s <= i /\ i < e ELSE s <= i \/ i < e

\* Popping clears the slot that it frees.
LEMMA PopClears ==
  ASSUME NEW q, Sound(q), Cleared(q), ~IsEmpty(q)
  PROVE  Cleared(PopFront(q))
<1> DEFINE p == PopFront(q)
<1>0. Indices(q) /\ q.data \in [0..(q.cap - 1) -> Items \cup {Zero}]
  BY DEF Sound
<1>1. /\ p.cap = q.cap /\ p.end = q.end
      /\ p.data = [q.data EXCEPT ![q.start] = Zero]
      /\ p.start = IF q.start + 1 = q.cap THEN 0 ELSE q.start + 1
  BY <1>0, Wrap DEF PopFront, Indices
<1> HIDE DEF p
<1>2. ASSUME NEW i \in 0..(q.cap - 1) PROVE p.data[i] # Zero <=> Holds(p.start, p.end, i)
  <2>1. p.data[i] = IF i = q.start THEN Zero ELSE q.data[i]
    BY <1>0, <1>1
  <2>2. q.data[i] # Zero <=> Holds(q.start, q.end, i)
    BY DEF Cleared, Holds
  <2>3. Holds(p.start, p.end, i) <=> Holds(q.start, q.end, i) /\ i # q.start
    BY <1>0, <1>1 DEF Holds, Indices, IsEmpty
  <2> QED
    BY <2>1, <2>2, <2>3
<1> QED
  BY <1>1, <1>2 DEF Cleared, Holds, p

\* Pushing fills one slot, and expanding copies the full ones to the front.
LEMMA PushClears ==
  ASSUME NEW q, Sound(q), Cleared(q), NEW x \in Items
  PROVE  Cleared(PushBack(q, x))
<1> DEFINE p == Put(q, x)
           g == IF IsEmpty(p) THEN Expand(p) ELSE p
<1>0. Indices(q) /\ q.data \in [0..(q.cap - 1) -> Items \cup {Zero}] /\ x # Zero
  BY ItemsAssumption DEF Sound, Zero
<1>1. /\ p.cap = q.cap /\ p.start = q.start
      /\ p.data = [q.data EXCEPT ![q.end] = x]
      /\ p.end = IF q.end + 1 = q.cap THEN 0 ELSE q.end + 1
  BY <1>0, Wrap DEF Put, Indices
<1> HIDE DEF p
<1>2. ASSUME NEW i \in 0..(q.cap - 1) PROVE p.data[i] # Zero <=> Holds(q.start, q.end, i) \/ i = q.end
  <2>1. p.data[i] = IF i = q.end THEN x ELSE q.data[i]
    BY <1>0, <1>1
  <2>2. q.data[i] # Zero <=> Holds(q.start, q.end, i)
    BY DEF Cleared, Holds
  <2> QED
    BY <1>0, <2>1, <2>2
<1>3. Cleared(g)
  <2>1. CASE ~IsEmpty(p)
    <3>1. ASSUME NEW i \in 0..(q.cap - 1)
          PROVE  Holds(p.start, p.end, i) <=> Holds(q.start, q.end, i) \/ i = q.end
      BY <1>0, <1>1, <2>1 DEF Holds, Indices, IsEmpty
    <3>2. Cleared(p)
      BY <1>1, <1>2, <3>1 DEF Cleared, Holds
    <3> QED
      BY <2>1, <3>2
  <2>2. CASE IsEmpty(p)
    <3>1. \A i \in 0..(q.cap - 1) : Holds(q.start, q.end, i) \/ i = q.end
      BY <1>0, <1>1, <2>2 DEF Holds, Indices, IsEmpty
    <3>2. \A i \in 0..(p.cap - 1) : p.data[i] # Zero
      BY <1>1, <1>2, <3>1
    <3> DEFINE e == Expand(p)
    <3>3. /\ e.cap = 2 * p.cap /\ e.start = 0 /\ e.end = p.cap
          /\ e.data = [i \in 0..(2 * p.cap - 1) |->
                         IF i < p.cap - p.start THEN p.data[p.start + i]
                         ELSE IF i < p.cap - p.start + p.end THEN p.data[i - (p.cap - p.start)]
                         ELSE Zero]
      BY DEF Expand
    <3> HIDE DEF e
    <3>4. p.cap \in Nat \ {0} /\ p.start \in 0..(p.cap - 1) /\ p.end = p.start
      BY <1>0, <1>1, <2>2 DEF Indices, IsEmpty
    <3>5. ASSUME NEW i \in 0..(2 * p.cap - 1) PROVE e.data[i] # Zero <=> i < p.cap
      <4>1. CASE i < p.cap - p.start
        <5>1. p.start + i \in 0..(p.cap - 1) /\ i < p.cap
          BY <3>4, <4>1
        <5> QED
          BY <3>2, <3>3, <4>1, <5>1
      <4>2. CASE ~(i < p.cap - p.start) /\ i < p.cap - p.start + p.end
        <5>1. i - (p.cap - p.start) \in 0..(p.cap - 1) /\ i < p.cap
          BY <3>4, <4>2
        <5> QED
          BY <3>2, <3>3, <4>2, <5>1
      <4>3. CASE ~(i < p.cap - p.start + p.end)
        <5>1. ~(i < p.cap) /\ ~(i < p.cap - p.start)
          BY <3>4, <4>3
        <5> QED
          BY <3>3, <4>3, <5>1
      <4> QED
        BY <3>4, <4>1, <4>2, <4>3
    <3>6. Cleared(e)
      <4>1. ASSUME NEW i \in 0..(e.cap - 1)
            PROVE  e.data[i] # Zero <=> IF e.start <= e.end THEN e.start <= i /\ i < e.end
                                        ELSE e.start <= i \/ i < e.end
        <5>1. e.start <= e.end /\ e.start <= i /\ i \in 0..(2 * p.cap - 1)
          BY <3>3, <3>4
        <5> QED
          BY <3>3, <3>5, <5>1
      <4> QED
        BY <4>1 DEF Cleared
    <3> QED
      BY <2>2, <3>6 DEF e
  <2> QED
    BY <2>1, <2>2
<1> HIDE DEF g
<1>4. Cleared(Longest(g))
  BY <1>3 DEF Longest, Cleared
<1> QED
  BY <1>4 DEF PushBack, p, g

\* Sequences, put together.
LEMMA Concatenation ==
  ASSUME NEW V, NEW s \in Seq(V), NEW t \in Seq(V)
  PROVE  /\ s \o t \in Seq(V) /\ Len(s \o t) = Len(s) + Len(t)
         /\ Len(s) \in Nat /\ Len(t) \in Nat
         /\ \A i \in 1..(Len(s) + Len(t)) : (s \o t)[i] = IF i <= Len(s) THEN s[i] ELSE t[i - Len(s)]
  OBVIOUS

LEMMA SameSequence ==
  ASSUME NEW V, NEW s \in Seq(V), NEW t \in Seq(V), Len(s) = Len(t), \A i \in 1..Len(s) : s[i] = t[i]
  PROVE  s = t
  OBVIOUS

\* a lists the slots of the buffer from i up to j.
Lists(a, q, i, j) ==
  a \in Seq(Items \cup {Zero}) /\ Len(a) = j - i /\ \A n \in 1..(j - i) : a[n] = q.data[i + n - 1]

LEMMA SliceItems ==
  ASSUME NEW q, NEW i \in Nat, NEW j \in Nat, i <= j, j <= q.cap, Sound(q)
  PROVE  Lists(Slice(q, i, j), q, i, j)
<1>1. q.cap \in Nat /\ q.data \in [0..(q.cap - 1) -> Items \cup {Zero}]
  BY DEF Sound, Indices
<1>2. \A n \in 1..(j - i) : q.data[i + n - 1] \in Items \cup {Zero}
  <2> SUFFICES ASSUME NEW n \in 1..(j - i) PROVE i + n - 1 \in 0..(q.cap - 1)
    BY <1>1
  <2> QED
    BY <1>1
<1>3. j - i \in Nat
  OBVIOUS
<1> QED
  BY <1>2, <1>3 DEF Slice, Lists

\* LockedGetAll lists the items from the front, wrapped or not.
LEMMA GetAllItems ==
  ASSUME NEW q, Sound(q)
  PROVE  /\ LockedGetAll(q) \in Seq(Items \cup {Zero}) /\ Len(LockedGetAll(q)) = lockedLen(q)
         /\ \A n \in 1..lockedLen(q) : LockedGetAll(q)[n] = At(q, n - 1)
<1> DEFINE V == Items \cup {Zero}
<1>0. PICK i \in Nat, j \in Nat, m \in Nat :
        /\ i = q.start /\ j = q.end /\ m = q.cap /\ i < m /\ j < m
  BY DEF Sound, Indices
<1>1. CASE j < i
  <2>1. PICK a \in Seq(V) : a = Slice(q, i, m) /\ Len(a) = m - i /\ \A n \in 1..(m - i) : a[n] = q.data[i + n - 1]
    <3>1. i <= m /\ m <= q.cap
      BY <1>0
    <3>2. Lists(Slice(q, i, m), q, i, m)
      BY <3>1, SliceItems
    <3> QED
      BY <3>2 DEF Lists
  <2>2. PICK b \in Seq(V) : b = Slice(q, 0, j) /\ Len(b) = j /\ \A n \in 1..j : b[n] = q.data[n - 1]
    <3>1. PICK o \in Nat : o = 0
      OBVIOUS
    <3>2. o <= j /\ j <= q.cap
      BY <1>0, <3>1
    <3>3. PICK b : b = Slice(q, o, j) /\ Lists(b, q, o, j)
      BY <3>2, SliceItems
    <3>4. j - o = j /\ \A n \in 1..j : o + n - 1 = n - 1
      BY <3>1
    <3>5. b = Slice(q, 0, j) /\ b \in Seq(V) /\ Len(b) = j
      BY <3>1, <3>3, <3>4 DEF Lists
    <3>6. \A n \in 1..j : b[n] = q.data[n - 1]
      BY <3>3, <3>4 DEF Lists
    <3> QED
      BY <3>5, <3>6
  <2>3. LockedGetAll(q) = a \o b
    BY <1>0, <1>1, <2>1, <2>2 DEF LockedGetAll
  <2>4. lockedLen(q) = m - i + j
    <3>1. j - i < 0 /\ j - i + m = m - i + j
      BY <1>1
    <3> QED
      BY <1>0, <3>1 DEF lockedLen
  <2>5. /\ a \o b \in Seq(V) /\ Len(a \o b) = m - i + j
        /\ \A n \in 1..(m - i + j) : (a \o b)[n] = IF n <= m - i THEN a[n] ELSE b[n - (m - i)]
    <3>1. /\ a \o b \in Seq(V) /\ Len(a \o b) = Len(a) + Len(b)
          /\ \A n \in 1..(Len(a) + Len(b)) : (a \o b)[n] = IF n <= Len(a) THEN a[n] ELSE b[n - Len(a)]
      BY Concatenation
    <3> QED
      BY <2>1, <2>2, <3>1
  <2>6. ASSUME NEW n \in 1..(m - i + j) PROVE (a \o b)[n] = At(q, n - 1)
    <3>1. CASE n <= m - i
      <4>1. (a \o b)[n] = q.data[i + n - 1]
        BY <2>1, <2>5, <3>1
      <4>2. Slot(q, n - 1) = i + n - 1
        <5>1. i + (n - 1) < m /\ i + (n - 1) = i + n - 1
          BY <3>1
        <5> QED
          BY <1>0, <5>1 DEF Slot
      <4> QED
        BY <4>1, <4>2 DEF At
    <3>2. CASE ~(n <= m - i)
      <4>1. (a \o b)[n] = q.data[n - (m - i) - 1]
        <5>1. n - (m - i) \in 1..j
          <6>1. n \in Int /\ n <= m - i + j /\ n > m - i
            BY <1>0, <3>2
          <6> QED
            BY <6>1
        <5> QED
          BY <2>2, <2>5, <3>2, <5>1
      <4>2. Slot(q, n - 1) = n - (m - i) - 1
        <5>1. n \in Int /\ ~(i + (n - 1) < m) /\ i + (n - 1) - m = n - (m - i) - 1
          BY <3>2
        <5> QED
          BY <1>0, <5>1 DEF Slot
      <4> QED
        BY <4>1, <4>2 DEF At
    <3> QED
      BY <3>1, <3>2
  <2> QED
    BY <2>3, <2>4, <2>5, <2>6
<1>2. CASE ~(j < i)
  <2>1. PICK a \in Seq(V) : a = Slice(q, i, j) /\ Len(a) = j - i /\ \A n \in 1..(j - i) : a[n] = q.data[i + n - 1]
    <3>1. i <= j /\ j <= q.cap
      BY <1>0, <1>2
    <3>2. Lists(Slice(q, i, j), q, i, j)
      BY <3>1, SliceItems
    <3> QED
      BY <3>2 DEF Lists
  <2>2. LockedGetAll(q) = a /\ lockedLen(q) = j - i
    BY <1>0, <1>2, <2>1 DEF LockedGetAll, lockedLen
  <2>3. ASSUME NEW n \in 1..(j - i) PROVE Slot(q, n - 1) = i + n - 1
    <3>1. i + (n - 1) < m /\ i + (n - 1) = i + n - 1
      BY <1>0, <1>2
    <3> QED
      BY <1>0, <3>1 DEF Slot
  <2> QED
    BY <2>1, <2>2, <2>3 DEF At
<1> QED
  BY <1>1, <1>2

-----------------------------------------------------------------------------
QueueInv == QueueTypeOK /\ PendingInOrder /\ NoLostWakeup

LEMMA QueueInitInv == QueueInit => QueueInv
<1> SUFFICES ASSUME QueueInit PROVE QueueInv
  OBVIOUS
<1>1. Sound(deque) /\ lockedLen(deque) = 0
  <2>1. /\ deque.cap = InitialCapacity /\ deque.start = 0 /\ deque.end = 0 /\ deque.maxLength = 0
        /\ deque.data = [i \in 0..(InitialCapacity - 1) |-> Zero]
    BY DEF QueueInit, NewDeque
  <2>2. Indices(deque) /\ lockedLen(deque) = 0
    BY <2>1, QueueAssumption DEF Indices, lockedLen
  <2> QED
    BY <2>1, <2>2 DEF Sound
<1>2. QueueTypeOK
  <2>1. sent \in Seq(Items) /\ received \in Seq(Items) /\ item \in Items \cup {Zero}
    BY DEF QueueInit
  <2>2. /\ notifier \in BOOLEAN /\ cancelled \in BOOLEAN
        /\ loop \in {"pop", "deliver", "wait", "closed"}
        /\ sender \in [Senders -> {"idle", "notify"}]
    BY DEF QueueInit
  <2> QED
    BY <1>1, <2>1, <2>2 DEF QueueTypeOK
<1>3. PendingInOrder
  BY <1>1 DEF QueueInit, PendingInOrder, held
<1>4. NoLostWakeup
  BY DEF QueueInit, NoLostWakeup
<1> QED
  BY <1>2, <1>3, <1>4 DEF QueueInv

LEMMA SendInv == ASSUME QueueInv, NEW s \in Senders, NEW x \in Items, Send(s, x) PROVE QueueInv'
<1> USE DEF QueueInv
<1>1. /\ Sound(deque') /\ lockedLen(deque') = lockedLen(deque) + 1
      /\ \A n \in 0..(lockedLen(deque) - 1) : At(deque', n) = At(deque, n)
      /\ At(deque', lockedLen(deque)) = x
  BY PushSound DEF Send, QueueTypeOK
<1>2. lockedLen(deque) \in Nat
  BY Lengths DEF QueueTypeOK, Sound, Indices
<1>3. /\ sent' \in Seq(Items) /\ Len(sent') = Len(sent) + 1 /\ Len(sent) \in Nat
      /\ \A n \in 1..Len(sent) : sent'[n] = sent[n]
      /\ sent'[Len(sent) + 1] = x
  BY DEF Send, QueueTypeOK
<1>4. QueueTypeOK'
  BY <1>1, <1>3 DEF Send, QueueTypeOK
<1>5. PendingInOrder'
  <2>1. /\ UNCHANGED <<received, loop, item>> /\ received \in Seq(Items) /\ Len(received) \in Nat
        /\ held \in {0, 1} /\ held' = held
    BY DEF Send, held, QueueTypeOK
  <2>2. loop # "closed" =>
          /\ Len(sent') = Len(received) + held + lockedLen(deque')
          /\ \A n \in 0..(lockedLen(deque') - 1) : At(deque', n) = sent'[Len(received) + held + n + 1]
    <3> SUFFICES ASSUME loop # "closed"
                 PROVE  /\ Len(sent') = Len(received) + held + lockedLen(deque')
                        /\ \A n \in 0..(lockedLen(deque') - 1) : At(deque', n) = sent'[Len(received) + held + n + 1]
      OBVIOUS
    <3>1. Len(sent) = Len(received) + held + lockedLen(deque)
      BY DEF PendingInOrder
    <3>2. Len(sent') = Len(received) + held + lockedLen(deque')
      BY <1>1, <1>2, <1>3, <2>1, <3>1
    <3>3. ASSUME NEW n \in 0..(lockedLen(deque') - 1)
          PROVE  At(deque', n) = sent'[Len(received) + held + n + 1]
      <4>1. CASE n = lockedLen(deque)
        BY <1>1, <1>2, <1>3, <2>1, <3>1, <4>1
      <4>2. CASE n \in 0..(lockedLen(deque) - 1)
        <5>1. At(deque', n) = sent[Len(received) + held + n + 1]
          BY <1>1, <4>2 DEF PendingInOrder
        <5>2. Len(received) + held + n + 1 \in 1..Len(sent)
          BY <1>2, <2>1, <3>1, <4>2
        <5> QED
          BY <1>3, <5>1, <5>2
      <4> QED
        BY <1>1, <1>2, <4>1, <4>2
    <3> QED
      BY <3>2, <3>3
  <2>3. Len(received) <= Len(sent) /\ Len(received) <= Len(sent')
    BY <1>3, <2>1 DEF PendingInOrder
  <2>4. \A n \in 1..Len(received) : received[n] = sent'[n]
    <3> SUFFICES ASSUME NEW n \in 1..Len(received) PROVE received[n] = sent'[n]
      OBVIOUS
    <3>1. n \in 1..Len(sent)
      BY <1>3, <2>1, <2>3
    <3> QED
      BY <1>3, <3>1 DEF PendingInOrder
  <2>5. loop = "deliver" => Len(received) < Len(sent') /\ item = sent'[Len(received) + 1]
    <3> SUFFICES ASSUME loop = "deliver"
                 PROVE  Len(received) < Len(sent') /\ item = sent'[Len(received) + 1]
      OBVIOUS
    <3>1. Len(received) < Len(sent) /\ item = sent[Len(received) + 1]
      BY DEF PendingInOrder
    <3>2. Len(received) + 1 \in 1..Len(sent)
      BY <1>3, <2>1, <3>1
    <3> QED
      BY <1>3, <2>1, <3>1, <3>2
  <2> QED
    BY <2>1, <2>2, <2>3, <2>4, <2>5 DEF PendingInOrder
<1>6. NoLostWakeup'
  BY DEF Send, NoLostWakeup, QueueTypeOK
<1> QED
  BY <1>4, <1>5, <1>6

LEMMA PopInv == ASSUME QueueInv, Pop PROVE QueueInv'
<1> USE DEF QueueInv
<1>0. /\ lockedLen(deque) \in Nat /\ (lockedLen(deque) = 0 <=> IsEmpty(deque))
      /\ Len(received) \in Nat /\ Len(sent) \in Nat
  BY Lengths DEF QueueTypeOK, Sound, Indices
<1>1. CASE IsEmpty(deque)
  <2>1. UNCHANGED <<deque, item, notifier, cancelled, sender, sent, received>> /\ loop' = "wait"
    BY <1>1 DEF Pop
  <2>2. QueueTypeOK' /\ NoLostWakeup'
    BY <1>1, <2>1 DEF QueueTypeOK, NoLostWakeup
  <2>3. PendingInOrder'
    BY <1>0, <1>1, <2>1 DEF Pop, PendingInOrder, held
  <2> QED
    BY <2>2, <2>3
<1>2. CASE ~IsEmpty(deque)
  <2>1. /\ UNCHANGED <<notifier, cancelled, sender, sent, received>> /\ loop = "pop" /\ loop' = "deliver"
        /\ item' = At(deque, 0)
        /\ Sound(deque') /\ lockedLen(deque') = lockedLen(deque) - 1
        /\ \A n \in 0..(lockedLen(deque) - 2) : At(deque', n) = At(deque, n + 1)
    BY <1>2, PopSound DEF Pop, QueueTypeOK
  <2>2. /\ held = 0 /\ held' = 1
        /\ Len(sent) = Len(received) + lockedLen(deque)
        /\ \A n \in 0..(lockedLen(deque) - 1) : At(deque, n) = sent[Len(received) + n + 1]
    <3>1. held = 0 /\ held' = 1
      BY <2>1 DEF held
    <3>2. /\ Len(sent) = Len(received) + held + lockedLen(deque)
          /\ \A n \in 0..(lockedLen(deque) - 1) : At(deque, n) = sent[Len(received) + held + n + 1]
      BY <2>1 DEF PendingInOrder
    <3>3. Len(received) + 0 = Len(received)
      BY <1>0
    <3> QED
      BY <1>0, <3>1, <3>2, <3>3
  <2>3. Len(received) < Len(sent) /\ item' = sent[Len(received) + 1]
    BY <1>0, <1>2, <2>1, <2>2
  <2>4. QueueTypeOK'
    BY <1>0, <2>1, <2>3 DEF QueueTypeOK
  <2>5. ASSUME NEW n \in 0..(lockedLen(deque') - 1)
        PROVE  At(deque', n) = sent[Len(received) + 1 + n + 1]
    <3>1. n \in 0..(lockedLen(deque) - 2) /\ n + 1 \in 0..(lockedLen(deque) - 1)
      BY <1>0, <2>1
    <3>2. At(deque', n) = sent[Len(received) + (n + 1) + 1]
      BY <2>1, <2>2, <3>1
    <3> QED
      BY <1>0, <3>1, <3>2
  <2>6. PendingInOrder'
    BY <1>0, <2>1, <2>2, <2>3, <2>5 DEF PendingInOrder
  <2> QED
    BY <2>1, <2>4, <2>6 DEF NoLostWakeup
<1> QED
  BY <1>1, <1>2

LEMMA DeliverInv == ASSUME QueueInv, Deliver PROVE QueueInv'
<1> USE DEF QueueInv
<1>0. lockedLen(deque) \in Nat /\ Len(received) \in Nat /\ Len(sent) \in Nat
  BY Lengths DEF QueueTypeOK, Sound, Indices
<1>1. /\ Len(received) < Len(sent) /\ item = sent[Len(received) + 1] /\ item \in Items
  BY <1>0 DEF Deliver, PendingInOrder, QueueTypeOK
<1>2. /\ received' \in Seq(Items) /\ Len(received') = Len(received) + 1
      /\ \A n \in 1..Len(received) : received'[n] = received[n]
      /\ received'[Len(received) + 1] = item
  BY <1>1 DEF Deliver, QueueTypeOK
<1>3. QueueTypeOK'
  BY <1>2 DEF Deliver, QueueTypeOK
<1>4. UNCHANGED <<deque, sent>> /\ held = 1 /\ held' = 0 /\ loop' = "pop" /\ loop = "deliver"
  BY DEF Deliver, held
<1>5. \A n \in 1..Len(received') : received'[n] = sent'[n]
  BY <1>0, <1>1, <1>2, <1>4 DEF PendingInOrder
<1>6. /\ Len(sent) = Len(received') + lockedLen(deque)
      /\ \A n \in 0..(lockedLen(deque) - 1) : At(deque, n) = sent[Len(received') + n + 1]
  BY <1>0, <1>2, <1>4 DEF PendingInOrder
<1>7. PendingInOrder'
  BY <1>0, <1>2, <1>4, <1>5, <1>6 DEF PendingInOrder
<1> QED
  BY <1>3, <1>4, <1>7 DEF NoLostWakeup

\* The steps that leave the deque and the histories alone.
LEMMA QuietInv ==
  ASSUME QueueInv, Wake \/ Stop \/ Close \/ (\E s \in Senders : Notify(s)) \/ UNCHANGED queueVars
  PROVE  QueueInv'
<1> USE DEF QueueInv
<1>1. UNCHANGED <<deque, sent, received>>
  BY DEF Wake, Stop, Close, Notify, queueVars
<1>2. QueueTypeOK'
  BY <1>1 DEF QueueTypeOK, Wake, Stop, Close, Notify, queueVars
<1>3. PendingInOrder'
  <2>1. \/ loop' = "closed"
        \/ loop = "wait" /\ loop' = "pop"
        \/ UNCHANGED <<loop, item>>
    BY DEF Wake, Stop, Close, Notify, queueVars
  <2> QED
    BY <1>1, <2>1 DEF PendingInOrder, held
<1>4. NoLostWakeup'
  BY <1>1 DEF NoLostWakeup, QueueTypeOK, Wake, Stop, Close, Notify, queueVars
<1> QED
  BY <1>2, <1>3, <1>4

LEMMA SampleInv == ASSUME QueueInv, Sample PROVE QueueInv'
<1> USE DEF QueueInv
<1>1. /\ deque'.data = deque.data /\ deque'.cap = deque.cap /\ deque'.start = deque.start
      /\ deque'.end = deque.end /\ deque'.maxLength = 0
      /\ UNCHANGED <<notifier, loop, item, cancelled, sender, sent, received>>
  BY DEF Sample, ResetLength
<1>2. /\ Sound(deque') /\ lockedLen(deque') = lockedLen(deque)
      /\ IsEmpty(deque') = IsEmpty(deque) /\ \A n : At(deque', n) = At(deque, n)
  BY <1>1 DEF QueueTypeOK, Sound, Indices, lockedLen, IsEmpty, At, Slot
<1>3. QueueTypeOK'
  BY <1>1, <1>2 DEF QueueTypeOK
<1>4. PendingInOrder'
  BY <1>1, <1>2 DEF PendingInOrder, held
<1> QED
  BY <1>1, <1>2, <1>3, <1>4 DEF NoLostWakeup

\* In every reachable state, for every capacity and any number of senders, the
\* ring buffer holds what was sent and not received, in order, and receiverLoop
\* sleeps only when the deque is empty or a signal is there or under way.
THEOREM QueueInvariant == QueueSpec => []QueueInv
<1>1. QueueInv /\ [QueueNext]_queueVars => QueueInv'
  BY SendInv, PopInv, DeliverInv, QuietInv, SampleInv DEF QueueNext, LoopStep
<1> QED
  BY QueueInitInv, <1>1, PTL DEF QueueSpec

\* Send, receiverLoop and Close never index outside the ring buffer.
THEOREM QueueTypeCorrect == QueueSpec => []QueueTypeOK
  BY QueueInvariant, PTL DEF QueueInv

\* What the consumer received, what receiverLoop holds and what is in the ring
\* buffer is what Send was called with, in order, through every expansion.
THEOREM ItemsInOrder == QueueSpec => []PendingInOrder
  BY QueueInvariant, PTL DEF QueueInv

\* receiverLoop misses no wakeup, although Send drops its signal when the
\* notifier channel is full.
THEOREM WakeupsAreKept == QueueSpec => []NoLostWakeup
  BY QueueInvariant, PTL DEF QueueInv

\* What LockedGetAll would return completes what was received to what was sent,
\* however the ring buffer is wrapped.
THEOREM NothingIsLost == QueueSpec => []NothingLost
<1>1. QueueInv => NothingLost
  <2> SUFFICES ASSUME QueueInv, loop # "closed"
               PROVE  received \o (IF loop = "deliver" THEN <<item>> ELSE <<>>) \o LockedGetAll(deque) = sent
    BY DEF NothingLost
  <2> DEFINE V == Items \cup {Zero}
             h == IF loop = "deliver" THEN <<item>> ELSE <<>>
             g == LockedGetAll(deque)
  <2>1. received \in Seq(V) /\ sent \in Seq(V) /\ item \in V /\ Sound(deque)
    BY DEF QueueInv, QueueTypeOK
  <2>2. h \in Seq(V) /\ Len(h) = held /\ held \in {0, 1} /\ (held = 1 => h[1] = sent[Len(received) + 1])
    <3>1. CASE loop = "deliver"
      BY <2>1, <3>1 DEF held, QueueInv, PendingInOrder
    <3>2. CASE loop # "deliver"
      BY <3>2 DEF held
    <3> QED
      BY <3>1, <3>2
  <2>3. /\ g \in Seq(V) /\ Len(g) = lockedLen(deque)
        /\ \A n \in 1..lockedLen(deque) : g[n] = At(deque, n - 1)
    BY <2>1, GetAllItems
  <2>4. /\ Len(sent) = Len(received) + held + lockedLen(deque)
        /\ \A n \in 0..(lockedLen(deque) - 1) : At(deque, n) = sent[Len(received) + held + n + 1]
        /\ \A n \in 1..Len(received) : received[n] = sent[n]
    BY DEF QueueInv, PendingInOrder
  <2> HIDE DEF h, g, V
  <2> DEFINE rh == received \o h
  <2>5. /\ rh \in Seq(V) /\ Len(rh) = Len(received) + held
        /\ \A n \in 1..Len(rh) : rh[n] = sent[n]
    <3>1. rh \in Seq(V) /\ Len(rh) = Len(received) + held
      BY <2>1, <2>2
    <3>2. \A n \in 1..Len(received) : rh[n] = received[n]
      BY <2>1, <2>2
    <3>3. held = 1 => rh[Len(received) + 1] = h[1]
      BY <2>1, <2>2, Concatenation
    <3>4. Len(received) \in Nat
      BY <2>1
    <3> HIDE DEF rh
    <3>5. ASSUME NEW n \in 1..Len(rh) PROVE rh[n] = sent[n]
      <4>1. CASE n \in 1..Len(received)
        BY <2>4, <3>2, <4>1
      <4>2. CASE n \notin 1..Len(received)
        <5>1. held = 1 /\ n = Len(received) + 1
          BY <2>2, <3>1, <3>4, <4>2
        <5> QED
          BY <2>2, <3>3, <5>1
      <4> QED
        BY <4>1, <4>2
    <3> QED
      BY <3>1, <3>5
  <2> HIDE DEF rh
  <2>6. (rh \o g) \in Seq(V) /\ Len(rh \o g) = Len(sent)
    BY <2>3, <2>4, <2>5, Concatenation
  <2>7. ASSUME NEW n \in 1..Len(sent) PROVE (rh \o g)[n] = sent[n]
    <3>0. Len(rh) \in Nat /\ Len(g) \in Nat /\ Len(sent) = Len(rh) + Len(g)
      BY <2>3, <2>4, <2>5
    <3>1. CASE n <= Len(rh)
      BY <2>3, <2>5, <3>0, <3>1
    <3>2. CASE ~(n <= Len(rh))
      <4> DEFINE m == n - Len(rh)
      <4>1. m \in 1..Len(g) /\ (rh \o g)[n] = g[m]
        BY <2>3, <2>5, <3>0, <3>2
      <4>2. m - 1 \in 0..(lockedLen(deque) - 1) /\ Len(received) + held + (m - 1) + 1 = n
        BY <2>3, <2>5, <3>0, <4>1
      <4>3. g[m] = At(deque, m - 1)
        BY <2>3, <4>1
      <4> HIDE DEF m
      <4> QED
        BY <2>4, <4>1, <4>2, <4>3
    <3> QED
      BY <3>1, <3>2
  <2>8. rh \o g = sent
    BY <2>1, <2>6, <2>7, SameSequence, Zenon
  <2> QED
    BY <2>8 DEF rh, h, g
<1> QED
  BY <1>1, QueueInvariant, PTL

\* The ring buffer holds no pointer to an item that was popped: LockedPopFront
\* clears its slot and LockedPushBack copies none when it expands.
THEOREM NoGarbageIsHeld == QueueSpec => []FreedSlotsCleared
<1>1. QueueInit => FreedSlotsCleared
  BY QueueAssumption DEF QueueInit, NewDeque, FreedSlotsCleared, Cleared
<1>2. QueueInv /\ FreedSlotsCleared /\ [QueueNext]_queueVars => FreedSlotsCleared'
  <2> SUFFICES ASSUME QueueInv, FreedSlotsCleared, [QueueNext]_queueVars PROVE Cleared(deque')
    BY DEF FreedSlotsCleared
  <2>1. Sound(deque) /\ Cleared(deque)
    BY DEF QueueInv, QueueTypeOK, FreedSlotsCleared
  <2>2. CASE \E s \in Senders, x \in Items : Send(s, x)
    BY <2>1, <2>2, PushClears DEF Send
  <2>3. CASE Pop /\ ~IsEmpty(deque)
    BY <2>1, <2>3, PopClears DEF Pop
  <2>4. CASE Sample
    BY <2>1, <2>4 DEF Sample, ResetLength, Cleared
  <2>5. CASE deque' = deque
    BY <2>1, <2>5
  <2> QED
    BY <2>2, <2>3, <2>4, <2>5 DEF QueueNext, LoopStep, Pop, Deliver, Wake, Stop, Close, Notify, queueVars
<1> QED
  BY <1>1, <1>2, QueueInvariant, PTL DEF QueueSpec

\* UnboundedQueue implements an unbounded channel: what comes out of Receiver()
\* is what was passed to Send, in order, whatever the initial capacity.
THEOREM QueueIsChannel == QueueSpec => ImplementsChannel
<1>1. QueueInit => Channel!Init
  BY DEF QueueInit, Channel!Init
<1>2. QueueInv /\ [QueueNext]_queueVars => [Channel!Next]_<<sent, received, loop = "closed">>
  <2> SUFFICES ASSUME QueueInv, [QueueNext]_queueVars
               PROVE  [Channel!Next]_<<sent, received, loop = "closed">>
    OBVIOUS
  <2>1. CASE \E s \in Senders, x \in Items : Send(s, x)
    BY <2>1 DEF Send, Channel!Next, Channel!Send
  <2>2. CASE Deliver
    BY <2>2 DEF Deliver, QueueInv, PendingInOrder, Channel!Next, Channel!Receive
  <2>3. CASE Stop
    BY <2>3 DEF Stop, Channel!Next, Channel!Close
  <2>4. CASE (\E s \in Senders : Notify(s)) \/ Pop \/ Wake \/ Sample \/ Close \/ UNCHANGED queueVars
    BY <2>4 DEF Notify, Pop, Wake, Sample, Close, queueVars
  <2> QED
    BY <2>1, <2>2, <2>3, <2>4 DEF QueueNext, LoopStep
<1> QED
  BY <1>1, <1>2, QueueInvariant, PTL DEF QueueSpec, ImplementsChannel, Channel!Spec

-----------------------------------------------------------------------------
(* The semaphore *)

Publishing == {t \in Tasks : pc[t] = "publish"}

\* The tasks that hold a signal of limitCh.
HeldAt == {"check", "run", "publish", "release"}
Holding == {t \in Tasks : pc[t] \in HeldAt}

LimitCounts == limit # -1 => limitCh = Cardinality(Holding) /\ limitCh <= limit

\* Once the wait group has been seen at zero it stays there.
DoneIsFinal == doneCh => main \notin {"before", "publish"} /\ Live = {}

\* Where Run is, and what it has told its goroutines and its caller.
RunIsConsistent ==
  /\ main # "returned" => ~errNotify /\ ret = "running"
  /\ ret = "nil" => ~errNotify /\ doneCh
  /\ main = "publish" => publishing \in Tasks

\* A result that was produced is published, being published or waiting to be,
\* unless Run has returned early.
InPublish == IF main = "publish" THEN {publishing} ELSE {}
ResultsAreKept == ~errNotify => produced = published \cup Publishing \cup InPublish

\* The inductive invariant.
SemInv ==
  /\ SemTypeOK /\ WaitGroupCounts /\ LimitCounts /\ DoneIsFinal /\ RunIsConsistent /\ ResultsAreKept

-----------------------------------------------------------------------------
One(b) == IF b THEN 1 ELSE 0

\* How often a task is counted by a set it enters, stays in or leaves.
LEMMA CountMove ==
  ASSUME NEW A \in SUBSET Tasks, NEW B \in SUBSET Tasks, NEW t \in Tasks,
         \A u \in Tasks \ {t} : u \in B <=> u \in A
  PROVE  /\ Cardinality(A) \in Nat /\ Cardinality(B) \in Nat
         /\ Cardinality(B) = Cardinality(A) + One(t \in B) - One(t \in A)
         /\ t \in A => Cardinality(A) > 0
<1>1. IsFiniteSet(A) /\ IsFiniteSet(B)
  BY FS_Subset, SemaphoreAssumption
<1>2. Cardinality(A) \in Nat /\ Cardinality(B) \in Nat
  BY <1>1, FS_CardinalityType
<1>3. t \in A => Cardinality(A) > 0
  BY <1>1, <1>2, FS_EmptySet
<1>4. CASE t \in A /\ t \in B
  BY <1>2, <1>3, <1>4 DEF One
<1>5. CASE t \notin A /\ t \notin B
  <2>1. A = B
    BY <1>5
  <2> QED
    BY <1>2, <1>5, <2>1 DEF One
<1>6. CASE t \in A /\ t \notin B
  <2>1. B = A \ {t}
    BY <1>6
  <2>2. Cardinality(B) = Cardinality(A) - 1
    BY <1>1, <1>6, <2>1, FS_RemoveElement
  <2> QED
    BY <1>2, <1>3, <1>6, <2>2 DEF One
<1>7. CASE t \notin A /\ t \in B
  <2>1. B = A \cup {t}
    BY <1>7
  <2>2. Cardinality(B) = Cardinality(A) + 1
    BY <1>1, <1>7, <2>1, FS_AddElement
  <2> QED
    BY <1>2, <1>3, <1>7, <2>2 DEF One
<1> QED
  BY <1>4, <1>5, <1>6, <1>7

\* A goroutine moves on: what that does to the sets, and to their sizes.
LEMMA GotoCounts ==
  ASSUME pc \in [Tasks -> PCs], NEW t \in Tasks, NEW label \in PCs, Goto(t, label)
  PROVE  /\ pc' \in [Tasks -> PCs] /\ pc'[t] = label
         /\ \A u \in Tasks \ {t} : pc'[u] = pc[u]
         /\ Live' = IF label \in {"none", "ended"} THEN Live \ {t} ELSE Live \cup {t}
         /\ Publishing' = IF label = "publish" THEN Publishing \cup {t} ELSE Publishing \ {t}
         /\ Cardinality(Live)' = Cardinality(Live) + One(label \notin {"none", "ended"})
                                                   - One(pc[t] \notin {"none", "ended"})
         /\ Cardinality(Publishing)' = Cardinality(Publishing) + One(label = "publish") - One(pc[t] = "publish")
         /\ Cardinality(Holding)' = Cardinality(Holding) + One(label \in HeldAt) - One(pc[t] \in HeldAt)
<1>1. pc' \in [Tasks -> PCs] /\ pc'[t] = label /\ \A u \in Tasks \ {t} : pc'[u] = pc[u]
  BY DEF Goto
<1>2. Live' = IF label \in {"none", "ended"} THEN Live \ {t} ELSE Live \cup {t}
  BY <1>1 DEF Live
<1>3. Publishing' = IF label = "publish" THEN Publishing \cup {t} ELSE Publishing \ {t}
  BY <1>1 DEF Publishing
<1>4. Cardinality(Live)' = Cardinality(Live) + One(label \notin {"none", "ended"})
                                             - One(pc[t] \notin {"none", "ended"})
  <2>1. /\ Live \in SUBSET Tasks /\ Live' \in SUBSET Tasks /\ \A u \in Tasks \ {t} : u \in Live' <=> u \in Live
        /\ (t \in Live' <=> label \notin {"none", "ended"}) /\ (t \in Live <=> pc[t] \notin {"none", "ended"})
    BY <1>1 DEF Live
  <2>2. Cardinality(Live') = Cardinality(Live) + One(t \in Live') - One(t \in Live)
    BY <2>1, CountMove
  <2> QED
    BY <2>1, <2>2 DEF One
<1>5. Cardinality(Publishing)' = Cardinality(Publishing) + One(label = "publish") - One(pc[t] = "publish")
  <2>1. /\ Publishing \in SUBSET Tasks /\ Publishing' \in SUBSET Tasks
        /\ \A u \in Tasks \ {t} : u \in Publishing' <=> u \in Publishing
        /\ (t \in Publishing' <=> label = "publish") /\ (t \in Publishing <=> pc[t] = "publish")
    BY <1>1 DEF Publishing
  <2>2. Cardinality(Publishing') = Cardinality(Publishing) + One(t \in Publishing') - One(t \in Publishing)
    BY <2>1, CountMove
  <2> QED
    BY <2>1, <2>2 DEF One
<1>6. Cardinality(Holding)' = Cardinality(Holding) + One(label \in HeldAt) - One(pc[t] \in HeldAt)
  <2>1. /\ Holding \in SUBSET Tasks /\ Holding' \in SUBSET Tasks
        /\ \A u \in Tasks \ {t} : u \in Holding' <=> u \in Holding
        /\ (t \in Holding' <=> label \in HeldAt) /\ (t \in Holding <=> pc[t] \in HeldAt)
    BY <1>1 DEF Holding
  <2>2. Cardinality(Holding') = Cardinality(Holding) + One(t \in Holding') - One(t \in Holding)
    BY <2>1, CountMove
  <2> QED
    BY <2>1, <2>2 DEF One
<1> QED
  BY <1>1, <1>2, <1>3, <1>4, <1>5, <1>6

\* A step of a goroutine: the wait group and limitCh move along with it.
LEMMA MoveInv ==
  ASSUME SemInv, NEW t \in Tasks, NEW label \in PCs, Goto(t, label), ~doneCh,
         wg' = wg + One(label \notin {"none", "ended"}) - One(pc[t] \notin {"none", "ended"})
                  + One(label = "publish") - One(pc[t] = "publish"),
         limitCh' \in Nat,
         limit # -1 => /\ limitCh' = limitCh + One(label \in HeldAt) - One(pc[t] \in HeldAt)
                       /\ limitCh' <= limit,
         ~errNotify => pc[t] # "publish",
         produced' = IF label = "publish" THEN produced \cup {t} ELSE produced,
         errCh' \in Tasks \cup {None}, failed' \subseteq Tasks,
         UNCHANGED <<limit, errNotify, main, publishing, doneCh, ctxDone, ret, published>>
  PROVE  SemInv'
<1>0. SemTypeOK
  BY DEF SemInv
<1>1. /\ pc' \in [Tasks -> PCs]
      /\ Publishing' = IF label = "publish" THEN Publishing \cup {t} ELSE Publishing \ {t}
      /\ Cardinality(Live)' = Cardinality(Live) + One(label \notin {"none", "ended"})
                                                - One(pc[t] \notin {"none", "ended"})
      /\ Cardinality(Publishing)' = Cardinality(Publishing) + One(label = "publish") - One(pc[t] = "publish")
      /\ Cardinality(Holding)' = Cardinality(Holding) + One(label \in HeldAt) - One(pc[t] \in HeldAt)
  BY <1>0, GotoCounts DEF SemTypeOK
<1>2. /\ Cardinality(Live) \in Nat /\ Cardinality(Publishing) \in Nat /\ Cardinality(Holding) \in Nat
      /\ Cardinality(Live)' \in Nat /\ Cardinality(Publishing)' \in Nat
  <2>1. /\ Live \in SUBSET Tasks /\ Publishing \in SUBSET Tasks /\ Holding \in SUBSET Tasks
        /\ Live' \in SUBSET Tasks /\ Publishing' \in SUBSET Tasks
    BY DEF Live, Publishing, Holding
  <2> QED
    BY <2>1, CountMove
<1>3. wg = Cardinality(Live) + Cardinality(Publishing) + One(main = "publish")
  BY DEF SemInv, WaitGroupCounts, Publishing, One
<1>4. wg' = Cardinality(Live)' + Cardinality(Publishing)' + One(main' = "publish")
  BY <1>0, <1>1, <1>2, <1>3 DEF One, SemTypeOK
<1>5. WaitGroupCounts' /\ wg' \in Nat
  BY <1>2, <1>4 DEF WaitGroupCounts, Publishing, One
<1>6. LimitCounts'
  BY <1>0, <1>1, <1>2 DEF SemInv, LimitCounts, SemTypeOK
<1>7. ResultsAreKept'
  <2>1. ASSUME ~errNotify PROVE produced' = published' \cup Publishing' \cup InPublish'
    <3>1. produced = published \cup Publishing \cup InPublish /\ t \notin Publishing /\ InPublish' = InPublish
      BY <2>1 DEF SemInv, ResultsAreKept, Publishing, InPublish
    <3> QED
      BY <1>1, <3>1
  <2> QED
    BY <2>1 DEF ResultsAreKept
<1>8. produced' \subseteq Tasks
  BY <1>0 DEF SemTypeOK
<1>9. SemTypeOK'
  BY <1>0, <1>1, <1>5, <1>8 DEF SemTypeOK
<1>10. DoneIsFinal' /\ RunIsConsistent'
  BY DEF SemInv, DoneIsFinal, RunIsConsistent
<1> QED
  BY <1>5, <1>6, <1>7, <1>9, <1>10 DEF SemInv

\* Nothing moves any more once doneCh is closed.
LEMMA LiveIsNotDone == ASSUME SemInv, NEW t \in Tasks, pc[t] \notin {"none", "ended"} PROVE ~doneCh
  BY DEF SemInv, DoneIsFinal, Live

LEMMA ScheduleInv ==
  ASSUME SemInv, NEW t \in Tasks, Schedule(t)
  PROVE  SemInv'
<1>1. ~doneCh
  <2>1. CASE main \in {"before", "publish"}
    BY <2>1 DEF SemInv, DoneIsFinal
  <2>2. CASE \E u \in Tasks : pc[u] = "run"
    BY <2>2, LiveIsNotDone
  <2> QED
    BY <2>1, <2>2 DEF Schedule
<1>2. /\ pc[t] = "none" /\ Goto(t, "init") /\ wg' = wg + 1
      /\ UNCHANGED <<limit, limitCh, errCh, errNotify, main, publishing, doneCh, ctxDone, ret,
                     failed, produced, published>>
  BY DEF Schedule, history
<1>3. "init" \in PCs /\ "init" \notin HeldAt /\ "none" \notin HeldAt
  BY DEF PCs, HeldAt
<1>4. SemTypeOK /\ LimitCounts
  BY DEF SemInv
<1> QED
  BY <1>1, <1>2, <1>3, <1>4, MoveInv DEF SemTypeOK, LimitCounts, One

LEMMA WorkerInv ==
  ASSUME SemInv, NEW t \in Tasks, Worker(t)
  PROVE  SemInv'
<1>0. SemTypeOK /\ LimitCounts
  BY DEF SemInv
<1>1. pc[t] \notin {"none", "ended"}
  BY DEF Worker, Begin, Acquire, Check, TaskReturns, PublishAborted, Release, Done
<1>2. ~doneCh
  BY <1>1, LiveIsNotDone
<1>3. limit \in Int /\ limitCh \in Nat /\ wg \in Nat /\ (limit # -1 => limitCh <= limit)
  BY <1>0, SemaphoreAssumption DEF SemTypeOK, LimitCounts
<1>4. limit # -1 /\ pc[t] \in HeldAt => limitCh > 0
  <2>1. Holding \in SUBSET Tasks /\ (pc[t] \in HeldAt => t \in Holding)
    BY DEF Holding
  <2>2. t \in Holding => Cardinality(Holding) > 0
    BY <2>1, CountMove
  <2> QED
    BY <1>0, <2>1, <2>2 DEF LimitCounts
<1>5. ASSUME Begin(t) PROVE SemInv'
  <2>1. CASE limit = -1
    <3>1. /\ pc[t] = "init" /\ Goto(t, "check")
          /\ UNCHANGED <<limit, wg, limitCh, errCh, errNotify, main, publishing, doneCh, ctxDone, ret,
                         failed, produced, published>>
      BY <1>5, <2>1 DEF Begin, history
    <3>2. "check" \in PCs
      BY DEF PCs
    <3> QED
      BY <1>0, <1>2, <1>3, <2>1, <3>1, <3>2, MoveInv DEF SemTypeOK, One
  <2>2. CASE limit # -1
    <3>1. /\ pc[t] = "init" /\ Goto(t, "acquire")
          /\ UNCHANGED <<limit, wg, limitCh, errCh, errNotify, main, publishing, doneCh, ctxDone, ret,
                         failed, produced, published>>
      BY <1>5, <2>2 DEF Begin, history
    <3>2. "acquire" \in PCs /\ "acquire" \notin HeldAt /\ "init" \notin HeldAt
      BY DEF PCs, HeldAt
    <3> QED
      BY <1>0, <1>2, <1>3, <3>1, <3>2, MoveInv DEF SemTypeOK, One
  <2> QED
    BY <2>1, <2>2
<1>6. ASSUME Acquire(t) PROVE SemInv'
  <2>0. /\ pc[t] = "acquire"
        /\ UNCHANGED <<limit, errCh, errNotify, main, publishing, doneCh, ctxDone, ret,
                       failed, produced, published>>
    BY <1>6 DEF Acquire, history
  <2>1. "ended" \in PCs /\ "check" \in PCs /\ "check" \in HeldAt /\ "ended" \notin HeldAt /\ "acquire" \notin HeldAt
    BY DEF PCs, HeldAt
  <2>2. CASE Goto(t, "ended") /\ wg' = wg - 1 /\ UNCHANGED limitCh
    BY <1>0, <1>2, <1>3, <2>0, <2>1, <2>2, MoveInv DEF SemTypeOK, One
  <2>3. CASE limitCh < limit /\ Goto(t, "check") /\ limitCh' = limitCh + 1 /\ UNCHANGED wg
    BY <1>0, <1>2, <1>3, <2>0, <2>1, <2>3, MoveInv DEF SemTypeOK, One
  <2> QED
    BY <1>6, <2>2, <2>3 DEF Acquire
<1>7. ASSUME Check(t) PROVE SemInv'
  <2>0. PICK label \in {"release", "run"} :
          /\ pc[t] = "check" /\ Goto(t, label)
          /\ UNCHANGED <<limit, wg, limitCh, errCh, errNotify, main, publishing, doneCh, ctxDone, ret,
                         failed, produced, published>>
    BY <1>7 DEF Check, history
  <2>1. label \in PCs /\ label \in HeldAt /\ "check" \in HeldAt
    BY DEF PCs, HeldAt
  <2> QED
    BY <1>0, <1>2, <1>3, <2>0, <2>1, MoveInv DEF SemTypeOK, One
<1>8. ASSUME TaskReturns(t) PROVE SemInv'
  <2>0. pc[t] = "run" /\ UNCHANGED <<limit, limitCh, errNotify, main, publishing, doneCh, ctxDone, ret, published>>
    BY <1>8 DEF TaskReturns
  <2>1. /\ "publish" \in PCs /\ "release" \in PCs /\ "publish" \in HeldAt /\ "release" \in HeldAt /\ "run" \in HeldAt
    BY DEF PCs, HeldAt
  <2>2. CASE Goto(t, "publish") /\ wg' = wg + 1 /\ produced' = produced \cup {t} /\ UNCHANGED <<errCh, failed>>
    BY <1>0, <1>2, <1>3, <2>0, <2>1, <2>2, MoveInv DEF SemTypeOK, One
  <2>3. CASE Goto(t, "release") /\ UNCHANGED <<wg, errCh, failed, produced>>
    BY <1>0, <1>2, <1>3, <2>0, <2>1, <2>3, MoveInv DEF SemTypeOK, One
  <2>4. CASE /\ Goto(t, "release") /\ errCh' = (IF errCh = None THEN t ELSE errCh)
             /\ failed' = failed \cup {t} /\ UNCHANGED <<wg, produced>>
    <3>1. errCh' \in Tasks \cup {None} /\ failed' \subseteq Tasks
      BY <1>0, <2>4 DEF SemTypeOK
    <3> QED
      BY <1>0, <1>2, <1>3, <2>0, <2>1, <2>4, <3>1, MoveInv DEF SemTypeOK, One
  <2> QED
    BY <1>8, <2>2, <2>3, <2>4 DEF TaskReturns
<1>9. ASSUME PublishAborted(t) PROVE SemInv'
  <2>0. /\ pc[t] = "publish" /\ errNotify /\ wg' = wg - 1 /\ Goto(t, "release")
        /\ UNCHANGED <<limit, limitCh, errCh, errNotify, main, publishing, doneCh, ctxDone, ret,
                       failed, produced, published>>
    BY <1>9 DEF PublishAborted, history
  <2>1. "release" \in PCs /\ "publish" \in HeldAt /\ "release" \in HeldAt
    BY DEF PCs, HeldAt
  <2> QED
    BY <1>0, <1>2, <1>3, <2>0, <2>1, MoveInv DEF SemTypeOK, One
<1>10. ASSUME Release(t) PROVE SemInv'
  <2>0. /\ pc[t] = "release" /\ Goto(t, "exit")
        /\ limitCh' = (IF limit = -1 THEN limitCh ELSE limitCh - 1)
        /\ UNCHANGED <<limit, wg, errCh, errNotify, main, publishing, doneCh, ctxDone, ret,
                       failed, produced, published>>
    BY <1>10 DEF Release, history
  <2>1. "exit" \in PCs /\ "exit" \notin HeldAt /\ "release" \in HeldAt
    BY DEF PCs, HeldAt
  <2>2. limitCh' \in Nat
    BY <1>3, <1>4, <2>0, <2>1
  <2> QED
    BY <1>0, <1>2, <1>3, <2>0, <2>1, <2>2, MoveInv DEF SemTypeOK, One
<1>11. ASSUME Done(t) PROVE SemInv'
  <2>0. /\ pc[t] = "exit" /\ wg' = wg - 1 /\ Goto(t, "ended")
        /\ UNCHANGED <<limit, limitCh, errCh, errNotify, main, publishing, doneCh, ctxDone, ret,
                       failed, produced, published>>
    BY <1>11 DEF Done, history
  <2>1. "ended" \in PCs /\ "exit" \notin HeldAt /\ "ended" \notin HeldAt
    BY DEF PCs, HeldAt
  <2> QED
    BY <1>0, <1>2, <1>3, <2>0, <2>1, MoveInv DEF SemTypeOK, One
<1> QED
  BY <1>5, <1>6, <1>7, <1>8, <1>9, <1>10, <1>11 DEF Worker

\* The steps of Run that touch no goroutine and do not publish.
LEMMA MainInv ==
  ASSUME SemInv, UNCHANGED <<limit, pc, wg, limitCh, failed, produced, published, publishing>>,
         main # "publish", main' \in {"before", "select", "returned"}, main' = "before" => main = "before",
         errCh' \in Tasks \cup {None}, errNotify' \in BOOLEAN, doneCh' \in BOOLEAN, ctxDone' \in BOOLEAN,
         ret' \in {"nil", "error", "ctx", "running"},
         main' # "returned" => UNCHANGED <<errNotify, ret>> /\ main # "returned",
         errNotify => errNotify', ret' = "nil" => ~errNotify' /\ doneCh',
         doneCh' => doneCh \/ (main # "before" /\ wg = 0)
  PROVE  SemInv'
<1>0. SemTypeOK /\ WaitGroupCounts /\ LimitCounts /\ DoneIsFinal /\ RunIsConsistent /\ ResultsAreKept
  BY DEF SemInv
<1>1. Live' = Live /\ Publishing' = Publishing /\ Holding' = Holding /\ InPublish' = {} /\ InPublish = {}
  BY DEF Live, Publishing, Holding, InPublish
<1>2. SemTypeOK'
  BY <1>0 DEF SemTypeOK
<1>3. WaitGroupCounts'
  BY <1>0, <1>1 DEF WaitGroupCounts, Publishing
<1>4. LimitCounts' /\ ResultsAreKept'
  BY <1>0, <1>1 DEF LimitCounts, ResultsAreKept
<1>5. DoneIsFinal'
  <2>1. ASSUME wg = 0 PROVE Live = {}
    <3>1. IsFiniteSet(Live) /\ IsFiniteSet(Publishing)
      BY FS_Subset, SemaphoreAssumption DEF Live, Publishing
    <3>2. Cardinality(Live) \in Nat /\ Cardinality(Publishing) \in Nat
      BY <3>1, FS_CardinalityType
    <3>3. wg = Cardinality(Live) + Cardinality(Publishing)
      BY <1>0, <3>2 DEF WaitGroupCounts, Publishing
    <3> QED
      BY <2>1, <3>1, <3>2, <3>3, FS_EmptySet
  <2>2. doneCh => main # "before" /\ Live = {}
    BY <1>0 DEF DoneIsFinal
  <2>3. doneCh' => main # "before" /\ Live = {}
    BY <2>1, <2>2
  <2> QED
    BY <1>1, <2>3 DEF DoneIsFinal
<1>6. RunIsConsistent'
  BY <1>0 DEF RunIsConsistent
<1> QED
  BY <1>2, <1>3, <1>4, <1>5, <1>6 DEF SemInv

\* A publish function is handed over, and returns.
LEMMA SelectPublishInv ==
  ASSUME SemInv, NEW t \in Tasks, SelectPublish(t)
  PROVE  SemInv'
<1>0. SemTypeOK /\ WaitGroupCounts /\ LimitCounts /\ DoneIsFinal /\ RunIsConsistent /\ ResultsAreKept
  BY DEF SemInv
<1>1. /\ main = "select" /\ pc[t] = "publish" /\ Goto(t, "release") /\ main' = "publish" /\ publishing' = t
      /\ UNCHANGED <<limit, wg, limitCh, errCh, errNotify, doneCh, ctxDone, ret, failed, produced, published>>
  BY DEF SelectPublish, history
<1>2. "release" \in PCs /\ "release" \in HeldAt /\ "publish" \in HeldAt
  BY DEF PCs, HeldAt
<1>3. /\ pc' \in [Tasks -> PCs] /\ Publishing' = Publishing \ {t}
      /\ Cardinality(Live)' = Cardinality(Live) + 1 - 1
      /\ Cardinality(Publishing)' = Cardinality(Publishing) + 0 - 1
      /\ Cardinality(Holding)' = Cardinality(Holding) + 1 - 1
  BY <1>0, <1>1, <1>2, GotoCounts DEF SemTypeOK, One
<1>4. Cardinality(Live) \in Nat /\ Cardinality(Publishing) \in Nat /\ Cardinality(Holding) \in Nat
  <2>1. Live \in SUBSET Tasks /\ Publishing \in SUBSET Tasks /\ Holding \in SUBSET Tasks
    BY DEF Live, Publishing, Holding
  <2> QED
    BY <2>1, CountMove
<1>5. ~doneCh
  BY <1>1, LiveIsNotDone
<1>6. SemTypeOK'
  BY <1>0, <1>1, <1>3 DEF SemTypeOK
<1>7. WaitGroupCounts'
  <2>1. wg = Cardinality(Live) + Cardinality(Publishing)
    BY <1>0, <1>1, <1>4 DEF WaitGroupCounts, Publishing
  <2>2. wg' = Cardinality(Live)' + Cardinality(Publishing)' + 1
    BY <1>1, <1>3, <1>4, <2>1
  <2> QED
    BY <1>1, <2>2 DEF WaitGroupCounts, Publishing
<1>8. LimitCounts'
  BY <1>0, <1>1, <1>3, <1>4 DEF LimitCounts
<1>9. DoneIsFinal' /\ RunIsConsistent'
  BY <1>0, <1>1, <1>5 DEF DoneIsFinal, RunIsConsistent
<1>10. ResultsAreKept'
  <2>1. t \in Publishing /\ InPublish = {} /\ InPublish' = {t}
    BY <1>1 DEF Publishing, InPublish
  <2> QED
    BY <1>0, <1>1, <1>3, <2>1 DEF ResultsAreKept
<1> QED
  BY <1>6, <1>7, <1>8, <1>9, <1>10 DEF SemInv

LEMMA PublishReturnsInv ==
  ASSUME SemInv, PublishReturns
  PROVE  SemInv'
<1>0. SemTypeOK /\ WaitGroupCounts /\ LimitCounts /\ DoneIsFinal /\ RunIsConsistent /\ ResultsAreKept
  BY DEF SemInv
<1>1. /\ main = "publish" /\ wg' = wg - 1 /\ published' = published \cup {publishing} /\ publishing' = None
      /\ \/ main' = "select" /\ UNCHANGED <<errNotify, ret>>
         \/ errNotify' = TRUE /\ main' = "returned" /\ ret' = "error"
      /\ UNCHANGED <<limit, pc, limitCh, errCh, doneCh, ctxDone, failed, produced>>
  BY DEF PublishReturns, Return
<1>2. Live' = Live /\ Publishing' = Publishing /\ Holding' = Holding /\ InPublish' = {} /\ InPublish = {publishing}
  BY <1>1 DEF Live, Publishing, Holding, InPublish
<1>3. Cardinality(Live) \in Nat /\ Cardinality(Publishing) \in Nat
  <2>1. Live \in SUBSET Tasks /\ Publishing \in SUBSET Tasks
    BY DEF Live, Publishing
  <2>2. publishing \in Tasks
    BY <1>0, <1>1 DEF RunIsConsistent
  <2> QED
    BY <2>1, <2>2, CountMove
<1>4. wg = Cardinality(Live) + Cardinality(Publishing) + 1
  BY <1>0, <1>1 DEF WaitGroupCounts, Publishing
<1>5. wg' = Cardinality(Live) + Cardinality(Publishing) /\ wg' \in Nat
  BY <1>1, <1>3, <1>4
<1>6. SemTypeOK'
  BY <1>0, <1>1, <1>5 DEF SemTypeOK, RunIsConsistent
<1>7. WaitGroupCounts'
  BY <1>1, <1>2, <1>3, <1>5 DEF WaitGroupCounts, Publishing
<1>8. LimitCounts' /\ DoneIsFinal' /\ RunIsConsistent'
  BY <1>0, <1>1, <1>2 DEF LimitCounts, DoneIsFinal, RunIsConsistent
<1>9. ResultsAreKept'
  BY <1>0, <1>1, <1>2 DEF ResultsAreKept, RunIsConsistent
<1> QED
  BY <1>6, <1>7, <1>8, <1>9 DEF SemInv

LEMMA SemInitInv == SemInit => SemInv
<1> SUFFICES ASSUME SemInit PROVE SemInv
  OBVIOUS
<1>1. /\ limit \in Limits /\ pc = [t \in Tasks |-> "none"] /\ wg = 0 /\ limitCh = 0 /\ errCh = None
      /\ errNotify = FALSE /\ main = "before" /\ publishing = None /\ doneCh = FALSE /\ ctxDone = FALSE
      /\ ret = "running" /\ failed = {} /\ produced = {} /\ published = {}
  BY DEF SemInit
<1>2. Live = {} /\ Publishing = {} /\ Holding = {} /\ Cardinality({}) = 0
  BY <1>1, FS_EmptySet DEF Live, Publishing, Holding, HeldAt
<1>3. SemTypeOK
  BY <1>1 DEF SemTypeOK, PCs
<1>4. WaitGroupCounts
  BY <1>1, <1>2 DEF WaitGroupCounts, Publishing
<1>5. LimitCounts
  BY <1>1, <1>2, SemaphoreAssumption DEF LimitCounts
<1>6. DoneIsFinal /\ RunIsConsistent /\ ResultsAreKept
  BY <1>1, <1>2 DEF DoneIsFinal, RunIsConsistent, ResultsAreKept, InPublish
<1> QED
  BY <1>3, <1>4, <1>5, <1>6 DEF SemInv

LEMMA SemStepInv ==
  ASSUME SemInv, [SemNext]_semVars
  PROVE  SemInv'
<1>0. SemTypeOK /\ RunIsConsistent
  BY DEF SemInv
<1>1. ASSUME Run \/ Wait \/ Cancel PROVE SemInv'
  <2>1. CASE Run
    BY <1>0, <2>1, MainInv DEF Run, history, SemTypeOK, RunIsConsistent
  <2>2. CASE Wait /\ main # "publish"
    BY <1>0, <2>2, MainInv DEF Wait, history, SemTypeOK, RunIsConsistent
  <2>3. CASE Wait /\ main = "publish"
    <3>1. Live \in SUBSET Tasks /\ Publishing \in SUBSET Tasks /\ publishing \in Tasks
      BY <1>0, <2>3 DEF Live, Publishing, RunIsConsistent
    <3>2. Cardinality(Live) \in Nat /\ Cardinality(Publishing) \in Nat
      BY <3>1, CountMove
    <3>3. wg = Cardinality(Live) + Cardinality(Publishing) + 1
      BY <2>3 DEF SemInv, WaitGroupCounts, Publishing
    <3> QED
      BY <2>3, <3>2, <3>3 DEF Wait
  <2>4. CASE Cancel
    <3>1. /\ ctxDone' = TRUE
          /\ UNCHANGED <<limit, pc, wg, limitCh, errCh, errNotify, main, publishing, doneCh, ret,
                         failed, produced, published>>
      BY <2>4 DEF Cancel, history
    <3> QED
      BY <1>0, <3>1 DEF SemInv, SemTypeOK, WaitGroupCounts, LimitCounts, DoneIsFinal, RunIsConsistent, ResultsAreKept,
         Live, Publishing, Holding, InPublish
  <2> QED
    BY <1>1, <2>1, <2>2, <2>3, <2>4
<1>2. ASSUME SelectDone \/ SelectError \/ SelectCtx PROVE SemInv'
  <2>1. CASE SelectDone
    BY <1>0, <2>1, MainInv DEF SelectDone, Return, history, SemTypeOK, RunIsConsistent
  <2>2. CASE SelectError
    BY <1>0, <2>2, MainInv DEF SelectError, Return, history, SemTypeOK
  <2>3. CASE SelectCtx
    BY <1>0, <2>3, MainInv DEF SelectCtx, Return, history, SemTypeOK
  <2> QED
    BY <1>2, <2>1, <2>2, <2>3
<1>3. ASSUME UNCHANGED semVars PROVE SemInv'
  BY <1>3 DEF semVars, history, SemInv, SemTypeOK, WaitGroupCounts, LimitCounts, DoneIsFinal, RunIsConsistent,
     ResultsAreKept, Live, Publishing, Holding, InPublish
<1> QED
  BY <1>1, <1>2, <1>3, ScheduleInv, WorkerInv, SelectPublishInv, PublishReturnsInv DEF SemNext, MainStep

-----------------------------------------------------------------------------
(* Theorems *)

\* The inductive invariant.
THEOREM SemaphoreInvariant == SemSpec => []SemInv
<1>1. SemInv /\ [SemNext]_semVars => SemInv'
  BY SemStepInv
<1> QED
  BY <1>1, SemInitInv, PTL DEF SemSpec

\* When Run returns nil every goroutine has ended and every result that a task
\* produced has been published, however tasks and publish functions schedule
\* more tasks.
THEOREM NilIsComplete == SemSpec => []NilMeansComplete
<1>1. SemInv => NilMeansComplete
  <2> SUFFICES ASSUME SemInv, ret = "nil" PROVE Live = {} /\ produced = published
    BY DEF NilMeansComplete
  <2>1. Live = {} /\ main # "publish" /\ ~errNotify
    BY DEF SemInv, RunIsConsistent, DoneIsFinal
  <2>2. Publishing = {} /\ InPublish = {}
    BY <2>1 DEF Live, Publishing, InPublish
  <2> QED
    BY <2>1, <2>2 DEF SemInv, ResultsAreKept
<1> QED
  BY <1>1, SemaphoreInvariant, PTL

\* doneWg counts the goroutines that have not ended and the results still to be
\* published, so it is never negative (Done would panic) and reaches zero only
\* when nobody is left to schedule more.
THEOREM WaitGroupIsExact == SemSpec => [](WaitGroupCounts /\ wg \in Nat)
<1>1. SemInv => WaitGroupCounts /\ wg \in Nat
  BY DEF SemInv, SemTypeOK
<1> QED
  BY <1>1, SemaphoreInvariant, PTL

\* At most limit tasks run, or wait to be published, at a time.
THEOREM LimitIsRespected == SemSpec => []LimitRespected
<1>1. SemInv => LimitRespected
  BY DEF SemInv, LimitCounts, LimitRespected, Holding, HeldAt
<1> QED
  BY <1>1, SemaphoreInvariant, PTL

-----------------------------------------------------------------------------
(* The once-only cache *)

\* A nonempty set of natural numbers has a least element.
LEMMA LeastElement ==
  ASSUME NEW T \in SUBSET Nat, T # {}
  PROVE  \E x \in T : \A y \in T : x <= y
<1> DEFINE R == OpToRel(<, Nat)
<1>1. \A x, y \in Nat : <<x, y>> \in R <=> x < y
  BY DEF OpToRel
<1>2. IsWellFoundedOn(R, Nat)
  BY NatLessThanWellFounded, Zenon
<1> HIDE DEF R
<1>3. T \subseteq Nat
  OBVIOUS
<1>4. PICK x \in T : \A y \in T : ~(<<y, x>> \in R)
  BY <1>2, <1>3, WFMin, Zenon
<1>5. ASSUME NEW y \in T PROVE x <= y
  <2>1. x \in Nat /\ y \in Nat /\ ~(y < x)
    BY <1>1, <1>3, <1>4
  <2> QED
    BY <2>1
<1> QED
  BY <1>5

-----------------------------------------------------------------------------
Item == [key : Keys, expiry : 0..MaxTime]

\* Entries expire within the time to live from now, and before the clock ends.
ExpiriesBounded ==
  \A i \in 1..Len(queue) : queue[i].expiry <= now + Ttl /\ queue[i].expiry < MaxTime

\* The inductive invariant.
TtlInv == TtlTypeOK /\ QueueTracksData /\ ExpiriesBounded

\* The loop of doCleanup stops where it should: before the first entry that has
\* not expired.
LEMMA ExpiredPrefix ==
  ASSUME TtlTypeOK
  PROVE  /\ Expired(queue) \in 0..Len(queue)
         /\ \A i \in 1..Expired(queue) : queue[i].expiry < now
         /\ Expired(queue) < Len(queue) => ~(queue[Expired(queue) + 1].expiry < now)
<1> DEFINE kept == {i \in 1..Len(queue) : ~(queue[i].expiry < now)}
           P(n) == /\ \A i \in 1..n : queue[i].expiry < now
                   /\ n < Len(queue) => ~(queue[n + 1].expiry < now)
<1>0. Len(queue) \in Nat
  BY DEF TtlTypeOK
<1>1. \E n \in 0..Len(queue) : P(n)
  <2>1. CASE kept = {}
    <3>1. P(Len(queue))
      BY <1>0, <2>1
    <3> QED
      BY <1>0, <3>1
  <2>2. CASE kept # {}
    <3>1. kept \in SUBSET Nat
      BY <1>0
    <3>2. PICK x \in kept : \A y \in kept : x <= y
      BY <2>2, <3>1, LeastElement
    <3>3. x \in 1..Len(queue) /\ ~(queue[x].expiry < now) /\ x \in Nat
      BY <1>0, <3>2
    <3>4. ASSUME NEW i \in 1..(x - 1) PROVE queue[i].expiry < now
      <4>1. i \in 1..Len(queue) /\ ~(x <= i)
        BY <1>0, <3>3
      <4> QED
        BY <3>2, <4>1
    <3>5. P(x - 1) /\ x - 1 \in 0..Len(queue)
      BY <1>0, <3>3, <3>4
    <3> QED
      BY <3>5
  <2> QED
    BY <2>1, <2>2
<1>2. Expired(queue) = CHOOSE n \in 0..Len(queue) : P(n)
  BY DEF Expired
<1> HIDE DEF P
<1>3. Expired(queue) \in 0..Len(queue) /\ P(Expired(queue))
  BY <1>1, <1>2
<1> QED
  BY <1>3 DEF P

LEMMA TtlInitInv == TtlInit => TtlInv
  BY TtlOnceAssumption DEF TtlInit, TtlInv, TtlTypeOK, QueueTracksData, ExpiriesBounded

\* Insertion is at the end of the queue, where the latest expiry belongs.
LEMMA AddInv ==
  ASSUME TtlInv, NEW k \in Keys, NEW v \in Vals, Add(k, v)
  PROVE  TtlInv'
<1> USE TtlOnceAssumption
<1>0. /\ now \in 0..MaxTime /\ now \in Nat /\ queue \in Seq(Item) /\ Len(queue) \in Nat
      /\ data \in [Keys -> {0} \cup Vals] /\ now' = now
  BY DEF TtlInv, TtlTypeOK, Item, Add
<1>1. CASE UNCHANGED <<data, queue>>
  BY <1>1 DEF TtlInv, TtlTypeOK, QueueTracksData, ExpiriesBounded, Add
<1>2. CASE /\ data[k] = 0 /\ data' = [data EXCEPT ![k] = v]
           /\ queue' = Append(queue, [key |-> k, expiry |-> now + Ttl])
  <2> DEFINE e == [key |-> k, expiry |-> now + Ttl]
             n == Len(queue)
  <2>1. e \in Item /\ e.key = k /\ e.expiry = now + Ttl /\ now + Ttl < MaxTime
    BY <1>0 DEF Item, Add
  <2> HIDE DEF e
  <2>2. /\ queue' \in Seq(Item) /\ Len(queue') = n + 1 /\ queue'[n + 1] = e
        /\ \A i \in 1..n : queue'[i] = queue[i]
    BY <1>0, <1>2, <2>1 DEF e
  <2>3. data' \in [Keys -> {0} \cup Vals] /\ v # 0
    BY <1>0, <1>2
  <2>4. TtlTypeOK'
    BY <1>0, <2>2, <2>3 DEF TtlInv, TtlTypeOK, Item, Add
  <2>5. \A i \in 1..n : queue[i].key # k /\ queue[i].expiry <= now + Ttl /\ queue[i].expiry < MaxTime
    BY <1>2 DEF TtlInv, QueueTracksData, ExpiriesBounded
  <2>6. ExpiriesBounded'
    BY <1>0, <2>1, <2>2, <2>5 DEF ExpiriesBounded
  <2>7. ASSUME NEW j \in Keys PROVE data'[j] # 0 <=> \E i \in 1..Len(queue') : queue'[i].key = j
    <3>1. CASE j = k
      BY <1>0, <1>2, <2>1, <2>2, <2>3, <3>1
    <3>2. CASE j # k
      <4>1. data'[j] = data[j]
        BY <1>0, <1>2, <3>2
      <4>2. (\E i \in 1..Len(queue') : queue'[i].key = j) <=> \E i \in 1..n : queue[i].key = j
        <5>1. n \in Nat /\ 1..Len(queue') = 1..n \cup {n + 1}
          BY <1>0, <2>2
        <5>2. queue'[n + 1].key # j
          BY <2>1, <2>2, <3>2
        <5> QED
          BY <2>2, <5>1, <5>2
      <4> QED
        BY <4>1, <4>2 DEF TtlInv, QueueTracksData
    <3> QED
      BY <3>1, <3>2
  <2>8. ASSUME NEW i \in 1..Len(queue'), NEW j \in 1..Len(queue'), i < j
        PROVE  queue'[i].key # queue'[j].key /\ queue'[i].expiry <= queue'[j].expiry
    <3>1. i \in 1..n
      BY <1>0, <2>2, <2>8
    <3>2. CASE j = n + 1
      BY <2>1, <2>2, <2>5, <3>1, <3>2
    <3>3. CASE j \in 1..n
      BY <2>2, <2>8, <3>1, <3>3 DEF TtlInv, QueueTracksData
    <3> QED
      BY <1>0, <2>2, <3>2, <3>3
  <2>9. QueueTracksData'
    BY <2>7, <2>8 DEF QueueTracksData
  <2> QED
    BY <2>4, <2>6, <2>9 DEF TtlInv
<1> QED
  BY <1>1, <1>2 DEF Add

\* The queue loses its expired front, and the data exactly the keys of it.
LEMMA CleanupInv ==
  ASSUME TtlInv, doCleanup
  PROVE  TtlInv'
<1> DEFINE n == Expired(queue)
           m == Len(queue)
<1>0. /\ n \in 0..m /\ m \in Nat /\ queue \in Seq(Item)
      /\ data \in [Keys -> {0} \cup Vals] /\ now' = now
  BY ExpiredPrefix DEF TtlInv, TtlTypeOK, Item, doCleanup
<1>1. /\ data' = [k \in Keys |-> IF \E i \in 1..n : queue[i].key = k THEN 0 ELSE data[k]]
      /\ queue' = SubSeq(queue, n + 1, m)
      /\ cleanup' = "peek" /\ UNCHANGED <<now, deadline>>
  BY DEF doCleanup
<1> HIDE DEF n
<1>2. queue' \in Seq(Item) /\ Len(queue') = m - n /\ \A i \in 1..(m - n) : queue'[i] = queue[n + i]
  BY <1>0, <1>1
<1>3. data' \in [Keys -> {0} \cup Vals]
  BY <1>0, <1>1
<1>4. TtlTypeOK'
  BY <1>1, <1>2, <1>3 DEF TtlInv, TtlTypeOK, Item
<1>5. \A i \in 1..(m - n) : n + i \in 1..m
  BY <1>0
<1>6. ExpiriesBounded'
  BY <1>0, <1>2, <1>5 DEF TtlInv, ExpiriesBounded
<1>7. \A i, j \in 1..Len(queue') : i < j => /\ queue'[i].key # queue'[j].key
                                            /\ queue'[i].expiry <= queue'[j].expiry
  <2> SUFFICES ASSUME NEW i \in 1..(m - n), NEW j \in 1..(m - n), i < j
               PROVE  queue'[i].key # queue'[j].key /\ queue'[i].expiry <= queue'[j].expiry
    BY <1>2
  <2>1. n + i \in 1..m /\ n + j \in 1..m /\ n + i < n + j
    BY <1>0
  <2> QED
    BY <1>2, <2>1 DEF TtlInv, QueueTracksData
<1>8. ASSUME NEW k \in Keys PROVE data'[k] # 0 <=> \E i \in 1..Len(queue') : queue'[i].key = k
  <2>1. CASE \E i \in 1..n : queue[i].key = k
    <3>1. data'[k] = 0
      BY <1>1, <2>1
    <3>2. ASSUME NEW j \in 1..(m - n), queue'[j].key = k PROVE FALSE
      <4>1. PICK i \in 1..n : queue[i].key = k
        BY <2>1
      <4>2. i \in 1..m /\ n + j \in 1..m /\ i < n + j /\ queue[n + j].key = k
        BY <1>0, <1>2, <3>2
      <4> QED
        BY <4>1, <4>2 DEF TtlInv, QueueTracksData
    <3> QED
      BY <1>2, <3>1, <3>2
  <2>2. CASE ~\E i \in 1..n : queue[i].key = k
    <3>1. data'[k] = data[k]
      BY <1>1, <2>2
    <3>2. ASSUME NEW j \in 1..m, queue[j].key = k
          PROVE  \E i \in 1..(m - n) : queue'[i].key = k
      <4>1. j - n \in 1..(m - n) /\ n + (j - n) = j
        BY <1>0, <2>2, <3>2
      <4> QED
        BY <1>2, <3>2, <4>1
    <3>3. ASSUME NEW i \in 1..(m - n), queue'[i].key = k
          PROVE  \E j \in 1..m : queue[j].key = k
      BY <1>2, <1>5, <3>3
    <3> QED
      BY <1>2, <3>1, <3>2, <3>3 DEF TtlInv, QueueTracksData
  <2> QED
    BY <2>1, <2>2
<1>9. QueueTracksData'
  BY <1>7, <1>8 DEF QueueTracksData
<1> QED
  BY <1>4, <1>6, <1>9 DEF TtlInv

LEMMA TtlStepInv == TtlInv /\ [TtlNext]_ttlVars => TtlInv'
<1> SUFFICES ASSUME TtlInv, [TtlNext]_ttlVars PROVE TtlInv'
  OBVIOUS
<1>0. queue \in Seq(Item)
  BY DEF TtlInv, TtlTypeOK, Item
<1>1. CASE Tick
  <2>1. ASSUME NEW i \in 1..Len(queue) PROVE queue[i].expiry \in Nat
    <3>1. queue[i] \in Item
      BY <1>0
    <3> QED
      BY <3>1, TtlOnceAssumption DEF Item
  <2>2. ExpiriesBounded'
    BY <1>1, <2>1, TtlOnceAssumption DEF Tick, TtlInv, TtlTypeOK, ExpiriesBounded
  <2>3. TtlTypeOK'
    BY <1>1, TtlOnceAssumption DEF Tick, TtlInv, TtlTypeOK
  <2>4. QueueTracksData'
    <3>1. UNCHANGED <<data, queue>>
      BY <1>1 DEF Tick
    <3> QED
      BY <3>1 DEF TtlInv, QueueTracksData
  <2> QED
    BY <2>2, <2>3, <2>4 DEF TtlInv
<1>2. CASE peekExpiry
  <2>1. queue # <<>> => Head(queue).expiry + 1 \in 0..MaxTime
    <3> SUFFICES ASSUME queue # <<>> PROVE Head(queue).expiry + 1 \in 0..MaxTime
      OBVIOUS
    <3>1. 1 \in 1..Len(queue) /\ Head(queue) = queue[1] /\ queue[1] \in Item
      BY <1>0
    <3>2. queue[1].expiry < MaxTime /\ queue[1].expiry \in Nat
      BY <3>1 DEF TtlInv, ExpiriesBounded, Item
    <3> QED
      BY <3>1, <3>2, TtlOnceAssumption
  <2> QED
    BY <1>2, <2>1 DEF peekExpiry, TtlInv, TtlTypeOK, QueueTracksData, ExpiriesBounded
<1>3. CASE StopCleanup
  BY <1>3 DEF StopCleanup, TtlInv, TtlTypeOK, QueueTracksData, ExpiriesBounded
<1>4. CASE UNCHANGED ttlVars
  BY <1>4 DEF ttlVars, TtlInv, TtlTypeOK, QueueTracksData, ExpiriesBounded
<1> QED
  BY <1>1, <1>2, <1>3, <1>4, AddInv, CleanupInv DEF TtlNext

-----------------------------------------------------------------------------
\* The inductive invariant holds in every state of the cache.
THEOREM TtlOnceInvariant == TtlSpec => []TtlInv
  BY TtlInitInv, TtlStepInv, PTL DEF TtlSpec

\* The types of the cache, and the deadline of its timer within the clock.
THEOREM TtlTypeCorrect == TtlSpec => []TtlTypeOK
<1>1. TtlInv => TtlTypeOK
  BY DEF TtlInv
<1> QED
  BY <1>1, TtlOnceInvariant, PTL

\* cleanupQueue lists exactly the keys of data, each once and in the order in
\* which they expire: an insertion, a cleanup or a refused insertion keeps it so.
THEOREM QueueIsExact == TtlSpec => []QueueTracksData
<1>1. TtlInv => QueueTracksData
  BY DEF TtlInv
<1> QED
  BY <1>1, TtlOnceInvariant, PTL

\* No step replaces the value of a key, or removes it before its time to live
\* is over (Add, doCleanup).
THEOREM EntriesAreKept == TtlSpec => KeptForTtl
<1> DEFINE A == \A k \in Keys : data[k] # 0 /\ data'[k] # data[k] =>
                  /\ data'[k] = 0
                  /\ \E i \in 1..Len(queue) : queue[i].key = k /\ queue[i].expiry < now
<1>1. TtlInv /\ [TtlNext]_ttlVars => [A]_ttlVars
  <2> SUFFICES ASSUME TtlInv, TtlNext PROVE A
    OBVIOUS
  <2>1. CASE UNCHANGED data
    BY <2>1
  <2>2. ASSUME NEW k \in Keys, NEW v \in Vals, Add(k, v) PROVE A
    BY <2>2 DEF Add, TtlInv, TtlTypeOK
  <2>3. CASE doCleanup
    <3>1. /\ Expired(queue) \in 0..Len(queue) /\ Len(queue) \in Nat
          /\ \A i \in 1..Expired(queue) : queue[i].expiry < now
      BY ExpiredPrefix DEF TtlInv, TtlTypeOK
    <3> QED
      BY <2>3, <3>1 DEF doCleanup
  <2> QED
    BY <2>1, <2>2, <2>3 DEF TtlNext, Tick, peekExpiry, StopCleanup
<1> QED
  BY <1>1, TtlOnceInvariant, PTL DEF TtlSpec, KeptForTtl

-----------------------------------------------------------------------------
(* The local diff cache *)

\* A store that is not too old has its patch in the history of its object, and the
\* history has been added to since.
Kept(s) ==
  /\ s.object \in DOMAIN histories
  /\ s.at <= histories[s.object].lastModify
  /\ ChooseResourceVersion(s.old, s.new) \in DOMAIN histories[s.object].patches
  /\ histories[s.object].patches[ChooseResourceVersion(s.old, s.new)] = PatchOf(s.old, s.new)

\* The inductive invariant for FetchTellsTheChange.
CacheInv ==
  /\ now \in Nat
  /\ seen \in [Objects -> DOMAIN Document]
  /\ told \subseteq [object : Objects, old : DOMAIN Document, new : DOMAIN Document, at : Nat]
  /\ \A o \in DOMAIN histories : histories[o].lastModify \in Nat
  /\ \A s \in told : s.at <= now /\ now - s.at <= PatchTtl
  /\ \A s \in told : Kept(s)

LEMMA CacheInitInv == InitCache => CacheInv
  BY DEF InitCache, TtlInit, CacheInv

\* Nothing else touches the histories.
LEMMA CacheUnchanged ==
  ASSUME CacheInv, UNCHANGED <<now, patchVars>>
  PROVE  CacheInv'
  BY DEF CacheInv, patchVars, Kept

LEMMA StoreKeeps ==
  ASSUME CacheInv, NEW o \in Objects, NEW new \in DOMAIN Document, Store(o, new)
  PROVE  CacheInv'
<1>1. PICK old \in DOMAIN Document : old = seen[o]
  BY DEF CacheInv
<1>2. PICK key : key = ChooseResourceVersion(old, new)
  OBVIOUS
<1>3. PICK n \in Nat : n = now
  BY DEF CacheInv
<1>4. PICK patches : patches = Patches(o)
  OBVIOUS
<1>5. PICK P : P = [rv \in DOMAIN patches \cup {key} |-> IF rv = key THEN PatchOf(old, new) ELSE patches[rv]]
  OBVIOUS
<1>6. PICK here : here = [object |-> o, old |-> old, new |-> new, at |-> n]
  OBVIOUS
<1>7. /\ seen' = [seen EXCEPT ![o] = new] /\ now' = now
      /\ histories' = [x \in DOMAIN histories \cup {o} |-> IF x # o THEN histories[x] ELSE [lastModify |-> n, patches |-> P]]
      /\ told' = {s \in told : s.object # o \/ ChooseResourceVersion(s.old, s.new) # key} \cup {here}
  BY <1>1, <1>2, <1>3, <1>4, <1>5, <1>6 DEF Store, Touched, ttlVars
<1>8. here \in [object : Objects, old : DOMAIN Document, new : DOMAIN Document, at : Nat]
  BY <1>1, <1>3, <1>6
<1>9. now' \in Nat /\ seen' \in [Objects -> DOMAIN Document]
      /\ told' \subseteq [object : Objects, old : DOMAIN Document, new : DOMAIN Document, at : Nat]
  BY <1>7, <1>8 DEF CacheInv
<1>10. \A x \in DOMAIN histories' : histories'[x].lastModify \in Nat
  BY <1>3, <1>7 DEF CacheInv
<1>11. ASSUME NEW s \in told' PROVE s.at <= now' /\ now' - s.at <= PatchTtl
  <2>1. CASE s \in told
    BY <1>7, <2>1 DEF CacheInv
  <2>2. CASE s = here
    <3>1. n <= n /\ n - n <= PatchTtl
      BY <1>3, LocalDiffCacheAssumption
    <3> QED
      BY <1>3, <1>6, <1>7, <2>2, <3>1
  <2> QED
    BY <1>7, <2>1, <2>2
<1>12. histories'[o] = [lastModify |-> n, patches |-> P] /\ o \in DOMAIN histories'
  BY <1>7
<1>13. ASSUME NEW s \in told' PROVE Kept(s)'
  <2>1. CASE s = here
    <3>1. s.object = o /\ s.at = n /\ s.old = old /\ s.new = new
      BY <1>6, <2>1
    <3>2. key \in DOMAIN P /\ P[key] = PatchOf(old, new)
      BY <1>5
    <3>3. n <= n
      BY <1>3
    <3> QED
      BY <1>2, <1>12, <3>1, <3>2, <3>3 DEF Kept, ChooseResourceVersion, PatchOf
  <2>2. CASE s \in told /\ s.object # o
    <3>1. Kept(s)
      BY <2>2 DEF CacheInv
    <3>2. s.object \in DOMAIN histories' /\ histories'[s.object] = histories[s.object]
      BY <1>7, <2>2, <3>1 DEF Kept
    <3> QED
      BY <3>1, <3>2 DEF Kept, ChooseResourceVersion, PatchOf
  <2>3. CASE s \in told /\ s.object = o /\ ChooseResourceVersion(s.old, s.new) # key
    <3>1. PICK k : k = ChooseResourceVersion(s.old, s.new)
      OBVIOUS
    <3>2. o \in DOMAIN histories /\ k \in DOMAIN histories[o].patches /\ histories[o].patches[k] = PatchOf(s.old, s.new)
      BY <2>3, <3>1 DEF CacheInv, Kept
    <3>3. patches = histories[o].patches
      BY <1>4, <3>2 DEF Patches
    <3>4. k \in DOMAIN P /\ P[k] = PatchOf(s.old, s.new)
      BY <1>5, <2>3, <3>1, <3>2, <3>3
    <3>5. s.at <= n
      BY <1>3, <2>3 DEF CacheInv
    <3> QED
      BY <1>12, <2>3, <3>1, <3>4, <3>5 DEF Kept, ChooseResourceVersion, PatchOf
  <2> QED
    BY <1>7, <2>1, <2>2, <2>3
<1> QED
  BY <1>9, <1>10, <1>11, <1>13 DEF CacheInv

LEMMA TrimKeeps ==
  ASSUME CacheInv, doTrim
  PROVE  CacheInv'
<1>1. /\ UNCHANGED <<now, told, seen>>
      /\ histories' = [o \in {x \in DOMAIN histories : ~Stale(x)} |-> histories[o]]
  BY DEF doTrim, ttlVars
<1>2. \A o \in DOMAIN histories' : histories'[o].lastModify \in Nat
  BY <1>1 DEF CacheInv
<1>3. ASSUME NEW s \in told PROVE Kept(s)'
  <2>1. Kept(s) /\ s.at \in Nat /\ now - s.at <= PatchTtl /\ s.at <= now
    BY DEF CacheInv
  <2>2. PICK o : o = s.object
    OBVIOUS
  <2>3. PICK m \in Nat : m = histories[o].lastModify
    BY <2>1, <2>2 DEF CacheInv, Kept
  <2>4. now \in Nat /\ PatchTtl \in Nat /\ s.at <= m
    BY <2>1, <2>2, <2>3, LocalDiffCacheAssumption DEF CacheInv, Kept
  <2>5. ~(now - m > PatchTtl)
    BY <2>1, <2>3, <2>4
  <2>6. ~Stale(o)
    BY <2>3, <2>5 DEF Stale
  <2>7. o \in DOMAIN histories' /\ histories'[o] = histories[o]
    BY <1>1, <2>1, <2>2, <2>6 DEF Kept
  <2> QED
    BY <2>1, <2>2, <2>7 DEF Kept, ChooseResourceVersion, PatchOf
<1> QED
  BY <1>1, <1>2, <1>3 DEF CacheInv

LEMMA PassKeeps ==
  ASSUME CacheInv, Pass
  PROVE  CacheInv'
<1>1. /\ UNCHANGED <<histories, seen>> /\ now' = now + 1
      /\ told' = {s \in told : now' - s.at <= PatchTtl}
  BY DEF Pass, Tick
<1>2. now \in Nat /\ now' \in Nat
  BY <1>1 DEF CacheInv
<1>3. ASSUME NEW s \in told' PROVE s.at <= now' /\ now' - s.at <= PatchTtl
  <2>1. s.at \in Nat /\ s.at <= now /\ now' - s.at <= PatchTtl
    BY <1>1 DEF CacheInv
  <2> QED
    BY <1>1, <1>2, <2>1
<1>4. \A s \in told' : s \in told /\ (Kept(s) <=> Kept(s)')
  BY <1>1 DEF Kept, ChooseResourceVersion, PatchOf
<1> QED
  BY <1>1, <1>2, <1>3, <1>4 DEF CacheInv

LEMMA CacheStepInv ==
  ASSUME CacheInv, [NextCache]_allVars
  PROVE  CacheInv'
<1>1. ASSUME NEW o \in Objects, NEW name \in SnapshotNames, NEW rv \in Vals, StoreSnapshot(o, name, rv) PROVE CacheInv'
  BY <1>1, CacheUnchanged DEF StoreSnapshot, Add
<1>2. ASSUME Cleanup PROVE CacheInv'
  BY <1>2, CacheUnchanged DEF Cleanup, peekExpiry, doCleanup, StopCleanup
<1>3. ASSUME UNCHANGED allVars PROVE CacheInv'
  BY <1>3, CacheUnchanged DEF allVars, ttlVars
<1> QED
  BY <1>1, <1>2, <1>3, StoreKeeps, TrimKeeps, PassKeeps DEF NextCache

LEMMA CacheTells == CacheInv => FetchTellsTheChange
<1> SUFFICES ASSUME CacheInv, NEW s \in told
             PROVE  /\ Fetch(s.object, s.old, s.new) # <<>>
                    /\ IF testRedacted(s.old) \/ testRedacted(s.new)
                       THEN \A i \in DOMAIN Fetch(s.object, s.old, s.new)[1].diffs :
                              Fetch(s.object, s.old, s.new)[1].diffs[i].path = ResourceVersionPath
                       ELSE SaysChange(Fetch(s.object, s.old, s.new)[1].diffs, Document[s.old].object, Document[s.new].object)
  BY DEF FetchTellsTheChange
<1>1. s.old \in DOMAIN Document /\ s.new \in DOMAIN Document /\ Kept(s)
  BY DEF CacheInv
<1>2. PICK patch : patch = PatchOf(s.old, s.new)
  OBVIOUS
<1>3. Fetch(s.object, s.old, s.new) = <<patch>>
  BY <1>1, <1>2 DEF Kept, Fetch, Patches
<1>4. <<patch>> # <<>> /\ <<patch>>[1] = patch
  OBVIOUS
<1>5. CASE testRedacted(s.old) \/ testRedacted(s.new)
  <2>1. patch.diffs = <<[path |-> ResourceVersionPath, old |-> s.old, new |-> s.new]>>
    BY <1>2, <1>5 DEF PatchOf
  <2>2. \A i \in DOMAIN patch.diffs : patch.diffs[i].path = ResourceVersionPath
    BY <2>1
  <2> QED
    BY <1>3, <1>4, <1>5, <2>2
<1>6. CASE ~(testRedacted(s.old) \/ testRedacted(s.new))
  <2>1. patch.diffs = Change(s.old, s.new)
    BY <1>2, <1>6 DEF PatchOf
  <2>2. SaysChange(patch.diffs, Document[s.old].object, Document[s.new].object)
    BY <1>1, <2>1, ComparisonAssumption
  <2> QED
    BY <1>3, <1>4, <1>6, <2>2
<1> QED
  BY <1>5, <1>6

\* local.go: the patch of an update can be fetched for its whole time to live,
\* however often its object is stored, whatever is trimmed and however the clock
\* runs, and says what the update changed, for every set of objects and every
\* documents that the comparison is right about.
THEOREM PatchesAreKept == SpecCache => []FetchTellsTheChange
<1>1. InitCache => CacheInv
  BY CacheInitInv
<1>2. CacheInv /\ [NextCache]_allVars => CacheInv'
  BY CacheStepInv
<1>3. CacheInv => FetchTellsTheChange
  BY CacheTells
<1> QED
  BY <1>1, <1>2, <1>3, PTL DEF SpecCache

\* The snapshots of the diff cache are in a once-only cache: every step of the diff
\* cache is a step of TtlOnce or leaves it alone, so that what is proved of TtlOnce
\* holds of the snapshots.
THEOREM CacheUsesTtlOnce == SpecCache => TtlSpec
<1>1. InitCache => TtlInit
  BY DEF InitCache
<1>2. [NextCache]_allVars => [TtlNext]_ttlVars
  <2>1. ASSUME NEW o \in Objects, NEW name \in SnapshotNames, NEW rv \in Vals, StoreSnapshot(o, name, rv)
        PROVE  TtlNext
    <3>1. <<o, name>> \in Keys
      BY LocalDiffCacheAssumption
    <3> QED
      BY <2>1, <3>1 DEF StoreSnapshot, TtlNext
  <2>2. ASSUME NEW o \in Objects, NEW new \in DOMAIN Document, Store(o, new) PROVE UNCHANGED ttlVars
    BY <2>2 DEF Store
  <2>3. doTrim => UNCHANGED ttlVars
    BY DEF doTrim
  <2>4. Pass \/ Cleanup => TtlNext
    BY DEF Pass, Cleanup, TtlNext
  <2>5. UNCHANGED allVars => UNCHANGED ttlVars
    BY DEF allVars
  <2> QED
    BY <2>1, <2>2, <2>3, <2>4, <2>5 DEF NextCache
<1> QED
  BY <1>1, <1>2, PTL DEF SpecCache, TtlSpec

\* local.go: the expiry queue of the snapshots is in step with their map in every
\* state of the diff cache, whatever patches are stored and trimmed in between.
THEOREM SnapshotQueueIsExact == SpecCache => []QueueTracksData
  BY CacheUsesTtlOnce, QueueIsExact, PTL
=============================================================================
