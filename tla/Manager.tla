------------------------------ MODULE Manager ------------------------------
(***************************************************************************)
(* manager.Manager: components are built from their factories by           *)
(* following what they request, the disabled ones are trimmed, and the     *)
(* rest is ordered, initialized, started and, on a signal, closed.         *)
(* Go iterates over its maps in any order: so do Build, trim and order     *)
(* here.  A request through a util (a metric, say) is a request of the     *)
(* component that asks for the util.                                       *)
(***************************************************************************)
EXTENDS Naturals, FiniteSets, Sequences

CONSTANTS
  Types,         \* component types
  Wirings        \* the programs considered: [kind, params, impls]

\* kind: plain, explicit (has an enable flag), mux, impl (of a mux), list, or
\* listImpl; impls[t]: the implementations provided for a mux or list.
Wiring == [kind : [Types -> {"plain", "explicit", "mux", "impl", "list", "listImpl"}],
           params : [Types -> Seq(Types)],
           impls : [Types -> Seq(Types)]]

Provides(w, p, t) == \E i \in DOMAIN w.impls[p] : w.impls[p][i] = t

\* ProvideListImpl gives what it provides to a list.  ProvideMuxImpl gives it to
\* one mux, and nobody else in the program requests an implementation of a mux.
WellProvided(w) ==
  \A t \in Types :
    /\ w.kind[t] = "listImpl" => \E p \in Types : w.kind[p] = "list" /\ Provides(w, p, t)
    /\ w.kind[t] = "impl" =>
         /\ \A p \in Types : \A i \in DOMAIN w.params[p] : w.params[p][i] # t
         /\ \A p \in Types : Provides(w, p, t) => w.kind[p] = "mux"
         /\ \A p, q \in Types : Provides(w, p, t) /\ Provides(w, q, t) => p = q

ASSUME ManagerAssumption ==
  /\ IsFiniteSet(Types)
  /\ \A w \in Wirings : w \in Wiring /\ WellProvided(w)

VARIABLES
  wiring,
  phase,
  stack,         \* the calls of resolve, later of insertDeps, under way
  factories, components, ordered,
  dependents,    \* info.dependents
  dependencies,  \* info.dependencies
  flags,         \* *EnableFlag(), by component
  which,         \* the implementation each mux is told to use
  pass,          \* the iteration of TrimDisabled: [todo, hasChange]
  disabled,
  next,          \* position in orderedComponents
  state,         \* state[t]: none, initialized, started or closed
  ctxCancelled   \* ctx is done

build == <<factories, dependents, dependencies>>
config == <<wiring, flags, which>>
lifecycle == <<next, state, ctxCancelled>>
vars == <<phase, stack, components, ordered, pass, disabled, build, config, lifecycle>>

Kind(t) == wiring.kind[t]

\* The implementations of a mux or list, and the mux or list that t implements.
Impls(p) == {wiring.impls[p][i] : i \in DOMAIN wiring.impls[p]}
ParentOf(t) == CHOOSE p \in Types : t \in Impls(p)
Muxes == {t \in Types : Kind(t) = "mux"}

\* isChosenMuxImpl; the mux has been told a name that no implementation has.
Chosen(t) == which[ParentOf(t)] = t
NoImplementation(t) == Kind(t) = "mux" /\ which[t] = t

\* provideComponent: the parameters, then the late dependencies of a list or
\* the implementations of a mux.
Requests(t) == wiring.params[t] \o wiring.impls[t]

Init ==
  /\ wiring \in Wirings
  /\ phase = "build"
  /\ stack = <<>>
  /\ factories = Types
  /\ components = {}
  /\ ordered = <<>>
  /\ dependents = [t \in Types |-> 0]
  /\ dependencies = [t \in Types |-> {}]
  /\ flags = <<>>
  /\ which = <<>>
  /\ pass = [todo |-> {}, hasChange |-> FALSE]
  /\ disabled = {}
  /\ next = 1
  /\ state = [t \in Types |-> "none"]
  /\ ctxCancelled = FALSE

-----------------------------------------------------------------------------
(* Build *)

Top == stack[Len(stack)]
Popped == SubSeq(stack, 1, Len(stack) - 1)

\* Build: take any factory that is left.
Build ==
  /\ phase = "build" /\ stack = <<>>
  /\ \/ \E t \in factories :
          /\ factories' = factories \ {t}
          /\ stack' = <<[ty |-> t, at |-> 1]>>
          /\ phase' = phase
     \/ factories = {} /\ phase' = "parse" /\ UNCHANGED <<stack, factories>>
  /\ UNCHANGED <<components, ordered, pass, disabled, dependents, dependencies, config, lifecycle>>

\* The component that the call on top of s works for receives component t.
Receives(s, t) ==
  LET n == Len(s) IN
  /\ dependents' = [dependents EXCEPT ![t] = @ + 1]
  /\ \/ Kind(t) = "listImpl" /\ dependents[t] > 0 /\ phase' = "failed" /\ UNCHANGED <<stack, dependencies>>
     \/ /\ ~(Kind(t) = "listImpl" /\ dependents[t] > 0)
        /\ dependencies' = [dependencies EXCEPT ![s[n].ty] = @ \cup {t}]
        /\ stack' = [s EXCEPT ![n].at = @ + 1]
        /\ phase' = phase

\* resolve, for the next request of the component being built: build it first,
\* count it if it is built, or fail.  A factory leaves the map before it runs,
\* so a cycle ends here as an unknown dependency.
resolve ==
  /\ phase = "build" /\ stack # <<>> /\ Top.at <= Len(Requests(Top.ty))
  /\ LET req == Requests(Top.ty)[Top.at] IN
     \/ /\ req \in factories
        /\ factories' = factories \ {req}
        /\ stack' = Append(stack, [ty |-> req, at |-> 1])
        /\ UNCHANGED <<phase, dependents, dependencies>>
     \/ req \in components /\ Receives(stack, req) /\ UNCHANGED factories
     \/ /\ req \notin factories \cup components
        /\ phase' = "failed"
        /\ UNCHANGED <<stack, factories, dependents, dependencies>>
  /\ UNCHANGED <<components, ordered, pass, disabled, config, lifecycle>>

\* All the requests are there: call the factory, hand the component to whoever
\* requested it.
construct ==
  /\ phase = "build" /\ stack # <<>> /\ Top.at > Len(Requests(Top.ty))
  /\ components' = components \cup {Top.ty}
  /\ \/ Len(stack) = 1 /\ stack' = <<>> /\ UNCHANGED <<phase, dependents, dependencies>>
     \/ Len(stack) > 1 /\ Receives(Popped, Top.ty)
  /\ UNCHANGED <<factories, ordered, pass, disabled, config, lifecycle>>

-----------------------------------------------------------------------------
(* Flags and TrimDisabled *)

\* A list implementation whose flag is false is no longer an element of its list.
Removed(f) == {t \in Types : Kind(t) = "listImpl" /\ ~f[t]}

\* Run: parse the flags; TrimDisabled: take the disabled list implementations
\* out of their lists.  A mux may be told to use a name nobody
\* has, here its own.
TrimLists ==
  /\ phase = "parse"
  /\ flags' \in [{t \in Types : Kind(t) \in {"explicit", "listImpl"}} -> BOOLEAN]
  /\ which' \in {w \in [Muxes -> Types] : \A m \in Muxes : w[m] \in {m} \cup Impls(m)}
  /\ dependencies' = [t \in Types |-> IF Kind(t) = "list" THEN dependencies[t] \ Removed(flags') ELSE dependencies[t]]
  /\ dependents' = [t \in Types |-> dependents[t] - (IF t \in Removed(flags') THEN 1 ELSE 0)]
  /\ pass' = [todo |-> components, hasChange |-> FALSE]
  /\ phase' = "trim"
  /\ UNCHANGED <<wiring, stack, factories, components, ordered, disabled, lifecycle>>

\* An implementation of a mux goes unless it is chosen and the mux is in use; a
\* flag decides if there is one; otherwise a component goes when nobody wants it.
shouldDisable(t) ==
  \/ /\ Kind(t) = "impl"
     /\ ParentOf(t) \in components /\ Chosen(t) => dependents[ParentOf(t)] = 0
  \/ Kind(t) = "explicit" /\ ~flags[t]
  \/ Kind(t) \notin {"impl", "explicit"} /\ dependents[t] = 0

TrimDisabled_uncounted ==
  /\ phase = "trim" /\ pass.todo # {}
  /\ \E t \in pass.todo :
       \/ ~shouldDisable(t) /\ pass' = [pass EXCEPT !.todo = @ \ {t}] /\ UNCHANGED <<components, disabled, dependents>>
       \/ /\ shouldDisable(t)
          /\ dependents' = dependents
          /\ components' = components \ {t}
          /\ disabled' = disabled \cup {t}
          /\ pass' = [todo |-> pass.todo \ {t}, hasChange |-> TRUE]
  /\ UNCHANGED <<phase, stack, factories, ordered, dependencies, config, lifecycle>>

\* One component of one pass over the components.
TrimDisabled ==
  /\ phase = "trim" /\ pass.todo # {}
  /\ \E t \in pass.todo :
       \/ ~shouldDisable(t) /\ pass' = [pass EXCEPT !.todo = @ \ {t}] /\ UNCHANGED <<components, disabled, dependents>>
       \/ /\ shouldDisable(t)
          /\ dependents' = [d \in Types |-> dependents[d] - (IF d \in dependencies[t] THEN 1 ELSE 0)]
          /\ components' = components \ {t}
          /\ disabled' = disabled \cup {t}
          /\ pass' = [todo |-> pass.todo \ {t}, hasChange |-> TRUE]
  /\ UNCHANGED <<phase, stack, factories, ordered, dependencies, config, lifecycle>>

StillWanted_off == {t \in disabled : Kind(t) # "impl" /\ dependents[t] > 1}

\* Somebody still counts on a disabled component.
StillWanted == {t \in disabled : Kind(t) # "impl" /\ dependents[t] > 0}

\* The end of a pass: another one, or the validation of what was disabled.
TrimPass ==
  /\ phase = "trim" /\ pass.todo = {}
  /\ \/ pass.hasChange /\ pass' = [todo |-> components, hasChange |-> FALSE] /\ phase' = phase
     \/ ~pass.hasChange /\ phase' = (IF StillWanted # {} THEN "fatal" ELSE "order") /\ pass' = pass
  /\ UNCHANGED <<stack, components, ordered, disabled, build, config, lifecycle>>

-----------------------------------------------------------------------------
(* orderComponents *)

\* The keys that are not inserted yet.
Remaining == components \ {ordered[i] : i \in DOMAIN ordered}
OnStack == {stack[i].ty : i \in DOMAIN stack}

orderComponents ==
  /\ phase = "order" /\ stack = <<>>
  /\ \/ \E t \in Remaining : stack' = <<[ty |-> t, at |-> 0]>> /\ UNCHANGED phase
     \/ Remaining = {} /\ phase' = "init" /\ UNCHANGED stack
  /\ UNCHANGED <<components, ordered, pass, disabled, build, config, lifecycle>>

insertDeps_early ==
  /\ phase = "order" /\ stack # <<>>
  /\ LET left == dependencies[Top.ty] \cap Remaining IN
     \/ \E d \in left : ordered' = Append(ordered, Top.ty) /\ stack' = Append(Popped, [ty |-> d, at |-> 0]) /\ phase' = phase
     \/ left = {} /\ ordered' = Append(ordered, Top.ty) /\ stack' = Popped /\ phase' = phase
  /\ UNCHANGED <<components, pass, disabled, build, config, lifecycle>>

\* insertDeps: first any dependency that is not inserted, a cycle if it is on
\* the way itself, then the component.
insertDeps ==
  /\ phase = "order" /\ stack # <<>>
  /\ LET left == dependencies[Top.ty] \cap Remaining IN
     \/ \E d \in left :
          \/ d \in OnStack /\ phase' = "cycle" /\ UNCHANGED <<stack, ordered>>
          \/ d \notin OnStack /\ stack' = Append(stack, [ty |-> d, at |-> 0]) /\ UNCHANGED <<phase, ordered>>
     \/ left = {} /\ ordered' = Append(ordered, Top.ty) /\ stack' = Popped /\ UNCHANGED phase
  /\ UNCHANGED <<components, pass, disabled, build, config, lifecycle>>

-----------------------------------------------------------------------------
(* Init, Start, Close *)

Advance(s) ==
  /\ state' = [state EXCEPT ![ordered[next]] = s]
  /\ next' = next + 1

\* Manager.Init: the hooks and Init of the next component; any may fail, and
\* Mux.Init does when no implementation has the name.
InitComponent ==
  /\ phase = "init"
  /\ \/ next > Len(ordered) /\ phase' = "start" /\ next' = 1 /\ UNCHANGED state
     \/ /\ next <= Len(ordered)
        /\ \/ ~NoImplementation(ordered[next]) /\ Advance("initialized") /\ phase' = phase
           \/ phase' = "failed" /\ UNCHANGED <<next, state>>
  /\ UNCHANGED <<stack, components, ordered, pass, disabled, build, config, ctxCancelled>>

\* Manager.Start; then Run waits for ctx.
StartComponent ==
  /\ phase = "start"
  /\ \/ /\ next > Len(ordered) /\ ctxCancelled
        /\ phase' = "close" /\ next' = Len(ordered) /\ UNCHANGED state
     \/ /\ next <= Len(ordered)
        /\ \/ Advance("started") /\ phase' = phase
           \/ phase' = "failed" /\ UNCHANGED <<next, state>>
  /\ UNCHANGED <<stack, components, ordered, pass, disabled, build, config, ctxCancelled>>

\* SetupSignalHandler, ShutdownTrigger.
Signal ==
  /\ phase = "start" /\ ~ctxCancelled
  /\ ctxCancelled' = TRUE
  /\ UNCHANGED <<phase, stack, components, ordered, pass, disabled, build, config, next, state>>

CloseComponent_givesUp ==
  /\ phase = "close" /\ next > 0
  /\ state' = [state EXCEPT ![ordered[next]] = "closed"]
  /\ \/ next' = next - 1 /\ phase' = phase
     \/ phase' = "closed" /\ UNCHANGED next
  /\ UNCHANGED <<stack, components, ordered, pass, disabled, build, config, ctxCancelled>>

\* Manager.Close: when Close of a component returns, with an error or without, the
\* next one follows.  When it panics the process dies: RecoverPanic calls recover
\* one frame below the deferred function, and HandleCrash panics again.
CloseComponent ==
  /\ phase = "close"
  /\ \/ next > 0 /\ state' = [state EXCEPT ![ordered[next]] = "closed"] /\ next' = next - 1 /\ phase' = phase
     \/ next > 0 /\ phase' = "crashed" /\ UNCHANGED <<next, state>>
     \/ next = 0 /\ phase' = "closed" /\ UNCHANGED <<next, state>>
  /\ UNCHANGED <<stack, components, ordered, pass, disabled, build, config, ctxCancelled>>

Next ==
  \/ Build \/ resolve \/ construct
  \/ TrimLists \/ TrimDisabled \/ TrimPass
  \/ orderComponents \/ insertDeps
  \/ InitComponent \/ StartComponent \/ Signal \/ CloseComponent

Spec == Init /\ [][Next]_vars

\* The process keeps going; nothing is assumed of the signal.
FairSpec == Spec /\ WF_vars(Next /\ ~Signal)

-----------------------------------------------------------------------------
Phases == {"build", "failed", "parse", "trim", "fatal", "order", "cycle", "init", "start", "close", "closed", "crashed"}

TypeOK ==
  /\ wiring \in Wirings
  /\ phase \in Phases
  /\ stack \in Seq([ty : Types, at : Nat])
  /\ factories \subseteq Types /\ components \subseteq Types /\ disabled \subseteq Types
  /\ ordered \in Seq(Types)
  /\ dependents \in [Types -> Nat]
  /\ dependencies \in [Types -> SUBSET Types]
  /\ pass \in [todo : SUBSET Types, hasChange : BOOLEAN]
  /\ next \in Nat
  /\ state \in [Types -> {"none", "initialized", "started", "closed"}]
  /\ ctxCancelled \in BOOLEAN

Up == {"initialized", "started"}

\* A component is initialized and started after everything it got in its
\* constructor, and closed before it (insertDeps, Init, Start, Close).
DependenciesFirst ==
  \A t \in components : \A d \in dependencies[t] \cap components :
    /\ state[t] = "initialized" => state[d] \in Up
    /\ state[t] = "started" => state[d] = "started"
    /\ state[d] = "closed" => state[t] = "closed"

Trimmed == phase \in {"order", "cycle", "init", "start", "close", "closed"}

\* What TrimDisabled leaves is complete: no component works with a disabled one,
\* other than a mux with the implementations it was not told to use.
NothingMissing ==
  Trimmed => \A t \in components : \A d \in dependencies[t] \ components :
               Kind(t) = "mux" /\ which[t] # d

\* What is requested more than once by one component.
RequestedTwice(d) ==
  \E t \in Types : Cardinality({i \in DOMAIN Requests(t) : Requests(t)[i] = d}) > 1

\* TrimDisabled keeps a component without a flag only for somebody who uses it.
\* A component that requests another twice is counted twice and trimmed once,
\* so what it requested stays: those are exempt.
NothingIdle ==
  Trimmed => \A t \in components :
    Kind(t) \notin {"explicit", "impl"} /\ ~RequestedTwice(t) => \E u \in components : t \in dependencies[u]

\* Once everything has been started and the signal came, everything is closed,
\* whichever Close returns an error; only a Close that panics, and the process with
\* it, leaves components as they are.
ShutdownCloses ==
  phase = "close" ~> phase = "crashed" \/ (phase = "closed" /\ \A t \in components : state[t] = "closed")

\* "continue closing even if some components panicked during close": a panic does
\* not keep the others from being closed.
CloseSurvivesPanic == phase = "close" ~> \A t \in components : state[t] = "closed"
=============================================================================
