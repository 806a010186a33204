------------------------------ MODULE Elector -------------------------------
(***************************************************************************)
(* multileader.Elector: each process stands for all the leases of a        *)
(* component, keeps the first it gets, runs the leader and stands again    *)
(* when the lease is lost.  What client-go does with a lease is external:  *)
(* one holder, who gives up (RenewDeadline) before others may take it      *)
(* (LeaseDuration), and a release when a sub-elector's context ends.       *)
(***************************************************************************)
EXTENDS Naturals, FiniteSets, Sequences

CONSTANTS
  Procs, Slots,
  None,
  MaxTerms       \* bound: leader terms, of all the processes together

ASSUME ElectorAssumption == MaxTerms \in Nat /\ None \notin Procs /\ None \notin Slots

Terms == 1..MaxTerms

VARIABLES
  lease,         \* lease[s]: the holder the API server has for slot s
  pc,            \* where Run of a process is
  subs,          \* the sub-electors whose context is live
  held,          \* those of them that have their lease
  eventCh,       \* the channel of configureCallbacks, of capacity 1
  leader,        \* the slot the process leads
  current,       \* the term of the spinOnce under way
  baseDone,      \* baseCtx of that spinOnce is done
  run,           \* run[t]: the goroutine of term t: [proc, slot, live, on]
  terms          \* terms used

electorVars == <<lease, pc, subs, held, eventCh, leader, current, baseDone, run, terms>>

ElectorInit ==
  /\ lease = [s \in Slots |-> None]
  /\ pc = [p \in Procs |-> "spin"]
  /\ subs = [p \in Procs |-> {}]
  /\ held = [p \in Procs |-> {}]
  /\ eventCh = [p \in Procs |-> None]
  /\ leader = [p \in Procs |-> None]
  /\ current = [p \in Procs |-> 0]
  /\ baseDone = [p \in Procs |-> FALSE]
  /\ run = [t \in Terms |-> [proc |-> None, slot |-> None, live |-> FALSE, on |-> FALSE]]
  /\ terms = 0

\* spinOnce and waitForLeader up to the select: one sub-elector to the slot.
\* (An error of configCreator leads straight back here.)
spinOnce(p) ==
  /\ pc[p] = "spin" /\ terms < MaxTerms
  /\ pc' = [pc EXCEPT ![p] = "wait"]
  /\ subs' = [subs EXCEPT ![p] = Slots]
  /\ eventCh' = [eventCh EXCEPT ![p] = None]
  /\ baseDone' = [baseDone EXCEPT ![p] = FALSE]
  /\ current' = [current EXCEPT ![p] = 0]
  /\ UNCHANGED <<lease, held, leader, run, terms>>

\* A sub-elector gets its lease; OnStartedLeading sends the first event only.
Acquire(p, s) ==
  /\ s \in subs[p] /\ lease[s] = None
  /\ lease' = [lease EXCEPT ![s] = p]
  /\ held' = [held EXCEPT ![p] = @ \cup {s}]
  /\ eventCh' = [eventCh EXCEPT ![p] = IF @ = None THEN s ELSE @]
  /\ UNCHANGED <<pc, subs, leader, current, baseDone, run, terms>>

\* waitForLeader: the event arrives, the other sub-electors are cancelled, and
\* spinOnce starts the goroutine of the leader.
waitForLeader(p) ==
  /\ pc[p] = "wait" /\ eventCh[p] # None /\ terms < MaxTerms
  /\ LET s == eventCh[p] IN
     /\ subs' = [subs EXCEPT ![p] = @ \cap {s}]
     /\ held' = [held EXCEPT ![p] = @ \cap {s}]
     /\ leader' = [leader EXCEPT ![p] = s]
     /\ run' = [run EXCEPT ![terms + 1] = [proc |-> p, slot |-> s, live |-> s \in subs[p], on |-> TRUE]]
  /\ current' = [current EXCEPT ![p] = terms + 1]
  /\ terms' = terms + 1
  /\ eventCh' = [eventCh EXCEPT ![p] = None]
  /\ pc' = [pc EXCEPT ![p] = "lead"]
  /\ UNCHANGED <<lease, baseDone>>

\* The term of p under way, without its context.
Cancelled(p) ==
  [t \in Terms |-> IF t = current[p] THEN [run[t] EXCEPT !.live = FALSE] ELSE run[t]]

Lose_baseCtx(p, s) ==
  /\ s \in held[p]
  /\ subs' = [subs EXCEPT ![p] = @ \ {s}]
  /\ held' = [held EXCEPT ![p] = @ \ {s}]
  /\ UNCHANGED <<lease, pc, eventCh, leader, current, baseDone, run, terms>>

\* The lease could not be renewed in time: the sub-elector ends, and with it
\* the context of the term.
Lose(p, s) ==
  /\ s \in held[p]
  /\ subs' = [subs EXCEPT ![p] = @ \ {s}]
  /\ held' = [held EXCEPT ![p] = @ \ {s}]
  /\ run' = IF leader[p] = s THEN Cancelled(p) ELSE run
  /\ UNCHANGED <<lease, pc, eventCh, leader, current, baseDone, terms>>

\* ReleaseOnCancel, or the lease runs out.
Release(p, s) ==
  /\ lease[s] = p /\ s \notin held[p]
  /\ lease' = [lease EXCEPT ![s] = None]
  /\ UNCHANGED <<pc, subs, held, eventCh, leader, current, baseDone, run, terms>>

\* spinOnce returns, which cancels baseCtx; Run goes round again or returns.
Leave(p, to) ==
  /\ pc' = [pc EXCEPT ![p] = to]
  /\ subs' = [subs EXCEPT ![p] = {}]
  /\ held' = [held EXCEPT ![p] = {}]
  /\ run' = Cancelled(p)
  /\ leader' = [leader EXCEPT ![p] = None]
  /\ UNCHANGED <<lease, eventCh, current, baseDone, terms>>

\* case <-termCtx.Done()
SelectTerm(p) ==
  /\ pc[p] = "lead" /\ ~run[current[p]].live
  /\ Leave(p, "spin")

\* case <-baseCtx.Done(): the leader has returned.  baseCtx is the parent of
\* termCtx, so both cases are ready then, and select takes either.
SelectBase(p) ==
  /\ pc[p] = "lead" /\ baseDone[p]
  /\ Leave(p, "stopped")

\* Run r when its leader has gone.
Ended(r) == [proc |-> r.proc, slot |-> r.slot, live |-> FALSE, on |-> FALSE]

\* The leader of term t returns: cancelFunc of its own spinOnce.  (A panic of the
\* leader ends the process instead, RecoverPanic or not: see Restart.)
RunReturns(t) ==
  LET p == run[t].proc
      ours == current[p] = t /\ pc[p] = "lead" IN
  /\ run[t].on
  /\ run' = [run EXCEPT ![t] = Ended(run[t])]
  /\ baseDone' = [baseDone EXCEPT ![p] = @ \/ ours]
  /\ subs' = [subs EXCEPT ![p] = IF ours THEN {} ELSE @]
  /\ held' = [held EXCEPT ![p] = IF ours THEN {} ELSE @]
  /\ UNCHANGED <<lease, pc, eventCh, leader, current, terms>>

\* The process dies, by a panic of its leader or otherwise, and is started again;
\* its leases run out.
Restart(p) ==
  /\ pc[p] # "spin"
  /\ pc' = [pc EXCEPT ![p] = "spin"]
  /\ subs' = [subs EXCEPT ![p] = {}]
  /\ held' = [held EXCEPT ![p] = {}]
  /\ eventCh' = [eventCh EXCEPT ![p] = None]
  /\ leader' = [leader EXCEPT ![p] = None]
  /\ current' = [current EXCEPT ![p] = 0]
  /\ baseDone' = [baseDone EXCEPT ![p] = FALSE]
  /\ run' = [t \in Terms |-> IF run[t].proc = p THEN Ended(run[t]) ELSE run[t]]
  /\ UNCHANGED <<lease, terms>>

ElectorStep(p) ==
  \/ spinOnce(p) \/ waitForLeader(p) \/ SelectTerm(p) \/ SelectBase(p)
  \/ \E s \in Slots : Acquire(p, s) \/ Release(p, s)

\* A slot has one leader: of the terms whose context is live, no two are for
\* the same slot, although every process stands for every slot, leases are lost
\* and taken over, and an ending leader may still be running when the next begins.
OneLeaderPerSlot ==
  \A t, u \in Terms : t # u /\ run[t].live /\ run[u].live => run[t].slot # run[u].slot

\* "assert that a crashed leader triggers leader re-election": a process whose
\* leader has returned stands again, as select between termCtx and baseCtx decides.
CrashedLeaderIsReelected == \A p \in Procs : pc[p] # "stopped"
=============================================================================
