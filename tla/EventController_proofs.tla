----------------------- MODULE EventController_proofs -----------------------
(***************************************************************************)
(* The leader election and the event controller under it, for every number *)
(* of processes, leases, terms and events.                                 *)
(***************************************************************************)
EXTENDS EventController, TLAPS

-----------------------------------------------------------------------------
(* The elector *)

Run == [proc : Procs \cup {None}, slot : Slots \cup {None}, live : BOOLEAN, on : BOOLEAN]

ElectorTypeOK ==
  /\ lease \in [Slots -> Procs \cup {None}]
  /\ pc \in [Procs -> {"spin", "wait", "lead", "stopped"}]
  /\ subs \in [Procs -> SUBSET Slots]
  /\ held \in [Procs -> SUBSET Slots]
  /\ eventCh \in [Procs -> Slots \cup {None}]
  /\ leader \in [Procs -> Slots \cup {None}]
  /\ terms \in 0..MaxTerms
  /\ current \in [Procs -> 0..terms]
  /\ baseDone \in [Procs -> BOOLEAN]
  /\ run \in [Terms -> Run]

\* A term that has begun belongs to a process, and no other one runs.
TermsBegun ==
  \A t \in Terms : IF t <= terms THEN run[t].proc \in Procs ELSE ~run[t].on /\ ~run[t].live

\* A sub-elector that has its lease is live, and the API server agrees.
HeldIsLeased ==
  \A p \in Procs : \A s \in held[p] : s \in subs[p] /\ lease[s] = p

\* The event in the channel is that of a lease still held, or its sub-elector
\* has ended.
EventIsHeld ==
  \A p \in Procs : eventCh[p] \in subs[p] => eventCh[p] \in held[p]

\* A live term is the current one of its process, which holds the lease.
LiveIsCurrent ==
  \A t \in Terms : run[t].live =>
    /\ run[t].proc \in Procs
    /\ pc[run[t].proc] = "lead"
    /\ current[run[t].proc] = t
    /\ leader[run[t].proc] = run[t].slot
    /\ run[t].slot \in held[run[t].proc]

\* baseCtx ends with the leader of the process's own term, and only then.
BaseEndsWithLeader ==
  \A p \in Procs :
    /\ pc[p] = "wait" => ~baseDone[p]
    /\ pc[p] \in {"lead", "stopped"} => current[p] # 0 /\ run[current[p]].proc = p
    /\ pc[p] = "lead" /\ baseDone[p] => ~run[current[p]].on
    /\ pc[p] = "stopped" => ~run[current[p]].on

ElectorInv ==
  ElectorTypeOK /\ TermsBegun /\ HeldIsLeased /\ EventIsHeld /\ LiveIsCurrent /\ BaseEndsWithLeader

\* What the elector does in a step of the event controller.
ElectorNext ==
  \/ \E p \in Procs : \/ ElectorStep(p)
                      \/ \E s \in Slots : Lose(p, s)
                      \/ Restart(p)
  \/ \E t \in Terms : RunReturns(t)

LEMMA ElectorInitInv == ElectorInit => ElectorInv
  BY ElectorAssumption
  DEF ElectorInit, ElectorInv, ElectorTypeOK, Run, Terms, TermsBegun, HeldIsLeased, EventIsHeld,
      LiveIsCurrent, BaseEndsWithLeader

LEMMA CancelledType ==
  ASSUME run \in [Terms -> Run], NEW p \in Procs
  PROVE  Cancelled(p) \in [Terms -> Run]
<1>1. ASSUME NEW t \in Terms PROVE [run[t] EXCEPT !.live = FALSE] \in Run
  BY DEF Run
<1> QED
  BY <1>1 DEF Cancelled

\* The elector of one process keeps to its own leases and to its own term.
LEMMA ElectorStepInv == ElectorInv /\ [ElectorNext]_electorVars => ElectorInv'
<1> SUFFICES ASSUME ElectorInv, [ElectorNext]_electorVars
             PROVE  ElectorInv'
  OBVIOUS
<1> USE ElectorAssumption DEF ElectorInv, ElectorTypeOK, Run, Terms, Ended
<1>1. ASSUME NEW p \in Procs, spinOnce(p) PROVE ElectorInv'
  BY <1>1 DEF spinOnce, TermsBegun, HeldIsLeased, EventIsHeld, LiveIsCurrent, BaseEndsWithLeader
<1>2. ASSUME NEW p \in Procs, NEW s \in Slots, Acquire(p, s) PROVE ElectorInv'
  <2>1. ElectorTypeOK' /\ TermsBegun' /\ BaseEndsWithLeader'
    BY <1>2 DEF Acquire, TermsBegun, BaseEndsWithLeader
  <2>2. HeldIsLeased'
    BY <1>2 DEF Acquire, HeldIsLeased
  <2>3. EventIsHeld'
    BY <1>2 DEF Acquire, EventIsHeld
  <2>4. LiveIsCurrent'
    BY <1>2 DEF Acquire, LiveIsCurrent
  <2> QED
    BY <2>1, <2>2, <2>3, <2>4
<1>3. ASSUME NEW p \in Procs, waitForLeader(p) PROVE ElectorInv'
  <2> DEFINE s == eventCh[p]
             r == [proc |-> p, slot |-> s, live |-> s \in subs[p], on |-> TRUE]
  <2>0. /\ pc[p] = "wait" /\ s \in Slots /\ terms + 1 \in Terms
        /\ run' = [run EXCEPT ![terms + 1] = r] /\ r \in Run /\ terms' = terms + 1
        /\ subs' = [subs EXCEPT ![p] = @ \cap {s}] /\ held' = [held EXCEPT ![p] = @ \cap {s}]
        /\ leader' = [leader EXCEPT ![p] = s] /\ current' = [current EXCEPT ![p] = terms + 1]
        /\ eventCh' = [eventCh EXCEPT ![p] = None] /\ pc' = [pc EXCEPT ![p] = "lead"]
        /\ UNCHANGED <<lease, baseDone>>
    BY <1>3 DEF waitForLeader
  <2> HIDE DEF s
  <2>1. ElectorTypeOK'
    BY <2>0
  <2>2. TermsBegun' /\ HeldIsLeased' /\ EventIsHeld'
    BY <2>0 DEF TermsBegun, HeldIsLeased, EventIsHeld
  <2>3. LiveIsCurrent'
    BY <2>0 DEF LiveIsCurrent, EventIsHeld, HeldIsLeased, s
  <2>4. BaseEndsWithLeader'
    BY <2>0 DEF BaseEndsWithLeader
  <2> QED
    BY <2>1, <2>2, <2>3, <2>4
<1>4. ASSUME NEW p \in Procs, NEW s \in Slots, Lose(p, s) PROVE ElectorInv'
  <2>0. run' \in [Terms -> Run]
    BY <1>4, CancelledType DEF Lose
  <2>1. ElectorTypeOK'
    BY <1>4, <2>0 DEF Lose
  <2>2. TermsBegun' /\ HeldIsLeased' /\ EventIsHeld'
    BY <1>4 DEF Lose, Cancelled, TermsBegun, HeldIsLeased, EventIsHeld
  <2>3. LiveIsCurrent'
    BY <1>4 DEF Lose, Cancelled, LiveIsCurrent
  <2>4. BaseEndsWithLeader'
    BY <1>4 DEF Lose, Cancelled, BaseEndsWithLeader
  <2> QED
    BY <2>1, <2>2, <2>3, <2>4
<1>5. ASSUME NEW p \in Procs, NEW s \in Slots, Release(p, s) PROVE ElectorInv'
  BY <1>5 DEF Release, TermsBegun, HeldIsLeased, EventIsHeld, LiveIsCurrent, BaseEndsWithLeader
<1>6. ASSUME NEW p \in Procs, SelectTerm(p) \/ SelectBase(p) PROVE ElectorInv'
  <2>0. PICK to \in {"spin", "stopped"} :
          /\ pc[p] = "lead"
          /\ to = "stopped" => baseDone[p]
          /\ Leave(p, to)
    BY <1>6 DEF SelectTerm, SelectBase
  <2>a. run' \in [Terms -> Run]
    BY <2>0, CancelledType DEF Leave
  <2>1. ElectorTypeOK'
    BY <2>0, <2>a DEF Leave
  <2>2. TermsBegun' /\ HeldIsLeased' /\ EventIsHeld'
    BY <2>0 DEF Leave, Cancelled, TermsBegun, HeldIsLeased, EventIsHeld
  <2>3. LiveIsCurrent'
    BY <2>0 DEF Leave, Cancelled, LiveIsCurrent
  <2>4. BaseEndsWithLeader'
    BY <2>0 DEF Leave, Cancelled, BaseEndsWithLeader
  <2> QED
    BY <2>1, <2>2, <2>3, <2>4
<1>7. ASSUME NEW t \in Terms, RunReturns(t) PROVE ElectorInv'
  <2>0. run[t].proc \in Procs
    BY <1>7 DEF RunReturns, TermsBegun
  <2> DEFINE p == run[t].proc
             ours == current[p] = t /\ pc[p] = "lead"
  <2>1. ElectorTypeOK'
    <3>1. run' \in [Terms -> Run]
      BY <1>7, <2>0 DEF RunReturns
    <3>2. /\ baseDone' = [baseDone EXCEPT ![p] = @ \/ ours]
          /\ subs' = [subs EXCEPT ![p] = IF ours THEN {} ELSE @]
          /\ held' = [held EXCEPT ![p] = IF ours THEN {} ELSE @]
          /\ UNCHANGED <<lease, pc, eventCh, leader, current, terms>>
      BY <1>7, Zenon DEF RunReturns
    <3>3. baseDone' \in [Procs -> BOOLEAN]
      BY <2>0, <3>2
    <3>4. subs' \in [Procs -> SUBSET Slots] /\ held' \in [Procs -> SUBSET Slots]
      BY <2>0, <3>2
    <3> QED
      BY <3>1, <3>2, <3>3, <3>4
  <2>2. TermsBegun' /\ HeldIsLeased' /\ EventIsHeld'
    BY <1>7, <2>0 DEF RunReturns, TermsBegun, HeldIsLeased, EventIsHeld
  <2>3. LiveIsCurrent'
    BY <1>7, <2>0 DEF RunReturns, LiveIsCurrent
  <2>4. BaseEndsWithLeader'
    BY <1>7, <2>0 DEF RunReturns, BaseEndsWithLeader
  <2> QED
    BY <2>1, <2>2, <2>3, <2>4
<1>8. ASSUME NEW p \in Procs, Restart(p) PROVE ElectorInv'
  <2>1. ElectorTypeOK'
    BY <1>8 DEF Restart
  <2>2. TermsBegun' /\ HeldIsLeased' /\ EventIsHeld'
    BY <1>8 DEF Restart, TermsBegun, HeldIsLeased, EventIsHeld
  <2>3. LiveIsCurrent'
    BY <1>8 DEF Restart, LiveIsCurrent
  <2>4. BaseEndsWithLeader'
    BY <1>8 DEF Restart, BaseEndsWithLeader
  <2> QED
    BY <2>1, <2>2, <2>3, <2>4
<1>9. CASE UNCHANGED electorVars
  BY <1>9 DEF electorVars, TermsBegun, HeldIsLeased, EventIsHeld, LiveIsCurrent, BaseEndsWithLeader
<1> QED
  BY <1>1, <1>2, <1>3, <1>4, <1>5, <1>6, <1>7, <1>8, <1>9 DEF ElectorNext, ElectorStep

-----------------------------------------------------------------------------
(* Channels, as sequences, and whole seconds *)

LEMMA HeadElement ==
  ASSUME NEW q \in Seq(Nat), q # <<>>
  PROVE  1 \in 1..Len(q) /\ Head(q) = q[1] /\ Head(q) \in Nat
  OBVIOUS

LEMMA TailElements ==
  ASSUME NEW q \in Seq(Nat), q # <<>>, NEW i \in 1..Len(Tail(q))
  PROVE  i + 1 \in 1..Len(q) /\ Tail(q)[i] = q[i + 1]
  OBVIOUS

LEMMA AppendElements ==
  ASSUME NEW q \in Seq(Nat), NEW x \in Nat, NEW i \in 1..Len(Append(q, x))
  PROVE  (i \in 1..Len(q) /\ Append(q, x)[i] = q[i]) \/ Append(q, x)[i] = x
  OBVIOUS

LEMMA Division ==
  ASSUME NEW t \in Nat
  PROVE  /\ t % TicksPerSecond \in 0..(TicksPerSecond - 1)
         /\ t \div TicksPerSecond \in Nat
         /\ t = TicksPerSecond * (t \div TicksPerSecond) + (t % TicksPerSecond)
  BY ClockAssumption

LEMMA Multiple == ASSUME NEW q \in Nat PROVE (TicksPerSecond * q) % TicksPerSecond = 0
  BY ClockAssumption

\* Formatting a time truncates it to a whole second ...
LEMMA Truncates ==
  ASSUME NEW t \in Nat
  PROVE  InSeconds(t) \in Nat /\ InSeconds(t) % TicksPerSecond = 0 /\ InSeconds(t) <= t
<1>1. InSeconds(t) = TicksPerSecond * (t \div TicksPerSecond)
  BY ClockAssumption, Division DEF InSeconds
<1>2. t % TicksPerSecond \in Nat /\ InSeconds(t) \in Nat
  BY ClockAssumption, Division, <1>1
<1>3. InSeconds(t) <= t
  BY <1>2 DEF InSeconds
<1> QED
  BY <1>1, <1>2, <1>3, Division, Multiple

\* ... and never to before a whole second that it is later than.
LEMMA TruncatesMonotonically ==
  ASSUME NEW s \in Nat, NEW t \in Nat, s % TicksPerSecond = 0, s < t
  PROVE  s <= InSeconds(t)
<1> DEFINE a == s \div TicksPerSecond
           b == t \div TicksPerSecond
<1> USE ClockAssumption
<1>1. /\ a \in Nat /\ b \in Nat /\ s = TicksPerSecond * a
      /\ t = TicksPerSecond * b + (t % TicksPerSecond)
      /\ t % TicksPerSecond < TicksPerSecond /\ t % TicksPerSecond \in Nat
  BY Division
<1> HIDE DEF a, b
<1>2. TicksPerSecond * (b + 1) = TicksPerSecond * b + TicksPerSecond
  BY <1>1
<1>3. TicksPerSecond * a < TicksPerSecond * (b + 1)
  BY <1>1, <1>2
<1>4. a < b + 1
  BY <1>1, <1>3
<1>5. TicksPerSecond * a <= TicksPerSecond * b
  BY <1>1, <1>4
<1> QED
  BY <1>1, <1>5 DEF InSeconds

-----------------------------------------------------------------------------
(* The event controller *)

Copy == [at : {"none", "get", "poll", "update", "ended"}, ts : Nat, rv : Nat, changed : BOOLEAN]
Worker == [at : {"none", "idle", "update"}, event : Nat, seen : SUBSET Nat]

EventTypeOK ==
  /\ now \in Nat
  /\ events \in Seq(Nat)
  /\ configMap \in [ts : Nat \cup {None}, rv : Nat]
  /\ past \in Seq(Nat)
  /\ isLeader \in [Procs -> BOOLEAN]
  /\ lastEventTime \in [Procs -> Nat]
  /\ updateCh \in [Procs -> Seq(Nat)]
  /\ sync \in [Terms -> Copy]
  /\ worker \in [Terms -> Worker]
  /\ accepted \in Nat
  /\ skipped \in Nat
  /\ reset \in Nat

\* The config map is the last of its versions.
MapIsLast ==
  /\ configMap.rv = Len(past)
  /\ IF past = <<>> THEN configMap.ts = None ELSE configMap.ts = past[Len(past)]

HasCopy(t) == sync[t].at \in {"poll", "update"}
SameCopy(t) == HasCopy(t) /\ sync'[t].ts = sync[t].ts /\ sync'[t].rv = sync[t].rv

\* A copy is not before the version that it would replace.
CopiesAreNotBehind ==
  \A t \in Terms : HasCopy(t) => sync[t].rv \in 1..Len(past) /\ past[sync[t].rv] <= sync[t].ts

\* What is saved is in whole seconds.
WholeSeconds ==
  /\ \A i \in 1..Len(past) : past[i] % TicksPerSecond = 0
  /\ \A t \in Terms : HasCopy(t) => sync[t].ts % TicksPerSecond = 0

WorkersHaveTerms ==
  \A t \in Terms : /\ worker[t].at # "none" => t <= terms
                   /\ worker[t].at = "update" => worker[t].event \in 1..Len(events)

\* Time x was accepted from an event, or is that of the first config map or of a
\* reset.
Known(x) == x <= accepted \/ (past # <<>> /\ x <= past[1]) \/ x <= reset

\* Every time that is saved, read back or on its way is known.
SavedAreKnown ==
  /\ \A i \in 1..Len(past) : Known(past[i])
  /\ \A t \in Terms : HasCopy(t) => Known(sync[t].ts)
StartsAreKnown == \A p \in Procs : Known(lastEventTime[p])
UpdatesAreAccepted == \A p \in Procs : \A i \in 1..Len(updateCh[p]) : updateCh[p][i] <= accepted
TimesAreKnown == SavedAreKnown /\ StartsAreKnown /\ UpdatesAreAccepted

Overtaken == skipped # 0 => skipped < accepted \/ (past # <<>> /\ skipped < past[1]) \/ skipped < reset

EventInv ==
  /\ EventTypeOK /\ MapIsLast /\ CopiesAreNotBehind /\ WholeSeconds /\ WorkersHaveTerms
  /\ TimesAreKnown /\ Overtaken

LEMMA EventInitInv == Init => EventInv
<1> SUFFICES ASSUME Init PROVE EventInv
  OBVIOUS
<1> USE ElectorAssumption, ClockAssumption
<1>1. /\ configMap \in [ts : Nat \cup {None}, rv : Nat] /\ past \in Seq(Nat) /\ MapIsLast
      /\ \A i \in 1..Len(past) : past[i] = 0
  <2>1. CASE configMap = [ts |-> None, rv |-> 0] /\ past = <<>>
    BY <2>1 DEF MapIsLast
  <2>2. CASE configMap = [ts |-> 0, rv |-> 1] /\ past = <<0>>
    BY <2>2 DEF MapIsLast
  <2> QED
    BY <2>1, <2>2 DEF Init
<1>2. EventTypeOK
  BY <1>1 DEF Init, EventTypeOK, Copy, Worker, NoWorker, Terms
<1>3. CopiesAreNotBehind /\ WorkersHaveTerms /\ Overtaken
  BY DEF Init, CopiesAreNotBehind, WorkersHaveTerms, Overtaken, HasCopy, NoWorker, Terms
<1>4. WholeSeconds
  <2>1. 0 % TicksPerSecond = 0
    OBVIOUS
  <2> QED
    BY <1>1, <2>1 DEF Init, WholeSeconds, HasCopy
<1>5. TimesAreKnown
  BY <1>1 DEF Init, TimesAreKnown, SavedAreKnown, StartsAreKnown, UpdatesAreAccepted, HasCopy, Known
<1> QED
  BY <1>1, <1>2, <1>3, <1>4, <1>5 DEF EventInv

\* Every step of the event controller is one of the elector, or leaves it alone.
LEMMA StepOfElector == Next => [ElectorNext]_electorVars
<1> SUFFICES ASSUME Next PROVE [ElectorNext]_electorVars
  OBVIOUS
<1> USE DEF electorVars
<1>1. CASE Tick \/ Happens
  BY <1>1 DEF Tick, Happens
<1>2. ASSUME NEW p \in Procs, Elect(p) \/ LoseLease(p) \/ RestartProcess(p)
      PROVE  [ElectorNext]_electorVars
  BY <1>2 DEF Elect, LoseLease, RestartProcess, ElectorNext
<1>3. ASSUME NEW t \in Terms, TermStep(t) PROVE [ElectorNext]_electorVars
  BY <1>3 DEF TermStep, runLeader, getConfigMap, pollConfigLoop, updateConfigMap, finalize, handleEvent,
              sendUpdate, Return, ElectorNext
<1> QED
  BY <1>1, <1>2, <1>3 DEF Next

\* Terms are only added.
LEMMA TermsGrow == ElectorInv /\ [ElectorNext]_electorVars => terms <= terms'
<1>1. [ElectorNext]_electorVars => terms' = terms \/ terms' = terms + 1
  BY Zenon DEF ElectorNext, electorVars, ElectorStep, spinOnce, waitForLeader, SelectTerm, SelectBase,
               Leave, Acquire, Release, Lose, Restart, RunReturns
<1> QED
  BY <1>1 DEF ElectorInv, ElectorTypeOK

\* A step that writes neither the config map nor a copy of it.
LEMMA CopiesKept ==
  ASSUME EventInv, UNCHANGED mapVars,
         \A t \in Terms : HasCopy(t)' => SameCopy(t)
  PROVE  MapIsLast' /\ CopiesAreNotBehind' /\ WholeSeconds'
  BY DEF EventInv, mapVars, MapIsLast, CopiesAreNotBehind, WholeSeconds, HasCopy, SameCopy

\* What is known stays known.
LEMMA KnownStays ==
  ASSUME EventTypeOK, EventTypeOK', accepted <= accepted', reset <= reset',
         past # <<>> => past' # <<>> /\ past'[1] = past[1],
         NEW x \in Nat, Known(x)
  PROVE  Known(x)'
<1>0. past \in Seq(Nat) /\ accepted \in Nat /\ accepted' \in Nat /\ reset \in Nat /\ reset' \in Nat
  BY DEF EventTypeOK
<1>1. CASE x <= accepted
  <2>1. x <= accepted'
    BY <1>0, <1>1
  <2> QED
    BY <2>1 DEF Known
<1>2. CASE past # <<>> /\ x <= past[1]
  BY <1>2 DEF Known
<1>3. CASE x <= reset
  <2>1. x <= reset'
    BY <1>0, <1>3
  <2> QED
    BY <2>1 DEF Known
<1> QED
  BY <1>1, <1>2, <1>3 DEF Known

\* The controller keeps its invariant, one case for each action.
LEMMA EventStepInv == ElectorInv /\ ElectorInv' /\ EventInv /\ [Next]_vars => EventInv'
<1> SUFFICES ASSUME ElectorInv, ElectorInv', EventInv, [Next]_vars
             PROVE  EventInv'
  OBVIOUS
<1> USE ElectorAssumption, ClockAssumption
<1>0. /\ EventTypeOK /\ MapIsLast /\ CopiesAreNotBehind /\ WholeSeconds /\ WorkersHaveTerms
      /\ TimesAreKnown /\ Overtaken
      /\ terms \in Nat /\ terms' \in Nat /\ terms <= terms'
      /\ \A t \in Terms : t \in Nat /\ (t <= terms => run[t].proc \in Procs)
      /\ \A t \in Terms : run[t].on \/ run[t].live => t <= terms
  <2>1. terms <= terms'
    BY StepOfElector, TermsGrow DEF vars, electorVars
  <2> QED
    BY <2>1 DEF EventInv, ElectorInv, ElectorTypeOK, TermsBegun, Terms
<1> DEFINE sameMap == UNCHANGED mapVars
           sameTimes == UNCHANGED <<lastEventTime, updateCh, accepted, skipped, reset>>
\* A step that adds nothing to what is saved, copied, read or accepted.
<1>a. ASSUME EventTypeOK', sameMap, sameTimes,
             \A t \in Terms : HasCopy(t)' => SameCopy(t)
      PROVE  MapIsLast' /\ CopiesAreNotBehind' /\ WholeSeconds' /\ TimesAreKnown' /\ Overtaken'
  <2>1. MapIsLast' /\ CopiesAreNotBehind' /\ WholeSeconds'
    BY <1>a, CopiesKept
  <2>2. TimesAreKnown' /\ Overtaken'
    BY <1>0, <1>a
    DEF TimesAreKnown, SavedAreKnown, StartsAreKnown, UpdatesAreAccepted, HasCopy, SameCopy, Overtaken, Known, mapVars
  <2> QED
    BY <2>1, <2>2
<1>1. CASE Tick
  <2>1. EventTypeOK' /\ WorkersHaveTerms'
    BY <1>0, <1>1 DEF Tick, electorVars, mapVars, procVars, history, EventTypeOK, WorkersHaveTerms
  <2>2. sameMap /\ sameTimes /\ UNCHANGED sync
    BY <1>1 DEF Tick, mapVars, procVars, history
  <2> QED
    BY <1>0, <1>a, <2>1, <2>2 DEF EventInv, HasCopy, SameCopy
<1>2. CASE Happens
  <2>1. EventTypeOK' /\ WorkersHaveTerms'
    BY <1>0, <1>2 DEF Happens, electorVars, mapVars, procVars, history, EventTypeOK, WorkersHaveTerms
  <2>2. sameMap /\ sameTimes /\ UNCHANGED sync
    BY <1>2 DEF Happens, mapVars, procVars, history
  <2> QED
    BY <1>0, <1>a, <2>1, <2>2 DEF EventInv, HasCopy, SameCopy
<1>3. ASSUME UNCHANGED eventVars PROVE EventInv'
  <2>1. EventTypeOK' /\ WorkersHaveTerms'
    BY <1>0, <1>3 DEF eventVars, mapVars, procVars, history, EventTypeOK, WorkersHaveTerms, Terms
  <2>2. sameMap /\ sameTimes /\ UNCHANGED sync
    BY <1>3 DEF eventVars, mapVars, procVars, history
  <2> QED
    BY <1>0, <1>a, <2>1, <2>2 DEF EventInv, HasCopy, SameCopy
<1>4. ASSUME NEW p \in Procs, RestartProcess(p) PROVE EventInv'
  <2>1. EventTypeOK' /\ WorkersHaveTerms'
    BY <1>0, <1>4 DEF RestartProcess, mapVars, history, EventTypeOK, WorkersHaveTerms, NoWorker, Worker
  <2>2. sameMap /\ UNCHANGED <<sync, accepted, skipped, reset>>
    BY <1>4 DEF RestartProcess, mapVars, history
  <2>3. MapIsLast' /\ CopiesAreNotBehind' /\ WholeSeconds'
    BY <2>2, CopiesKept DEF HasCopy, SameCopy
  <2>4. TimesAreKnown' /\ Overtaken'
    <3>1. SavedAreKnown' /\ Overtaken'
      BY <1>0, <2>2 DEF TimesAreKnown, SavedAreKnown, Overtaken, Known, HasCopy, mapVars
    <3>2. \A q \in Procs : /\ lastEventTime'[q] = 0 \/ lastEventTime'[q] = lastEventTime[q]
                           /\ updateCh'[q] = <<>> \/ updateCh'[q] = updateCh[q]
      BY <1>0, <1>4 DEF RestartProcess, EventTypeOK
    <3>3. StartsAreKnown'
      <4>1. past' = past /\ accepted' = accepted /\ reset' = reset /\ 0 <= accepted
        BY <1>0, <2>2 DEF EventTypeOK, mapVars
      <4> QED
        BY <1>0, <3>2, <4>1 DEF TimesAreKnown, StartsAreKnown, Known
    <3>4. UpdatesAreAccepted'
      BY <1>0, <2>2, <3>2 DEF TimesAreKnown, UpdatesAreAccepted
    <3> QED
      BY <3>1, <3>3, <3>4 DEF TimesAreKnown
  <2> QED
    BY <2>1, <2>3, <2>4 DEF EventInv
<1>5. ASSUME NEW t \in Terms, runLeader(t) PROVE EventInv'
  <2>0. sync' \in [Terms -> Copy] /\ isLeader' \in [Procs -> BOOLEAN]
    <3>0. sync[t] \in Copy
      BY <1>0 DEF EventTypeOK
    <3>1. [sync[t] EXCEPT !.at = "get"] \in Copy
      BY <3>0 DEF Copy
    <3> QED
      BY <1>0, <1>5, <3>1 DEF runLeader, Sync, EventTypeOK
  <2>1. EventTypeOK' /\ WorkersHaveTerms'
    BY <1>0, <1>5, <2>0
    DEF runLeader, electorVars, mapVars, history, EventTypeOK, WorkersHaveTerms
  <2>2. sameMap /\ sameTimes
    BY <1>5 DEF runLeader, mapVars, history
  <2>3. \A u \in Terms : HasCopy(u)' => SameCopy(u)
    BY <1>0, <1>5 DEF runLeader, Sync, HasCopy, SameCopy, EventTypeOK, Copy
  <2> QED
    BY <1>a, <2>1, <2>2, <2>3 DEF EventInv
\* The end of a term; its worker goes on.
<1>6. ASSUME NEW t \in Terms, Return(t), run[t].on,
             UNCHANGED <<now, events, mapVars, lastEventTime, updateCh, worker, accepted, skipped, reset>>
      PROVE  EventInv'
  <2>1. EventTypeOK' /\ WorkersHaveTerms'
    <3>1. sync' \in [Terms -> Copy]
      BY <1>0, <1>6 DEF Return, Sync, EventTypeOK, Copy
    <3>2. isLeader' \in [Procs -> BOOLEAN]
      BY <1>0, <1>6 DEF Return, EventTypeOK
    <3>3. worker' \in [Terms -> Worker] /\ WorkersHaveTerms'
      BY <1>0, <1>6 DEF EventTypeOK, WorkersHaveTerms
    <3> QED
      BY <1>0, <1>6, <3>1, <3>2, <3>3 DEF EventTypeOK, mapVars
  <2>2. sameMap /\ sameTimes
    BY <1>6 DEF mapVars
  <2>3. \A u \in Terms : HasCopy(u)' => SameCopy(u)
    BY <1>0, <1>6 DEF Return, Sync, HasCopy, SameCopy, EventTypeOK, Copy
  <2> QED
    BY <1>a, <2>1, <2>2, <2>3 DEF EventInv
\* A copy is read or updated.
<1>b. ASSUME EventTypeOK', sameMap, UNCHANGED accepted, reset <= reset', NEW t \in Terms, NEW c \in Copy,
             sync' = [sync EXCEPT ![t] = c], c.rv \in 1..Len(past), past[c.rv] <= c.ts,
             c.ts % TicksPerSecond = 0, Known(c.ts)
      PROVE  /\ MapIsLast' /\ CopiesAreNotBehind' /\ WholeSeconds'
             /\ SavedAreKnown'
  <2>1. \A u \in Terms : u # t => sync'[u] = sync[u]
    BY <1>0, <1>b DEF EventTypeOK
  <2>2. sync'[t] = c
    BY <1>0, <1>b DEF EventTypeOK
  <2>3. past' = past /\ configMap' = configMap
    BY <1>b DEF mapVars
  <2>4. MapIsLast'
    BY <1>0, <2>3 DEF MapIsLast
  <2>5. CopiesAreNotBehind'
    BY <1>0, <1>b, <2>1, <2>2, <2>3 DEF CopiesAreNotBehind, HasCopy
  <2>6. WholeSeconds'
    BY <1>0, <1>b, <2>1, <2>2, <2>3 DEF WholeSeconds, HasCopy
  <2>7. SavedAreKnown'
    <3>1. accepted <= accepted' /\ accepted \in Nat /\ past \in Seq(Nat) /\ c.ts \in Nat
      BY <1>0, <1>b DEF EventTypeOK, Copy
    <3>2. ASSUME NEW x \in Nat, Known(x) PROVE Known(x)'
      BY <1>0, <1>b, <2>3, <3>1, <3>2, KnownStays
    <3>3. (\A i \in 1..Len(past) : Known(past[i]))'
      <4> SUFFICES ASSUME NEW i \in 1..Len(past') PROVE Known(past[i])'
        OBVIOUS
      <4>1. past'[i] = past[i] /\ past[i] \in Nat
        BY <2>3, <3>1
      <4>2. Known(past[i])
        BY <1>0, <2>3 DEF TimesAreKnown, SavedAreKnown
      <4> QED
        BY <3>2, <4>1, <4>2 DEF Known
    <3>4. (\A u \in Terms : HasCopy(u) => Known(sync[u].ts))'
      <4> SUFFICES ASSUME NEW u \in Terms, HasCopy(u)' PROVE Known(sync[u].ts)'
        OBVIOUS
      <4>1. CASE u = t
        BY <1>b, <2>2, <3>1, <3>2, <4>1 DEF Known
      <4>2. CASE u # t
        <5>1. sync'[u] = sync[u] /\ sync[u].ts \in Nat
          BY <1>0, <2>1, <4>2 DEF EventTypeOK, Copy
        <5>2. Known(sync[u].ts)
          BY <1>0, <5>1 DEF TimesAreKnown, SavedAreKnown, HasCopy
        <5> QED
          BY <3>2, <5>1, <5>2 DEF Known
      <4> QED
        BY <4>1, <4>2
    <3> QED
      BY <3>3, <3>4 DEF SavedAreKnown
  <2> QED
    BY <2>4, <2>5, <2>6, <2>7
\* A copy is saved, which makes it the last version.
<1>c. ASSUME EventTypeOK', UNCHANGED accepted, reset <= reset', NEW t \in Terms, NEW ts \in Nat, Save(ts),
             sync' = [sync EXCEPT ![t] = Fresh(ts, configMap.rv + 1)],
             ts % TicksPerSecond = 0, past # <<>> => Known(ts)
      PROVE  /\ MapIsLast' /\ CopiesAreNotBehind' /\ WholeSeconds'
             /\ SavedAreKnown'
             /\ past' # <<>> /\ (past # <<>> => past'[1] = past[1]) /\ (past = <<>> => past'[1] = ts)
  <2>1. \A u \in Terms : u # t => sync'[u] = sync[u]
    BY <1>0, <1>c DEF EventTypeOK
  <2>2. sync'[t] = Fresh(ts, Len(past) + 1)
    BY <1>0, <1>c DEF EventTypeOK, MapIsLast
  <2>3. /\ past' = Append(past, ts) /\ Len(past') = Len(past) + 1 /\ past'[Len(past) + 1] = ts
        /\ \A i \in 1..Len(past) : past'[i] = past[i]
        /\ past' # <<>> /\ Len(past) \in Nat
        /\ configMap' = [ts |-> ts, rv |-> Len(past) + 1]
    <3>1. past \in Seq(Nat) /\ configMap.rv = Len(past)
      BY <1>0 DEF EventTypeOK, MapIsLast
    <3>2. past' = Append(past, ts) /\ configMap' = [ts |-> ts, rv |-> Len(past) + 1]
      BY <1>c, <3>1 DEF Save
    <3> QED
      BY <3>1, <3>2
  <2>4. MapIsLast'
    BY <2>3 DEF MapIsLast
  <2>5. (past # <<>> => past'[1] = past[1]) /\ (past = <<>> => past'[1] = ts)
    BY <1>0, <2>3 DEF EventTypeOK
  <2>6. CopiesAreNotBehind'
    BY <1>0, <1>c, <2>1, <2>2, <2>3 DEF CopiesAreNotBehind, HasCopy, Fresh
  <2>7. WholeSeconds'
    BY <1>0, <1>c, <2>1, <2>2, <2>3 DEF WholeSeconds, HasCopy, Fresh
  <2>a. accepted <= accepted' /\ past' \in Seq(Nat)
    BY <1>0, <1>c DEF EventTypeOK
  <2>8. ASSUME NEW x \in Nat, Known(x) PROVE Known(x)'
    BY <1>0, <1>c, <2>a, <2>3, <2>5, <2>8, KnownStays
  <2>9. Known(ts)'
    <3>1. CASE past = <<>>
      <4>1. ts <= past'[1]
        BY <2>5, <3>1
      <4> QED
        BY <2>3, <4>1 DEF Known
    <3>2. CASE past # <<>>
      BY <1>c, <2>8, <3>2
    <3> QED
      BY <3>1, <3>2
  <2>10. (\A i \in 1..Len(past) : Known(past[i]))'
    <3> SUFFICES ASSUME NEW i \in 1..Len(past') PROVE Known(past[i])'
      OBVIOUS
    <3>1. CASE i \in 1..Len(past)
      <4>1. past'[i] = past[i] /\ past[i] \in Nat /\ Known(past[i])
        BY <1>0, <2>3, <3>1 DEF TimesAreKnown, SavedAreKnown, EventTypeOK
      <4> QED
        BY <2>8, <4>1 DEF Known
    <3>2. CASE past'[i] = ts
      BY <2>9, <3>2 DEF Known
    <3> QED
      BY <2>3, <3>1, <3>2
  <2>11. (\A u \in Terms : HasCopy(u) => Known(sync[u].ts))'
    <3> SUFFICES ASSUME NEW u \in Terms, HasCopy(u)' PROVE Known(sync[u].ts)'
      OBVIOUS
    <3>1. CASE u = t
      BY <2>2, <2>9, <3>1 DEF Fresh, Known
    <3>2. CASE u # t
      <4>1. sync'[u] = sync[u] /\ sync[u].ts \in Nat
        BY <1>0, <2>1, <3>2 DEF EventTypeOK, Copy
      <4>2. Known(sync[u].ts)
        BY <1>0, <4>1 DEF TimesAreKnown, SavedAreKnown, HasCopy
      <4> QED
        BY <2>8, <4>1, <4>2 DEF Known
    <3> QED
      BY <3>1, <3>2
  <2> QED
    BY <2>3, <2>4, <2>5, <2>6, <2>7, <2>10, <2>11 DEF SavedAreKnown
<1>7. ASSUME NEW t \in Terms, getConfigMap(t) PROVE EventInv'
  <2> DEFINE p == run[t].proc
  <2>0. p \in Procs /\ t <= terms /\ run[t].on /\ UNCHANGED <<now, events, updateCh, accepted, skipped>>
    BY <1>0, <1>7 DEF getConfigMap
  <2>1. CASE Return(t) /\ UNCHANGED <<mapVars, lastEventTime, worker, reset>>
    BY <1>6, <2>0, <2>1
  <2>b. ASSUME NEW ts \in Nat, NEW rv \in Nat, Begin(t, ts, rv)
        PROVE  /\ reset' \in Nat /\ reset <= reset'
               /\ \E start \in Nat : /\ lastEventTime' = [lastEventTime EXCEPT ![p] = start]
                                     /\ start <= reset' \/ start = ts
    <3>1. now \in Nat /\ reset \in Nat
      BY <1>0 DEF EventTypeOK
    <3>2. CASE ts = 0
      <4>1. reset' = Later(reset, now) /\ lastEventTime' = [lastEventTime EXCEPT ![p] = now]
        BY <2>b, <3>2 DEF Begin
      <4>2. reset' \in Nat /\ reset <= reset' /\ now <= reset'
        BY <3>1, <4>1 DEF Later
      <4> QED
        BY <3>1, <4>1, <4>2
    <3>3. CASE ts # 0
      <4>1. reset' = reset /\ lastEventTime' = [lastEventTime EXCEPT ![p] = ts]
        BY <2>b, <3>3 DEF Begin
      <4>2. reset' \in Nat /\ reset <= reset'
        BY <3>1, <4>1
      <4> QED
        BY <4>1, <4>2
    <3> QED
      BY <3>2, <3>3
  <2>2. ASSUME NEW ts \in Nat, NEW rv \in Nat, Begin(t, ts, rv), UNCHANGED <<electorVars, isLeader>>,
               configMap' \in [ts : Nat \cup {None}, rv : Nat], past' \in Seq(Nat)
        PROVE  EventTypeOK' /\ WorkersHaveTerms'
    <3>1. sync' \in [Terms -> Copy]
      BY <1>0, <2>2 DEF Begin, Sync, Fresh, EventTypeOK, Copy
    <3>2. lastEventTime' \in [Procs -> Nat] /\ reset' \in Nat
      <4>1. PICK start \in Nat : lastEventTime' = [lastEventTime EXCEPT ![p] = start]
        BY <2>b, <2>2
      <4>2. lastEventTime \in [Procs -> Nat]
        BY <1>0 DEF EventTypeOK
      <4>3. lastEventTime' \in [Procs -> Nat]
        BY <4>1, <4>2
      <4> QED
        BY <2>b, <2>2, <4>3
    <3>3. worker' \in [Terms -> Worker] /\ WorkersHaveTerms'
      <4>1. worker[t] \in Worker /\ worker' = [worker EXCEPT ![t].at = "idle"]
        BY <1>0, <2>2 DEF Begin, EventTypeOK
      <4>2. worker' \in [Terms -> Worker]
        BY <1>0, <4>1 DEF EventTypeOK, Worker
      <4>3. \A u \in Terms : worker'[u] = worker[u] \/ (u = t /\ worker'[u].at = "idle")
        BY <1>0, <4>1 DEF EventTypeOK, Worker
      <4>4. WorkersHaveTerms'
        BY <1>0, <2>0, <4>3 DEF WorkersHaveTerms
      <4> QED
        BY <4>2, <4>4
    <3> QED
      BY <1>0, <2>0, <2>2, <3>1, <3>2, <3>3 DEF EventTypeOK
  <2>3. CASE /\ configMap.ts = None
             /\ Save(InSeconds(now))
             /\ Begin(t, InSeconds(now), configMap.rv + 1)
             /\ UNCHANGED <<electorVars, isLeader>>
    <3> DEFINE ts == InSeconds(now)
    <3>1. ts \in Nat /\ ts % TicksPerSecond = 0
      BY <1>0, Truncates DEF EventTypeOK
    <3> HIDE DEF ts
    <3>2. Save(ts) /\ Begin(t, ts, configMap.rv + 1)
      BY <2>3 DEF ts
    <3>3. EventTypeOK' /\ WorkersHaveTerms'
      <4>1. configMap' \in [ts : Nat \cup {None}, rv : Nat] /\ past' \in Seq(Nat) /\ configMap.rv + 1 \in Nat
        BY <1>0, <3>1, <3>2 DEF EventTypeOK, Save
      <4> QED
        BY <2>2, <2>3, <3>1, <3>2, <4>1
    <3>4. past = <<>>
      BY <1>0, <2>3 DEF MapIsLast, EventTypeOK
    <3>a. configMap.rv + 1 \in Nat
      BY <1>0 DEF EventTypeOK
    <3>6. reset' \in Nat /\ reset <= reset'
      BY <2>b, <3>1, <3>2, <3>a
    <3>c. sync' = [sync EXCEPT ![t] = Fresh(ts, configMap.rv + 1)] /\ UNCHANGED accepted
      BY <2>0, <3>2 DEF Begin, Sync
    <3>5. /\ MapIsLast' /\ CopiesAreNotBehind' /\ WholeSeconds'
          /\ SavedAreKnown'
          /\ past' # <<>> /\ past'[1] = ts
      BY <1>c, <3>1, <3>2, <3>3, <3>4, <3>6, <3>c
    <3>b. PICK start \in Nat : lastEventTime' = [lastEventTime EXCEPT ![p] = start] /\ (start <= reset' \/ start = ts)
      BY <2>b, <3>1, <3>2, <3>a
    <3>7. TimesAreKnown'
      <4>1. \A q \in Procs : lastEventTime'[q] = start \/ lastEventTime'[q] = lastEventTime[q]
        BY <1>0, <3>b DEF EventTypeOK
      <4>2. Known(start)'
        BY <3>1, <3>5, <3>b DEF Known
      <4>3. ASSUME NEW q \in Procs PROVE Known(lastEventTime[q])'
        <5>1. lastEventTime[q] \in Nat /\ Known(lastEventTime[q]) /\ accepted <= accepted'
          BY <1>0, <2>0 DEF EventTypeOK, TimesAreKnown, StartsAreKnown
        <5>2. CASE lastEventTime'[q] = start
          BY <4>2, <5>2 DEF Known
        <5>3. CASE lastEventTime'[q] = lastEventTime[q]
          BY <1>0, <2>0, <3>4, <3>6, <5>1, <5>3 DEF Known, EventTypeOK
        <5> QED
          BY <4>1, <5>2, <5>3
      <4>4. StartsAreKnown'
        BY <4>3 DEF StartsAreKnown
      <4> QED
        BY <1>0, <2>0, <3>5, <4>4 DEF TimesAreKnown, UpdatesAreAccepted
    <3>8. Overtaken'
      BY <1>0, <2>0, <3>4, <3>6 DEF Overtaken, EventTypeOK
    <3> QED
      BY <3>3, <3>5, <3>7, <3>8 DEF EventInv
  <2>4. ASSUME NEW rv \in DOMAIN past, Begin(t, past[rv], rv), UNCHANGED <<electorVars, isLeader, mapVars>>
        PROVE  EventInv'
    <3>1. rv \in 1..Len(past) /\ rv \in Nat /\ past[rv] \in Nat
      BY <1>0 DEF EventTypeOK
    <3>2. EventTypeOK' /\ WorkersHaveTerms'
      BY <1>0, <2>2, <2>4, <3>1 DEF EventTypeOK, mapVars
    <3>3. past[rv] % TicksPerSecond = 0 /\ Known(past[rv])
      BY <1>0, <3>1 DEF WholeSeconds, TimesAreKnown, SavedAreKnown
    <3>4. /\ MapIsLast' /\ CopiesAreNotBehind' /\ WholeSeconds'
          /\ SavedAreKnown'
      <4>1. Fresh(past[rv], rv) \in Copy /\ Fresh(past[rv], rv).rv = rv /\ Fresh(past[rv], rv).ts = past[rv]
        BY <3>1 DEF Fresh, Copy
      <4>2. sync' = [sync EXCEPT ![t] = Fresh(past[rv], rv)] /\ sameMap
        BY <2>4 DEF Begin, Sync
      <4>3. past[rv] <= past[rv]
        BY <3>1
      <4>4. reset <= reset'
        BY <2>b, <2>4, <3>1
      <4> QED
        BY <1>b, <2>0, <3>1, <3>2, <3>3, <4>1, <4>2, <4>3, <4>4
    <3>5. reset' \in Nat /\ reset <= reset' /\ past' = past /\ accepted' = accepted /\ accepted \in Nat /\ reset \in Nat
      BY <1>0, <2>0, <2>b, <2>4, <3>1 DEF mapVars, EventTypeOK
    <3>a. PICK start \in Nat : lastEventTime' = [lastEventTime EXCEPT ![p] = start] /\ (start <= reset' \/ start = past[rv])
      BY <2>b, <2>4, <3>1
    <3>b. ASSUME NEW x \in Nat, Known(x) PROVE Known(x)'
      BY <3>5, <3>b DEF Known
    <3>c. Known(start)'
      BY <3>1, <3>3, <3>a, <3>b DEF Known
    <3>6. TimesAreKnown' /\ Overtaken'
      <4>1. \A q \in Procs : lastEventTime'[q] = start \/ lastEventTime'[q] = lastEventTime[q]
        BY <1>0, <3>a DEF EventTypeOK
      <4>2. ASSUME NEW q \in Procs PROVE Known(lastEventTime[q])'
        <5>1. lastEventTime[q] \in Nat /\ Known(lastEventTime[q])
          BY <1>0 DEF EventTypeOK, TimesAreKnown, StartsAreKnown
        <5>2. CASE lastEventTime'[q] = start
          BY <3>c, <5>2 DEF Known
        <5>3. CASE lastEventTime'[q] = lastEventTime[q]
          BY <3>b, <5>1, <5>3 DEF Known
        <5> QED
          BY <4>1, <5>2, <5>3
      <4>3. TimesAreKnown'
        BY <1>0, <2>0, <3>4, <4>2 DEF TimesAreKnown, StartsAreKnown, UpdatesAreAccepted
      <4>4. Overtaken'
        BY <1>0, <2>0, <3>5 DEF Overtaken, EventTypeOK
      <4> QED
        BY <4>3, <4>4
    <3> QED
      BY <3>2, <3>4, <3>6 DEF EventInv
  <2> QED
    BY <1>7, <2>1, <2>3, <2>4 DEF getConfigMap
<1>8. ASSUME NEW t \in Terms, pollConfigLoop(t) PROVE EventInv'
  <2> DEFINE p == run[t].proc
  <2>0. /\ p \in Procs /\ HasCopy(t) /\ sync[t] \in Copy /\ sync[t].at = "poll"
        /\ UNCHANGED <<now, events, isLeader, lastEventTime, worker, accepted, skipped, reset, terms>> /\ sameMap
    BY <1>0, <1>8 DEF pollConfigLoop, HasCopy, EventTypeOK, history, electorVars
  <2>a. reset <= reset'
    <3>1. reset \in Nat
      BY <1>0 DEF EventTypeOK
    <3> QED
      BY <2>0, <3>1
  <2>1. CASE /\ updateCh[p] # <<>>
             /\ Sync(t, updater(sync[t], Head(updateCh[p])))
             /\ updateCh' = [updateCh EXCEPT ![p] = Tail(@)]
    <3> DEFINE time == Head(updateCh[p])
               s == sync[t]
               ts == IF s.ts < time THEN InSeconds(time) ELSE s.ts
               c == updater(s, time)
    <3>1. time \in Nat /\ time <= accepted /\ s.ts \in Nat /\ accepted \in Nat
      <4>1. updateCh[p] \in Seq(Nat) /\ updateCh[p] # <<>> /\ s.ts \in Nat /\ accepted \in Nat
        BY <1>0, <2>0, <2>1 DEF EventTypeOK, Copy
      <4>2. 1 \in 1..Len(updateCh[p]) /\ time = updateCh[p][1] /\ time \in Nat
        BY <4>1, HeadElement
      <4> QED
        BY <1>0, <2>0, <4>1, <4>2 DEF TimesAreKnown, UpdatesAreAccepted
    <3>2. ts \in Nat /\ ts % TicksPerSecond = 0 /\ s.ts <= ts /\ Known(ts)
      <4>1. s.ts % TicksPerSecond = 0 /\ Known(s.ts)
        BY <1>0, <2>0 DEF WholeSeconds, TimesAreKnown, SavedAreKnown
      <4>2. CASE s.ts < time
        <5>1. InSeconds(time) \in Nat /\ InSeconds(time) % TicksPerSecond = 0 /\ InSeconds(time) <= time
          BY <3>1, Truncates
        <5>2. s.ts <= InSeconds(time)
          BY <3>1, <4>1, <4>2, TruncatesMonotonically
        <5>3. InSeconds(time) <= accepted
          BY <3>1, <5>1
        <5> QED
          BY <4>2, <5>1, <5>2, <5>3 DEF Known
      <4>3. CASE ~(s.ts < time)
        BY <3>1, <4>1, <4>3
      <4> QED
        BY <4>2, <4>3
    <3>3. c \in Copy /\ c.ts = ts /\ c.rv = s.rv
      <4> HIDE DEF time
      <4> QED
        BY <2>0, <3>2 DEF updater, Copy
    <3>4. s.rv \in 1..Len(past) /\ past[s.rv] <= ts
      <4>a. s.rv \in 1..Len(past) /\ past[s.rv] <= s.ts
        BY <1>0, <2>0 DEF CopiesAreNotBehind
      <4>b. past \in Seq(Nat)
        BY <1>0 DEF EventTypeOK
      <4>1. s.rv \in 1..Len(past) /\ past[s.rv] <= s.ts /\ past[s.rv] \in Nat
        BY <4>a, <4>b
      <4> HIDE DEF ts, s
      <4> QED
        BY <3>1, <3>2, <4>1
    <3>5. sync' = [sync EXCEPT ![t] = c]
      BY <2>1 DEF Sync
    <3> HIDE DEF time, ts, c, s
    <3>6. EventTypeOK' /\ WorkersHaveTerms'
      <4>1. updateCh' \in [Procs -> Seq(Nat)]
        BY <1>0, <2>0, <2>1 DEF EventTypeOK
      <4>2. sync' \in [Terms -> Copy]
        BY <1>0, <3>3, <3>5 DEF EventTypeOK
      <4> QED
        BY <1>0, <2>0, <4>1, <4>2 DEF EventTypeOK, WorkersHaveTerms, mapVars
    <3>7. /\ MapIsLast' /\ CopiesAreNotBehind' /\ WholeSeconds'
          /\ SavedAreKnown'
      BY <1>b, <2>0, <2>a, <3>2, <3>3, <3>4, <3>5, <3>6
    <3>8. UpdatesAreAccepted'
      <4> SUFFICES ASSUME NEW q \in Procs, NEW i \in 1..Len(updateCh'[q])
                   PROVE  updateCh'[q][i] <= accepted
        BY <2>0 DEF UpdatesAreAccepted
      <4>1. CASE q = p
        <5>1. updateCh'[q] = Tail(updateCh[p]) /\ updateCh[p] \in Seq(Nat)
          BY <1>0, <2>0, <2>1, <4>1 DEF EventTypeOK
        <5>2. i + 1 \in 1..Len(updateCh[p]) /\ updateCh'[q][i] = updateCh[p][i + 1]
          BY <2>1, <5>1, TailElements
        <5> QED
          BY <1>0, <2>0, <5>2 DEF TimesAreKnown, UpdatesAreAccepted
      <4>2. CASE q # p
        BY <1>0, <2>0, <2>1, <4>2 DEF TimesAreKnown, StartsAreKnown, UpdatesAreAccepted, EventTypeOK
      <4> QED
        BY <4>1, <4>2
    <3>9. TimesAreKnown' /\ Overtaken'
      BY <1>0, <2>0, <3>7, <3>8
      DEF TimesAreKnown, StartsAreKnown, UpdatesAreAccepted, Overtaken, Known, mapVars
    <3> QED
      BY <3>6, <3>7, <3>9 DEF EventInv
  <2>2. CASE Sync(t, [sync[t] EXCEPT !.at = "update"]) /\ UNCHANGED updateCh
    <3>1. EventTypeOK' /\ WorkersHaveTerms'
      BY <1>0, <2>0, <2>2 DEF Sync, EventTypeOK, WorkersHaveTerms, mapVars, Copy
    <3>2. \A u \in Terms : HasCopy(u)' => SameCopy(u)
      BY <1>0, <2>0, <2>2 DEF Sync, HasCopy, SameCopy, EventTypeOK, Copy
    <3> QED
      BY <1>a, <2>0, <2>2, <3>1, <3>2 DEF EventInv
  <2> QED
    BY <1>8, <2>1, <2>2 DEF pollConfigLoop
<1>9. ASSUME NEW t \in Terms, updateConfigMap(t) PROVE EventInv'
  <2>0. /\ HasCopy(t) /\ sync[t] \in Copy /\ sync[t].rv \in 1..Len(past) /\ past[sync[t].rv] <= sync[t].ts
        /\ sync[t].ts % TicksPerSecond = 0 /\ Known(sync[t].ts)
        /\ sync[t].ts \in Nat /\ sync[t].rv \in Nat
        /\ UNCHANGED <<now, events, isLeader, lastEventTime, updateCh, worker, accepted, skipped, reset, terms>>
    BY <1>0, <1>9 DEF updateConfigMap, HasCopy, EventTypeOK, history, electorVars, procVars,
                      CopiesAreNotBehind, WholeSeconds, TimesAreKnown, SavedAreKnown, Copy
  <2>a. reset <= reset'
    <3>1. reset \in Nat
      BY <1>0 DEF EventTypeOK
    <3> QED
      BY <2>0, <3>1
  <2>1. ASSUME NEW ts \in Nat, NEW rv \in Nat, sync' = [sync EXCEPT ![t] = Fresh(ts, rv)],
               configMap' \in [ts : Nat \cup {None}, rv : Nat], past' \in Seq(Nat)
        PROVE  EventTypeOK' /\ WorkersHaveTerms'
    BY <1>0, <2>0, <2>1 DEF Fresh, EventTypeOK, WorkersHaveTerms, Copy
  <2>2. ASSUME NEW ts \in Nat, NEW rv \in 1..Len(past), sync' = [sync EXCEPT ![t] = Fresh(ts, rv)],
               sameMap, past[rv] <= ts, ts % TicksPerSecond = 0, Known(ts)
        PROVE  EventInv'
    <3>0. /\ rv \in Nat /\ configMap' \in [ts : Nat \cup {None}, rv : Nat] /\ past' \in Seq(Nat)
      BY <1>0, <2>2 DEF EventTypeOK, mapVars
    <3>1. EventTypeOK' /\ WorkersHaveTerms'
      BY <2>1, <2>2, <3>0
    <3>2. Fresh(ts, rv) \in Copy /\ Fresh(ts, rv).ts = ts /\ Fresh(ts, rv).rv = rv
      BY DEF Fresh, Copy
    <3>3. /\ MapIsLast' /\ CopiesAreNotBehind' /\ WholeSeconds'
          /\ SavedAreKnown'
      BY <1>b, <2>0, <2>a, <2>2, <3>1, <3>2
    <3>4. TimesAreKnown' /\ Overtaken'
      BY <1>0, <2>0, <2>2, <3>3
      DEF TimesAreKnown, StartsAreKnown, UpdatesAreAccepted, Overtaken, Known, mapVars
    <3> QED
      BY <3>1, <3>3, <3>4 DEF EventInv
  <2>3. CASE Save(sync[t].ts) /\ Sync(t, Fresh(sync[t].ts, configMap.rv + 1))
    <3>0. /\ configMap.rv + 1 \in Nat /\ configMap' \in [ts : Nat \cup {None}, rv : Nat]
          /\ past' \in Seq(Nat)
      <4>1. configMap.rv \in Nat /\ past \in Seq(Nat)
        BY <1>0 DEF EventTypeOK
      <4>2. configMap' = [ts |-> sync[t].ts, rv |-> configMap.rv + 1] /\ past' = Append(past, sync[t].ts)
        BY <2>3 DEF Save
      <4> QED
        BY <2>0, <4>1, <4>2
    <3>1. EventTypeOK' /\ WorkersHaveTerms'
      BY <2>0, <2>1, <2>3, <3>0 DEF Sync
    <3>2. /\ MapIsLast' /\ CopiesAreNotBehind' /\ WholeSeconds'
          /\ SavedAreKnown'
          /\ past' # <<>> /\ (past # <<>> => past'[1] = past[1])
      BY <1>c, <2>0, <2>a, <2>3, <3>1 DEF Sync
    <3>3. TimesAreKnown' /\ Overtaken'
      BY <1>0, <2>0, <3>2 DEF TimesAreKnown, StartsAreKnown, UpdatesAreAccepted, Overtaken, Known
    <3> QED
      BY <3>1, <3>2, <3>3 DEF EventInv
  <2>4. CASE Sync(t, Fresh(configMap.ts, configMap.rv)) /\ sameMap
    <3>1. /\ configMap.ts \in Nat /\ configMap.rv \in 1..Len(past) /\ past[configMap.rv] <= configMap.ts
          /\ configMap.ts % TicksPerSecond = 0 /\ Known(configMap.ts)
      BY <1>0, <2>0 DEF MapIsLast, EventTypeOK, WholeSeconds, TimesAreKnown, SavedAreKnown
    <3> QED
      BY <2>2, <2>4, <3>1 DEF Sync
  <2>5. CASE Sync(t, Fresh(sync[t].ts, sync[t].rv)) /\ sameMap
    BY <2>0, <2>2, <2>5 DEF Sync
  <2> QED
    BY <1>9, <2>3, <2>4, <2>5 DEF updateConfigMap
<1>10. ASSUME NEW t \in Terms, finalize(t) PROVE EventInv'
  BY <1>6, <1>10 DEF finalize, history
<1>11. ASSUME NEW t \in Terms, handleEvent(t) PROVE EventInv'
  <2> DEFINE p == run[t].proc
  <2>0. /\ p \in Procs /\ t <= terms /\ worker[t] \in Worker /\ worker[t].at = "idle"
        /\ UNCHANGED <<terms, now, events, isLeader, lastEventTime, updateCh, sync, accepted, reset>> /\ sameMap
    BY <1>0, <1>11 DEF handleEvent, electorVars, procVars, EventTypeOK, WorkersHaveTerms
  <2>1. PICK e \in DOMAIN events \ worker[t].seen :
          \/ /\ worker' = [worker EXCEPT ![t].seen = @ \cup {e}]
             /\ skipped' = IF isLeader[p] /\ BeforeRestart(p, events[e]) THEN Later(skipped, events[e]) ELSE skipped
          \/ /\ worker' = [worker EXCEPT ![t] = [at |-> "update", event |-> e, seen |-> @.seen \cup {e}]]
             /\ UNCHANGED skipped
    BY <1>11 DEF handleEvent
  <2>2. e \in 1..Len(events) /\ e \in Nat /\ events[e] \in Nat
    BY <1>0 DEF EventTypeOK
  <2>3. worker' \in [Terms -> Worker] /\ WorkersHaveTerms'
    <3>1. CASE worker' = [worker EXCEPT ![t].seen = @ \cup {e}]
      BY <1>0, <2>0, <2>2, <3>1 DEF EventTypeOK, Worker, WorkersHaveTerms
    <3>2. CASE worker' = [worker EXCEPT ![t] = [at |-> "update", event |-> e, seen |-> @.seen \cup {e}]]
      BY <1>0, <2>0, <2>2, <3>2 DEF EventTypeOK, Worker, WorkersHaveTerms
    <3> QED
      BY <2>1, <3>1, <3>2
  <2>4. skipped' = skipped \/ (skipped' = events[e] /\ events[e] < lastEventTime[p])
    BY <1>0, <2>0, <2>1 DEF BeforeRestart, Later, EventTypeOK
  <2>5. EventTypeOK'
    BY <1>0, <2>0, <2>2, <2>3, <2>4 DEF EventTypeOK, mapVars
  <2>6. MapIsLast' /\ CopiesAreNotBehind' /\ WholeSeconds'
    BY <2>0, CopiesKept DEF HasCopy, SameCopy
  <2>7. TimesAreKnown'
    BY <1>0, <2>0
    DEF TimesAreKnown, SavedAreKnown, StartsAreKnown, UpdatesAreAccepted, Known, HasCopy, mapVars
  <2>8. Overtaken'
    <3>1. Known(lastEventTime[p]) /\ lastEventTime[p] \in Nat /\ accepted \in Nat /\ reset \in Nat
      BY <1>0, <2>0 DEF TimesAreKnown, StartsAreKnown, UpdatesAreAccepted, EventTypeOK
    <3>a. past \in Seq(Nat)
      BY <1>0 DEF EventTypeOK
    <3>2. past # <<>> => past[1] \in Nat
      BY <3>a
    <3> QED
      BY <1>0, <2>0, <2>2, <2>4, <3>1, <3>2 DEF Overtaken, Known, mapVars
  <2> QED
    BY <2>3, <2>5, <2>6, <2>7, <2>8 DEF EventInv
<1>12. ASSUME NEW t \in Terms, sendUpdate(t) PROVE EventInv'
  <2> DEFINE p == run[t].proc
             time == events[worker[t].event]
  <2>0. /\ p \in Procs /\ t <= terms /\ worker[t] \in Worker /\ time \in Nat
        /\ UNCHANGED <<terms, now, events, isLeader, lastEventTime, sync, skipped, reset>> /\ sameMap
        /\ updateCh' = [updateCh EXCEPT ![p] = Append(@, time)]
        /\ accepted' = Later(accepted, time)
        /\ worker' = [worker EXCEPT ![t] = [at |-> "idle", event |-> 0, seen |-> worker[t].seen]]
    <3>1. worker[t].at = "update" /\ worker[t] \in Worker
      BY <1>0, <1>12 DEF sendUpdate, EventTypeOK
    <3>a. t <= terms /\ worker[t].event \in 1..Len(events) /\ events \in Seq(Nat)
      BY <1>0, <3>1 DEF EventTypeOK, WorkersHaveTerms
    <3>2. p \in Procs /\ t <= terms /\ time \in Nat
      BY <1>0, <3>a
    <3> QED
      BY <1>12, <3>1, <3>2 DEF sendUpdate, electorVars
  <2> HIDE DEF time
  <2>1. worker' \in [Terms -> Worker] /\ WorkersHaveTerms'
    <3>1. [at |-> "idle", event |-> 0, seen |-> worker[t].seen] \in Worker
      BY <2>0 DEF Worker
    <3>2. worker' \in [Terms -> Worker]
      BY <1>0, <2>0, <3>1 DEF EventTypeOK
    <3>3. \A u \in Terms : worker'[u] = worker[u] \/ (u = t /\ worker'[u].at = "idle")
      BY <1>0, <2>0 DEF EventTypeOK
    <3> QED
      BY <1>0, <2>0, <3>2, <3>3 DEF WorkersHaveTerms
  <2>2. accepted' \in Nat /\ accepted <= accepted' /\ time <= accepted'
    <3>1. accepted \in Nat /\ time \in Nat /\ accepted' = Later(accepted, time)
      BY <1>0, <2>0 DEF EventTypeOK
    <3> QED
      BY <3>1 DEF Later
  <2>3. EventTypeOK'
    <3>1. updateCh' \in [Procs -> Seq(Nat)]
      BY <1>0, <2>0 DEF EventTypeOK
    <3> QED
      BY <1>0, <2>0, <2>1, <2>2, <3>1 DEF EventTypeOK, mapVars
  <2>4. MapIsLast' /\ CopiesAreNotBehind' /\ WholeSeconds'
    BY <2>0, CopiesKept DEF HasCopy, SameCopy
  <2>5. ASSUME NEW x \in Nat, Known(x) PROVE Known(x)'
    <3>1. reset \in Nat
      BY <1>0 DEF EventTypeOK
    <3>2. reset <= reset' /\ past' = past
      BY <2>0, <3>1 DEF mapVars
    <3> QED
      BY <1>0, <2>2, <2>3, <2>5, <3>2, KnownStays
  <2>6. UpdatesAreAccepted'
    <3> SUFFICES ASSUME NEW q \in Procs, NEW i \in 1..Len(updateCh'[q])
                 PROVE  updateCh'[q][i] <= accepted'
      BY DEF UpdatesAreAccepted
    <3>1. updateCh[q] \in Seq(Nat)
      BY <1>0 DEF EventTypeOK
    <3>2. CASE i \in 1..Len(updateCh[q]) /\ updateCh'[q][i] = updateCh[q][i]
      <4>1. updateCh[q][i] <= accepted
        BY <1>0, <3>2 DEF TimesAreKnown, UpdatesAreAccepted
      <4>2. updateCh[q][i] \in Nat /\ accepted \in Nat
        BY <1>0, <3>1, <3>2 DEF EventTypeOK
      <4> QED
        BY <2>2, <3>2, <4>1, <4>2
    <3>3. CASE updateCh'[q][i] = time
      BY <2>2, <3>3
    <3>4. updateCh'[q] = IF q = p THEN Append(updateCh[q], time) ELSE updateCh[q]
      BY <1>0, <2>0 DEF EventTypeOK
    <3>5. (i \in 1..Len(updateCh[q]) /\ updateCh'[q][i] = updateCh[q][i]) \/ updateCh'[q][i] = time
      BY <2>0, <3>1, <3>4, AppendElements
    <3> QED
      BY <3>2, <3>3, <3>5
  <2>7. TimesAreKnown'
    <3>1. \A u \in Terms : sync'[u] = sync[u] /\ sync[u].ts \in Nat
      BY <1>0, <2>0 DEF EventTypeOK, Copy
    <3>2. (\A i \in 1..Len(past) : Known(past[i]))'
      <4>1. past' = past
        BY <2>0 DEF mapVars
      <4>2. accepted \in Nat /\ past \in Seq(Nat)
        BY <1>0 DEF EventTypeOK
      <4> SUFFICES ASSUME NEW i \in 1..Len(past') PROVE Known(past[i])'
        BY DEF Known
      <4>3. past[i] \in Nat
        BY <4>1, <4>2
      <4>4. Known(past[i])
        BY <1>0, <4>1 DEF TimesAreKnown, SavedAreKnown
      <4> QED
        BY <2>5, <4>1, <4>3, <4>4 DEF Known
    <3>3. (\A u \in Terms : HasCopy(u) => Known(sync[u].ts))'
      BY <1>0, <2>5, <3>1 DEF TimesAreKnown, SavedAreKnown, Known, HasCopy
    <3>4. StartsAreKnown'
      BY <1>0, <2>0, <2>5 DEF TimesAreKnown, StartsAreKnown, Known, EventTypeOK
    <3> QED
      BY <2>6, <3>2, <3>3, <3>4 DEF TimesAreKnown, SavedAreKnown
  <2>8. Overtaken'
    BY <1>0, <2>0, <2>2 DEF Overtaken, mapVars, EventTypeOK
  <2> QED
    BY <2>1, <2>3, <2>4, <2>7, <2>8 DEF EventInv
<1>13. CASE UNCHANGED vars
  BY <1>3, <1>13 DEF vars, eventVars
<1> QED
  <2>1. ASSUME NEW p \in Procs, Elect(p) \/ LoseLease(p) PROVE EventInv'
    BY <1>3, <2>1 DEF Elect, LoseLease
  <2> QED
    BY <1>1, <1>2, <1>4, <1>5, <1>7, <1>8, <1>9, <1>10, <1>11, <1>12, <1>13, <2>1 DEF Next, TermStep

\* The elector and the controller keep their invariants together.
LEMMA InvStep == ElectorInv /\ EventInv /\ [Next]_vars => ElectorInv' /\ EventInv'
<1> SUFFICES ASSUME ElectorInv, EventInv, [Next]_vars PROVE ElectorInv' /\ EventInv'
  OBVIOUS
<1>1. [ElectorNext]_electorVars
  BY StepOfElector DEF vars, electorVars
<1> QED
  BY <1>1, ElectorStepInv, EventStepInv

\* The inductive invariant of the elector and the event controller.
THEOREM ControllerInvariant == Spec => [](ElectorInv /\ EventInv)
<1>1. Init => ElectorInv /\ EventInv
  BY ElectorInitInv, EventInitInv DEF Init
<1> QED
  BY <1>1, InvStep, PTL DEF Spec

\* Of the terms whose context is live, no two are for the same slot, for every
\* number of processes and leases (multileader.Elector.Run, spinOnce).
THEOREM LeaderIsUnique == Spec => []OneLeaderPerSlot
<1>1. ElectorInv => OneLeaderPerSlot
  BY DEF ElectorInv, LiveIsCurrent, HeldIsLeased, OneLeaderPerSlot
<1> QED
  BY <1>1, ControllerInvariant, PTL

\* An event is skipped as before the restart only when a later one had been
\* accepted, or the first config map or a reset of a time that does not parse is
\* later (handleEvent, syncConfigMap, pollConfigLoop).
THEOREM SkippedAreOvertaken == Spec => []SkippedWereOvertaken
<1>1. EventInv => SkippedWereOvertaken
  BY DEF EventInv, Overtaken, SkippedWereOvertaken
<1> QED
  BY <1>1, ControllerInvariant, PTL

\* A step that writes the config map writes a time that is not earlier.
LEMMA SavedStep ==
  ASSUME EventInv, Next, configMap.ts # None
  PROVE  configMap'.ts >= configMap.ts
<1>0. /\ configMap.ts \in Nat /\ past # <<>> /\ configMap.rv = Len(past)
      /\ configMap.ts = past[Len(past)] /\ configMap.ts >= configMap.ts
  BY DEF EventInv, EventTypeOK, MapIsLast
<1>1. ASSUME NEW t \in Terms, updateConfigMap(t) PROVE configMap'.ts >= configMap.ts
  <2>1. CASE sync[t].rv = configMap.rv /\ Save(sync[t].ts)
    <3>1. configMap.ts <= sync[t].ts /\ sync[t].ts \in Nat
      BY <1>0, <1>1, <2>1 DEF EventInv, EventTypeOK, CopiesAreNotBehind, HasCopy, updateConfigMap, Copy
    <3> QED
      BY <1>0, <2>1, <3>1 DEF Save
  <2> QED
    BY <1>0, <1>1, <2>1 DEF updateConfigMap, mapVars
<1>2. ASSUME NEW t \in Terms, getConfigMap(t) PROVE configMap'.ts >= configMap.ts
  BY <1>0, <1>2 DEF getConfigMap, mapVars
<1>3. UNCHANGED configMap => configMap'.ts >= configMap.ts
  BY <1>0
<1>4. (\A t \in Terms : ~updateConfigMap(t) /\ ~getConfigMap(t)) => UNCHANGED configMap
  BY DEF Next, Tick, Happens, Elect, LoseLease, RestartProcess, TermStep, runLeader, pollConfigLoop,
         finalize, handleEvent, sendUpdate, mapVars, eventVars
<1> QED
  BY <1>1, <1>2, <1>3, <1>4

\* The saved time never moves back, whichever processes write it in whichever
\* order with copies of whichever age (updater, updateConfigMap).
THEOREM SavedTimeIsMonotonic == Spec => SavedNeverDecreases
<1>1. EventInv /\ [Next]_vars => [configMap.ts # None => configMap'.ts >= configMap.ts]_configMap
  BY SavedStep DEF vars, mapVars
<1> QED
  BY <1>1, ControllerInvariant, PTL DEF Spec, SavedNeverDecreases
=============================================================================
