------------------------------ MODULE Semaphore -----------------------------
(***************************************************************************)
(* semaphore.Semaphore: a short-lived task pool.  Each scheduled task runs *)
(* in a goroutine of its own, at most limit of them at a time; Run hands   *)
(* their results over on the goroutine that called it and returns the      *)
(* first error.  Tasks and publish functions may schedule more tasks.      *)
(***************************************************************************)
EXTENDS Integers, FiniteSets

CONSTANTS
  Tasks,         \* the tasks that may be scheduled
  Limits,        \* limit arguments of New: -1 for unbounded, 0 for no room at all
  None           \* no error

ASSUME SemaphoreAssumption ==
  /\ IsFiniteSet(Tasks)
  /\ Limits \subseteq {-1} \cup Nat
  /\ None \notin Tasks

VARIABLES
  limit,         \* limit argument of New
  pc,            \* pc[t]: where the goroutine of task t is
  wg,            \* doneWg
  limitCh,       \* number of signals in limitCh
  errCh,         \* the error in errCh (the task it is of), or None
  errNotify,     \* whether errNotifyCh is closed
  main,          \* where Run is
  publishing,    \* the task whose publish function Run is executing, or None
  doneCh,        \* whether doneCh is closed
  ctxDone,       \* whether the context of the caller is cancelled
  ret,           \* what Run returned: "nil", "error", "ctx" or "running"
  failed,        \* history: tasks that returned an error
  produced,      \* history: tasks that returned a publish function
  published      \* history: tasks whose publish function has run

history == <<failed, produced, published>>
semVars == <<limit, pc, wg, limitCh, errCh, errNotify, main, publishing, doneCh, ctxDone, ret,
          history>>

PCs == {"none", "init", "acquire", "check", "run", "publish", "exit", "release", "ended"}

SemInit ==
  /\ limit \in Limits
  /\ pc = [t \in Tasks |-> "none"]
  /\ wg = 0
  /\ limitCh = 0
  /\ errCh = None
  /\ errNotify = FALSE
  /\ main = "before"
  /\ publishing = None
  /\ doneCh = FALSE
  /\ ctxDone = FALSE
  /\ ret = "running"
  /\ failed = {}
  /\ produced = {}
  /\ published = {}

Goto(t, label) == pc' = [pc EXCEPT ![t] = label]

-----------------------------------------------------------------------------
\* Schedule, by the caller before Run, by a running task or by a publish
\* function.
Schedule(t) ==
  /\ pc[t] = "none"
  /\ \/ main = "before"
     \/ main = "publish"
     \/ \E u \in Tasks : pc[u] = "run"
  /\ wg' = wg + 1
  /\ Goto(t, "init")
  /\ UNCHANGED <<limit, limitCh, errCh, errNotify, main, publishing, doneCh, ctxDone,
                 ret, history>>

\* The goroutine of a task has waited for initCtxCh.
Begin(t) ==
  /\ pc[t] = "init"
  /\ main # "before"
  /\ Goto(t, IF limit = -1 THEN "check" ELSE "acquire")
  /\ UNCHANGED <<limit, wg, limitCh, errCh, errNotify, main, publishing, doneCh, ctxDone,
                 ret, history>>

\* The select on errNotifyCh and limitCh.
Acquire(t) ==
  /\ pc[t] = "acquire"
  /\ \/ errNotify /\ Goto(t, "ended") /\ wg' = wg - 1 /\ UNCHANGED limitCh
     \/ limitCh < limit /\ Goto(t, "check") /\ limitCh' = limitCh + 1 /\ UNCHANGED wg
  /\ UNCHANGED <<limit, errCh, errNotify, main, publishing, doneCh, ctxDone, ret, history>>

Check(t) ==
  /\ pc[t] = "check"
  /\ Goto(t, IF errNotify THEN "release" ELSE "run")
  /\ UNCHANGED <<limit, wg, limitCh, errCh, errNotify, main, publishing, doneCh, ctxDone,
                 ret, history>>

TaskReturns_notCounted(t) ==
  /\ pc[t] = "run"
  /\ Goto(t, "publish")
  /\ produced' = produced \cup {t}
  /\ UNCHANGED <<limit, wg, limitCh, errCh, errNotify, main, publishing, doneCh, ctxDone, ret,
                 failed, published>>

\* The task returns a publish function, no publish function, or an error,
\* which is left in errCh if there is room.
TaskReturns(t) ==
  /\ pc[t] = "run"
  /\ \/ /\ Goto(t, "publish")
        /\ wg' = wg + 1
        /\ produced' = produced \cup {t}
        /\ UNCHANGED <<errCh, failed>>
     \/ /\ Goto(t, "release")
        /\ UNCHANGED <<wg, errCh, failed, produced>>
     \/ /\ Goto(t, "release")
        /\ errCh' = IF errCh = None THEN t ELSE errCh
        /\ failed' = failed \cup {t}
        /\ UNCHANGED <<wg, produced>>
  /\ UNCHANGED <<limit, limitCh, errNotify, main, publishing, doneCh, ctxDone, ret, published>>

\* publishCh is not received any more because Run has returned.
PublishAborted(t) ==
  /\ pc[t] = "publish"
  /\ errNotify
  /\ wg' = wg - 1
  /\ Goto(t, "release")
  /\ UNCHANGED <<limit, limitCh, errCh, errNotify, main, publishing, doneCh, ctxDone,
                 ret, history>>

Release_kept(t) ==
  /\ pc[t] = "release"
  /\ Goto(t, "exit")
  /\ UNCHANGED <<limit, wg, limitCh, errCh, errNotify, main, publishing, doneCh, ctxDone,
                 ret, history>>

\* The deferred functions: receive from limitCh, then doneWg.Done.
Release(t) ==
  /\ pc[t] = "release"
  /\ limitCh' = IF limit = -1 THEN limitCh ELSE limitCh - 1
  /\ Goto(t, "exit")
  /\ UNCHANGED <<limit, wg, errCh, errNotify, main, publishing, doneCh, ctxDone, ret, history>>

Done(t) ==
  /\ pc[t] = "exit"
  /\ wg' = wg - 1
  /\ Goto(t, "ended")
  /\ UNCHANGED <<limit, limitCh, errCh, errNotify, main, publishing, doneCh, ctxDone,
                 ret, history>>

Worker(t) ==
  Begin(t) \/ Acquire(t) \/ Check(t) \/ TaskReturns(t) \/ PublishAborted(t) \/ Release(t) \/ Done(t)

-----------------------------------------------------------------------------
\* Run, up to its first select.
Run ==
  /\ main = "before"
  /\ main' = "select"
  /\ UNCHANGED <<limit, pc, wg, limitCh, errCh, errNotify, publishing, doneCh, ctxDone,
                 ret, history>>

\* The goroutine that waits for doneWg.
Wait ==
  /\ main # "before"
  /\ ~doneCh
  /\ wg = 0
  /\ doneCh' = TRUE
  /\ UNCHANGED <<limit, pc, wg, limitCh, errCh, errNotify, main, publishing, ctxDone,
                 ret, history>>

Return(r) == main' = "returned" /\ ret' = r

SelectDone ==
  /\ main = "select"
  /\ doneCh
  /\ Return("nil")
  /\ UNCHANGED <<limit, pc, wg, limitCh, errCh, errNotify, publishing, doneCh, ctxDone,
                 history>>

\* publishCh is unbuffered: the sender goes on to its deferred functions while
\* Run calls the publish function.
SelectPublish(t) ==
  /\ main = "select"
  /\ pc[t] = "publish"
  /\ Goto(t, "release")
  /\ main' = "publish"
  /\ publishing' = t
  /\ UNCHANGED <<limit, wg, limitCh, errCh, errNotify, doneCh, ctxDone, ret, history>>

\* The publish function returns, wrapped in doneWg.Done.
PublishReturns ==
  /\ main = "publish"
  /\ wg' = wg - 1
  /\ published' = published \cup {publishing}
  /\ publishing' = None
  /\ \/ main' = "select" /\ UNCHANGED <<errNotify, ret>>
     \/ errNotify' = TRUE /\ Return("error")
  /\ UNCHANGED <<limit, pc, limitCh, errCh, doneCh, ctxDone, failed, produced>>

SelectError_notNotified ==
  /\ main = "select"
  /\ errCh # None
  /\ errCh' = None
  /\ Return("error")
  /\ UNCHANGED <<limit, pc, wg, limitCh, errNotify, publishing, doneCh, ctxDone, history>>

SelectError ==
  /\ main = "select"
  /\ errCh # None
  /\ errCh' = None
  /\ errNotify' = TRUE
  /\ Return("error")
  /\ UNCHANGED <<limit, pc, wg, limitCh, publishing, doneCh, ctxDone, history>>

SelectCtx ==
  /\ main = "select"
  /\ ctxDone
  /\ errNotify' = TRUE
  /\ Return("ctx")
  /\ UNCHANGED <<limit, pc, wg, limitCh, errCh, publishing, doneCh, ctxDone, history>>

Cancel ==
  /\ ~ctxDone
  /\ ctxDone' = TRUE
  /\ UNCHANGED <<limit, pc, wg, limitCh, errCh, errNotify, main, publishing, doneCh, ret,
                 history>>

MainStep ==
  \/ SelectDone \/ PublishReturns \/ SelectError \/ SelectCtx
  \/ \E t \in Tasks : SelectPublish(t)

SemNext ==
  \/ \E t \in Tasks : Schedule(t) \/ Worker(t)
  \/ Run
  \/ MainStep
  \/ Wait
  \/ Cancel

SemSpec == SemInit /\ [][SemNext]_semVars

\* Goroutines run, tasks and publish functions return, and a goroutine waiting
\* to send to limitCh gets its turn (channels serve their waiters in order).
SemFairness ==
  /\ \A t \in Tasks : SF_semVars(Worker(t))
  /\ WF_semVars(MainStep)
  /\ WF_semVars(Wait)

SemFairSpec == SemSpec /\ SemFairness

-----------------------------------------------------------------------------
\* Types of the state of the semaphore.
SemTypeOK ==
  /\ limit \in Limits
  /\ pc \in [Tasks -> PCs]
  /\ wg \in Nat
  /\ limitCh \in Nat
  /\ errCh \in Tasks \cup {None}
  /\ errNotify \in BOOLEAN
  /\ main \in {"before", "select", "publish", "returned"}
  /\ publishing \in Tasks \cup {None}
  /\ doneCh \in BOOLEAN
  /\ ctxDone \in BOOLEAN
  /\ ret \in {"nil", "error", "ctx", "running"}
  /\ failed \subseteq Tasks
  /\ produced \subseteq Tasks
  /\ published \subseteq Tasks

Live == {t \in Tasks : pc[t] \notin {"none", "ended"}}

\* At most limit tasks are between acquiring and releasing.
LimitRespected ==
  limit # -1 => Cardinality({t \in Tasks : pc[t] \in {"check", "run", "publish", "release"}}) <= limit

\* doneWg counts the goroutines and the publish functions yet to run, so that
\* it reaches zero only when nothing is left that could schedule more.
WaitGroupCounts ==
  wg = Cardinality(Live) + Cardinality({t \in Tasks : pc[t] = "publish"})
         + (IF main = "publish" THEN 1 ELSE 0)

\* When Run returns nil every task has ended, every result it produced has been
\* published, and nothing is scheduled any more.
NilMeansComplete == ret = "nil" => Live = {} /\ produced = published

\* Run returns, however tasks, results and errors interleave.  With limit 0, which
\* New accepts, no send to limitCh ever succeeds (its only receivers are those who
\* have sent): then only a call with nothing to run, or whose context ends, returns.
RunReturns ==
  main = "select" /\ (limit = 0 => Live = {} \/ ctxDone) ~> main = "returned"

\* What callers of Run count on, whatever limit the flag of the reader or an
\* extension's maxConcurrency gives; limit 0 refutes it.
RunReturnsAtAnyLimit == main = "select" ~> main = "returned"

\* No goroutine outlives the semaphore: after Run has returned, those that wait
\* for a turn or to publish end too.
NoGoroutineLeaks == \A t \in Tasks : (main = "returned" /\ t \in Live) ~> pc[t] = "ended"

\* "Sent from worker goroutines, received by main goroutine to return the error
\* to caller": Run does not return nil when a task has failed.
ErrorReachesCaller == ret = "nil" => failed = {}
=============================================================================
