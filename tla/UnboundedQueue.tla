--------------------------- MODULE UnboundedQueue ---------------------------
(***************************************************************************)
(* channel.UnboundedQueue: senders push to a deque and leave a signal in a *)
(* channel of capacity one; the goroutine of receiverLoop pops the deque   *)
(* and hands the items over on an unbuffered channel.  The link job queue, *)
(* the audit queues and the task pool of the diff controller are made of   *)
(* it.                                                                     *)
(***************************************************************************)
EXTENDS Deque

CONSTANTS
  Senders,           \* goroutines that call Send
  InitialCapacity,
  MaxSends           \* bound: calls of Send

ASSUME QueueAssumption ==
  /\ InitialCapacity \in Nat \ {0}
  /\ MaxSends \in Nat

VARIABLES
  deque,
  notifier,          \* whether the notifier channel holds its signal
  loop,              \* where receiverLoop is
  item,              \* the item it has popped
  cancelled,         \* whether Close has been called
  sender,            \* sender[s]: "notify" between PushBack and the signal
  sent, received     \* history: what was sent, and what was received

queueVars == <<deque, notifier, loop, item, cancelled, sender, sent, received>>

QueueInit ==
  /\ deque = NewDeque(InitialCapacity)
  /\ notifier = FALSE
  /\ loop = "pop"
  /\ item = Zero
  /\ cancelled = FALSE
  /\ sender = [s \in Senders |-> "idle"]
  /\ sent = <<>>
  /\ received = <<>>

-----------------------------------------------------------------------------
Send(s, x) ==
  /\ sender[s] = "idle"
  /\ Len(sent) < MaxSends
  /\ deque' = PushBack(deque, x)
  /\ sent' = Append(sent, x)
  /\ sender' = [sender EXCEPT ![s] = "notify"]
  /\ UNCHANGED <<notifier, loop, item, cancelled, received>>

\* A notifier without buffer: the signal only gets through when the loop has
\* already come to its select.
Notify_unbuffered(s) ==
  /\ sender[s] = "notify"
  /\ notifier' \in {notifier, notifier \/ loop = "wait"}
  /\ sender' = [sender EXCEPT ![s] = "idle"]
  /\ UNCHANGED <<deque, loop, item, cancelled, sent, received>>

\* The rest of Send: leave a signal unless there is one.
Notify(s) ==
  /\ sender[s] = "notify"
  /\ notifier' = TRUE
  /\ sender' = [sender EXCEPT ![s] = "idle"]
  /\ UNCHANGED <<deque, loop, item, cancelled, sent, received>>

\* GetAndResetLength, by the metric loop.
Sample ==
  /\ deque' = ResetLength(deque)
  /\ UNCHANGED <<notifier, loop, item, cancelled, sender, sent, received>>

\* uq.Close
Close ==
  /\ ~cancelled
  /\ cancelled' = TRUE
  /\ UNCHANGED <<deque, notifier, loop, item, sender, sent, received>>

-----------------------------------------------------------------------------
\* receiverLoop.
Pop ==
  /\ loop = "pop"
  /\ \/ /\ IsEmpty(deque)
        /\ loop' = "wait"
        /\ UNCHANGED <<deque, item>>
     \/ /\ ~IsEmpty(deque)
        /\ item' = PeekFront(deque)
        /\ deque' = PopFront(deque)
        /\ loop' = "deliver"
  /\ UNCHANGED <<notifier, cancelled, sender, sent, received>>

\* A consumer takes the item from the unbuffered receiver channel.
Deliver_waits ==
  /\ loop = "deliver"
  /\ received' = Append(received, item)
  /\ item' = Zero
  /\ loop' = "wait"
  /\ UNCHANGED <<deque, notifier, cancelled, sender, sent>>

Deliver ==
  /\ loop = "deliver"
  /\ received' = Append(received, item)
  /\ item' = Zero
  /\ loop' = "pop"
  /\ UNCHANGED <<deque, notifier, cancelled, sender, sent>>

Wake ==
  /\ loop = "wait"
  /\ notifier
  /\ notifier' = FALSE
  /\ loop' = "pop"
  /\ UNCHANGED <<deque, item, cancelled, sender, sent, received>>

\* ctx.Done: the receiver channel is closed and a popped item is dropped.
Stop ==
  /\ loop \in {"deliver", "wait"}
  /\ cancelled
  /\ loop' = "closed"
  /\ item' = Zero
  /\ UNCHANGED <<deque, notifier, cancelled, sender, sent, received>>

LoopStep == Pop \/ Deliver \/ Wake \/ Stop

QueueNext ==
  \/ \E s \in Senders : (\E x \in Items : Send(s, x)) \/ Notify(s)
  \/ LoopStep
  \/ Sample
  \/ Close

QueueSpec == QueueInit /\ [][QueueNext]_queueVars

\* The goroutines run, and the consumer of the queue keeps receiving.
QueueFairness ==
  /\ WF_queueVars(LoopStep)
  /\ \A s \in Senders : WF_queueVars(Notify(s))

QueueFairSpec == QueueSpec /\ QueueFairness

-----------------------------------------------------------------------------
\* Types of the state of the queue.
QueueTypeOK ==
  /\ Sound(deque)
  /\ notifier \in BOOLEAN
  /\ loop \in {"pop", "deliver", "wait", "closed"}
  /\ item \in Items \cup {Zero}
  /\ cancelled \in BOOLEAN
  /\ sender \in [Senders -> {"idle", "notify"}]
  /\ sent \in Seq(Items)
  /\ received \in Seq(Items)

\* What has been popped and not been delivered.
held == IF loop = "deliver" THEN 1 ELSE 0

\* Through every expansion and wrap of the ring buffer, what was received, what
\* the loop holds and what LockedGetAll returns are together what was sent, in
\* order: nothing is lost, duplicated or overtaken.
NothingLost ==
  loop # "closed" =>
    received \o (IF loop = "deliver" THEN <<item>> ELSE <<>>) \o LockedGetAll(deque) = sent

\* The same by position, and for the closed queue, which may have dropped what
\* it did not deliver: the inductive form.
PendingInOrder ==
  /\ Len(received) <= Len(sent)
  /\ \A n \in 1..Len(received) : received[n] = sent[n]
  /\ loop = "deliver" => Len(received) < Len(sent) /\ item = sent[Len(received) + 1]
  /\ loop # "closed" =>
       /\ Len(sent) = Len(received) + held + lockedLen(deque)
       /\ \A n \in 0..(lockedLen(deque) - 1) : At(deque, n) = sent[Len(received) + held + n + 1]

\* receiverLoop never sleeps on a deque that is not empty: either the signal is
\* there, or a sender is about to leave it.
NoLostWakeup ==
  loop = "wait" /\ ~IsEmpty(deque) => notifier \/ \E s \in Senders : sender[s] = "notify"

\* A slot outside the queue holds no pointer that would keep garbage alive.
FreedSlotsCleared == Cleared(deque)

\* The queue behaves as an unbounded channel.
Channel == INSTANCE UnboundedChannel WITH closed <- (loop = "closed")
ImplementsChannel == Channel!Spec

\* As long as the queue is not closed, every item sent reaches a consumer that
\* keeps receiving, although signals are merged in a channel of capacity one.
EverythingArrives ==
  \A n \in 1..MaxSends : Len(sent) >= n ~> (Len(received) >= n \/ cancelled)

\* A closed queue lets its consumers go: receiverLoop closes the receiver.
CloseEndsLoop == cancelled ~> loop = "closed"
=============================================================================
