------------------------------- MODULE Deque --------------------------------
(***************************************************************************)
(* channel.Deque: a queue in a ring buffer that doubles when it is full.   *)
(* A deque is a record; cap is len(data).  Every operation runs under the  *)
(* lock of the deque, so each is one operator on the record.               *)
(***************************************************************************)
EXTENDS Integers, Sequences

CONSTANT Items    \* what is queued: natural numbers other than zero[T]()

ASSUME ItemsAssumption == Items \subseteq Nat \ {0}

Zero == 0

NewDeque(n) ==
  [data |-> [i \in 0..(n - 1) |-> Zero], cap |-> n, start |-> 0, end |-> 0, maxLength |-> 0]

IsEmpty(q) == q.start = q.end

lockedLen(q) ==
  LET delta == q.end - q.start IN IF delta < 0 THEN delta + q.cap ELSE delta

\* LockedPeekFront and LockedPopFront, of a deque that is not empty.
PeekFront(q) == q.data[q.start]

PopFront(q) ==
  [data |-> [q.data EXCEPT ![q.start] = Zero], cap |-> q.cap,
   start |-> (q.start + 1) % q.cap, end |-> q.end, maxLength |-> q.maxLength]

\* The full buffer, whose start and end have met, copied to one twice as large.
Expand_notRotated(q) ==
  [data |-> [i \in 0..(2 * q.cap - 1) |-> IF i < q.cap THEN q.data[i] ELSE Zero],
   cap |-> 2 * q.cap, start |-> 0, end |-> q.cap, maxLength |-> q.maxLength]

Expand(q) ==
  LET leftOffset == q.cap - q.start IN
  [data |-> [i \in 0..(2 * q.cap - 1) |->
               IF i < leftOffset THEN q.data[q.start + i]
               ELSE IF i < leftOffset + q.end THEN q.data[i - leftOffset]
               ELSE Zero],
   cap |-> 2 * q.cap, start |-> 0, end |-> q.cap, maxLength |-> q.maxLength]

\* The item in place and end advanced; start and end meet if that filled the buffer.
Put(q, x) ==
  [data |-> [q.data EXCEPT ![q.end] = x], cap |-> q.cap,
   start |-> q.start, end |-> (q.end + 1) % q.cap, maxLength |-> q.maxLength]

Longest(q) ==
  [data |-> q.data, cap |-> q.cap, start |-> q.start, end |-> q.end,
   maxLength |-> IF lockedLen(q) > q.maxLength THEN lockedLen(q) ELSE q.maxLength]

PushBack(q, x) ==
  LET p == Put(q, x) IN Longest(IF IsEmpty(p) THEN Expand(p) ELSE p)

\* What GetAndResetLength leaves behind.
ResetLength(q) ==
  [data |-> q.data, cap |-> q.cap, start |-> q.start, end |-> q.end, maxLength |-> 0]

\* LockedGetAll: the slice from start to end, or the two it wraps into.
Slice(q, i, j) == [n \in 1..(j - i) |-> q.data[i + n - 1]]
LockedGetAll(q) ==
  IF q.end < q.start THEN Slice(q, q.start, q.cap) \o Slice(q, 0, q.end)
  ELSE Slice(q, q.start, q.end)

-----------------------------------------------------------------------------
\* The slot of the n-th item from the front, counting from 0.
Slot(q, n) == IF q.start + n < q.cap THEN q.start + n ELSE q.start + n - q.cap
At(q, n) == q.data[Slot(q, n)]

\* A deque between two operations: start and end are slots of the buffer, and
\* the buffer is not full, so that start = end means empty.
Indices(q) ==
  /\ q.cap \in Nat \ {0}
  /\ q.start \in 0..(q.cap - 1)
  /\ q.end \in 0..(q.cap - 1)

Sound(q) ==
  /\ Indices(q)
  /\ q.data \in [0..(q.cap - 1) -> Items \cup {Zero}]
  /\ q.maxLength \in Nat

\* The slots that hold an item are exactly those of the queue.
Cleared(q) ==
  \A i \in 0..(q.cap - 1) :
    q.data[i] # Zero <=> IF q.start <= q.end THEN q.start <= i /\ i < q.end
                         ELSE q.start <= i \/ i < q.end
=============================================================================
