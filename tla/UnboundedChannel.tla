-------------------------- MODULE UnboundedChannel --------------------------
(***************************************************************************)
(* What UnboundedQueue promises: a channel of unbounded capacity that      *)
(* delivers what was sent, in the order it was sent, until it is closed.   *)
(***************************************************************************)
EXTENDS Naturals, Sequences

CONSTANT Items

VARIABLES
  sent,        \* what Send was called with, in the order of the calls
  received,    \* what came out of Receiver()
  closed       \* whether the receiver channel has been closed

Init == sent = <<>> /\ received = <<>> /\ closed = FALSE

\* Sending always succeeds and never blocks, even after the channel is closed.
Send ==
  /\ \E x \in Items : sent' = Append(sent, x)
  /\ UNCHANGED <<received, closed>>

Receive ==
  /\ ~closed
  /\ Len(received) < Len(sent)
  /\ received' = Append(received, sent[Len(received) + 1])
  /\ UNCHANGED <<sent, closed>>

Close ==
  /\ closed' = TRUE
  /\ UNCHANGED <<sent, received>>

Next == Send \/ Receive \/ Close

Spec == Init /\ [][Next]_<<sent, received, closed>>
=============================================================================
