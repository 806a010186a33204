---------------------------- MODULE MCAggregator ----------------------------
\* Instances of the aggregator for TLC.
EXTENDS Aggregator

\* Windows of two seconds, two ticks to the second: the first and the last tick
\* of a window and the first of the next.
MCTimes == {0, 3, 4}
MCKeys == Objects \X (0..1)
=============================================================================
