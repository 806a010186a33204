----------------------------- MODULE MCSemaphore ----------------------------
\* Instances of the semaphore for TLC.
EXTENDS Semaphore

\* No limit, no room for any task, one task at a time, two at a time.
MCLimits == {-1, 0, 1, 2}
=============================================================================
