-------------------------- MODULE MCEventController -------------------------
\* Instances of the event controller for TLC.
EXTENDS EventController, TLC

\* The processes are the same program.
Symmetry == Permutations(Procs)
=============================================================================
