--------------------------- MODULE MCDiffPipeline ---------------------------
\* Instances of the diff pipeline for TLC.
EXTENDS DiffPipeline

\* The processes are the same program.
Symmetry == Permutations(Procs)

\* Before the first tick: relists, refused writes, a backlog and every version,
\* as what the decorator gets does not depend on the time.  After it: an update
\* and the deletion, with vacancies of up to two leases in which a kept patch may
\* expire and be driven out.
Bounds ==
  now = 0 \/ (object.rv <= 2 /\ relists = 0 /\ failed = {} /\ \A p \in Procs : Len(tasks[p]) <= 1)

MCNext == PipelineNext /\ Bounds'

MCSpec == PipelineInit /\ [][MCNext]_pipelineVars
=============================================================================
