----------------------------- MODULE MCJobQueue -----------------------------
\* Small instances of the job queue for TLC.
EXTENDS JobQueue, TLC

CONSTANTS w1, w2

\* A studio build (one attempt) and Explorer or Content Architect jobs.
MCMaxAttempts == [j \in Jobs |-> IF j = 1 THEN 1 ELSE 2]

\* A Content Architect job: its start passes no max_attempts and gets three.
MCThreeAttempts == [j \in Jobs |-> 3]

WorkerSymmetry == Permutations({w1, w2})

=============================================================================
