---------------------------- MODULE JobLifecycle ----------------------------
(***************************************************************************)
(* What a durable background job promises to the rest of the application,  *)
(* with no worker, lease, heartbeat or lane in sight: a job moves along    *)
(* the transitions that jobs/contracts.py lists, is started at most its    *)
(* attempt ceiling of times, and a terminal job stays as it is.            *)
(***************************************************************************)
EXTENDS Naturals

CONSTANTS Jobs,         \* the rows background_jobs can hold
          MaxAttempts   \* the attempt ceiling of each row

VARIABLES stage,        \* the status of each job, "absent" before its row exists
          starts        \* how many times a worker has started each job

lifecycleVars == <<stage, starts>>

Stages == {"absent", "queued", "running", "succeeded", "failed", "cancelled"}

\* contracts.py lists failed -> queued too, for a manual requeue that no code
\* performs: the promise is the stronger one, that a terminal job has ended.
Transitions ==
    {<<"absent", "queued">>}
      \cup ({"queued"} \X {"running", "cancelled"})
      \cup ({"running"} \X {"queued", "succeeded", "failed", "cancelled"})

LifecycleInit ==
    /\ stage = [j \in Jobs |-> "absent"]
    /\ starts = [j \in Jobs |-> 0]

\* One job moves.  Starting it consumes an attempt, and a job goes back to
\* the queue only with an attempt left to be started again.
Moves(j) ==
    /\ <<stage[j], stage'[j]>> \in Transitions
    /\ stage'[j] = "queued" => starts'[j] < MaxAttempts[j]
    /\ \/ stage'[j] = "running" /\ starts'[j] = starts[j] + 1
                                /\ starts'[j] <= MaxAttempts[j]
       \/ stage'[j] # "running" /\ starts'[j] = starts[j]

Rests(j) == stage'[j] = stage[j] /\ starts'[j] = starts[j]

\* Jobs are independent: a step moves any number of them.
LifecycleNext ==
    /\ stage' \in [Jobs -> Stages]
    /\ starts' \in [Jobs -> Nat]
    /\ \A j \in Jobs : Moves(j) \/ Rests(j)

LifecycleSpec == LifecycleInit /\ [][LifecycleNext]_lifecycleVars

=============================================================================
