------------------------------ MODULE JobQueue ------------------------------
(***************************************************************************)
(* The durable job queue: rows of the background_jobs table, the worker    *)
(* processes that claim them under a lease, and the API that enqueues and  *)
(* cancels them (jobs/repository.py, jobs/service.py, jobs/worker.py).     *)
(*                                                                         *)
(* Each action is one committed transaction, or one step of a worker       *)
(* process between two of them.  Workers share nothing but the table, so   *)
(* a worker whose lease was taken away keeps executing until it tries to   *)
(* write its outcome: that is what the lease token is for.                 *)
(***************************************************************************)
EXTENDS Integers, FiniteSets

CONSTANTS
    Jobs,         \* job rows, named by their place in the claim order:
                  \* (foreground rank, priority, created_at, id)
    LaneJobs,     \* those whose execution_lane is "model-generation"
    Workers,      \* worker processes (a restart keeps the name, see Restart)
    NoWorker,     \* locked_by IS NULL
    MaxAttempts,  \* max_attempts of each row
    LaneLimit,    \* worker.model_lane_concurrency
    Concurrency,  \* worker.concurrency
    ClaimBatch,   \* worker.claim_batch_size
    MaxStops      \* bound: how many times worker processes may stop

ASSUME JobQueueAssumption ==
    /\ Jobs \subseteq Nat /\ IsFiniteSet(Jobs)
    /\ LaneJobs \subseteq Jobs
    /\ IsFiniteSet(Workers) /\ NoWorker \notin Workers
    /\ MaxAttempts \in [Jobs -> Nat \ {0}]
    /\ LaneLimit \in Nat \ {0}
    /\ Concurrency \in Nat \ {0}
    /\ ClaimBatch \in Nat \ {0}
    /\ MaxStops \in Nat

VARIABLES
    row,      \* the background_jobs table
    execs,    \* _execute_one tasks alive in some worker process
    active,   \* _active_job_ids of each worker process
    poll,     \* 0: no poll under way; n: recovery is done, n jobs may be claimed
    proc,     \* "up", "draining" (signal received) or "down"
    stops     \* worker processes stopped so far, at most MaxStops

vars == <<row, execs, active, poll, proc, stops>>

Status == {"absent", "queued", "running", "succeeded", "failed", "cancelled"}

\* A lease token is unique to a claim and every claim raises the attempt, so
\* the attempt that minted a token names it; 0 is NULL.
Row == [status : Status, attempt : Nat, token : Nat,
        holder : Workers \cup {NoWorker}, fresh : BOOLEAN, due : BOOLEAN]

Exec == [job : Jobs, worker : Workers, attempt : Nat \ {0}]

TypeOK ==
    /\ row \in [Jobs -> Row]
    /\ execs \in SUBSET Exec
    /\ active \in [Workers -> SUBSET Jobs]
    /\ poll \in [Workers -> 0 .. Concurrency]
    /\ proc \in [Workers -> {"up", "draining", "down"}]
    /\ stops \in 0 .. MaxStops

NoRow == [status |-> "absent", attempt |-> 0, token |-> 0,
          holder |-> NoWorker, fresh |-> FALSE, due |-> FALSE]

Init ==
    /\ row = [j \in Jobs |-> NoRow]
    /\ execs = {}
    /\ active = [w \in Workers |-> {}]
    /\ poll = [w \in Workers |-> 0]
    /\ proc = [w \in Workers |-> "up"]
    /\ stops = 0

LowerOf(a, b) == IF a < b THEN a ELSE b

-----------------------------------------------------------------------------
(* The API side: one transaction each.                                     *)

Enqueue(j) ==
    /\ row[j].status = "absent"
    /\ row' = [row EXCEPT ![j] = [NoRow EXCEPT !.status = "queued", !.due = TRUE]]
    /\ UNCHANGED <<execs, active, poll, proc, stops>>

\* Mutant: the API cancels the row and leaves its lease in place.
CancelledKeepingLease(r) == [r EXCEPT !.status = "cancelled", !.fresh = FALSE]

\* The lease is cleared with the status: that is what fences a late worker.
CancelledRow(r) ==
    [r EXCEPT !.status = "cancelled", !.token = 0, !.holder = NoWorker, !.fresh = FALSE]

Cancel(j) ==
    /\ row[j].status \in {"queued", "running"}
    /\ row' = [row EXCEPT ![j] = CancelledRow(@)]
    /\ UNCHANGED <<execs, active, poll, proc, stops>>

-----------------------------------------------------------------------------
(* The passage of time.                                                    *)

\* No renewal reached the row for lease_duration seconds.
Lapse(j) ==
    /\ row[j].status = "running" /\ row[j].fresh
    /\ row' = [row EXCEPT ![j].fresh = FALSE]
    /\ UNCHANGED <<execs, active, poll, proc, stops>>

\* The retry backoff ran out: available_at <= now.
BackoffElapses(j) ==
    /\ row[j].status = "queued" /\ ~row[j].due
    /\ row' = [row EXCEPT ![j].due = TRUE]
    /\ UNCHANGED <<execs, active, poll, proc, stops>>

-----------------------------------------------------------------------------
(* The poll loop of a worker: recover stale rows, commit, then claim.      *)

Tasks(w) == {e \in execs : e.worker = w}

\* Mutants: a slot too many; slots counted by job id instead of by task.
CapacityOffByOne(w) == Concurrency + 1 - Cardinality(Tasks(w))
CapacityByActiveJobs(w) == Concurrency - Cardinality(active[w])

Capacity(w) == Concurrency - Cardinality(Tasks(w))

Stale == {j \in Jobs : row[j].status = "running" /\ ~row[j].fresh}

\* Mutant: the ceiling is taken to be passed, not reached.
ExhaustedPastCeiling == {j \in Stale : row[j].attempt > MaxAttempts[j]}

Exhausted == {j \in Stale : row[j].attempt >= MaxAttempts[j]}

\* A worker never requeues a job it believes to be executing itself.
Requeueable(w) ==
    {j \in Stale : row[j].attempt < MaxAttempts[j] /\ j \notin active[w]}

TerminalizedRow(r) ==
    [r EXCEPT !.status = "failed", !.token = 0, !.holder = NoWorker, !.fresh = FALSE]

\* Mutant: an expired lease is requeued without being revoked.
RequeuedKeepingLease(r) == [r EXCEPT !.status = "queued", !.due = TRUE]

RequeuedRow(r) ==
    [r EXCEPT !.status = "queued", !.token = 0, !.holder = NoWorker,
              !.fresh = FALSE, !.due = TRUE]

\* FOR UPDATE SKIP LOCKED under a LIMIT: the rows other transactions hold at
\* that instant are passed over, so any set within the limit may be taken.
Recover(w, S) ==
    /\ proc[w] = "up" /\ poll[w] = 0 /\ Capacity(w) > 0
    /\ S \subseteq Requeueable(w)
    /\ Cardinality(S) <= LowerOf(Capacity(w), ClaimBatch)
    /\ row' = [j \in Jobs |-> CASE j \in Exhausted -> TerminalizedRow(row[j])
                                [] j \in S -> RequeuedRow(row[j])
                                [] OTHER -> row[j]]
    /\ poll' = [poll EXCEPT ![w] = Capacity(w)]
    /\ UNCHANGED <<execs, active, proc, stops>>

DueIn == {j \in Jobs : row[j].status = "queued" /\ row[j].due}

LaneLoad == {j \in LaneJobs : row[j].status = "running"}

\* Mutant: a batch counts the rows that run and not the ones it takes first.
ClaimableBesideRunning ==
    {j \in DueIn : /\ row[j].attempt < MaxAttempts[j]
                   /\ j \in LaneJobs => Cardinality(LaneLoad) < LaneLimit}

\* A lane job is claimable only if it and every due lane job ahead of it fit
\* beside those that run.  The advisory lock serialises claims, so the counts
\* hold until the claim commits.
Claimable ==
    {j \in DueIn :
        /\ row[j].attempt < MaxAttempts[j]
        /\ j \in LaneJobs =>
              Cardinality(LaneLoad)
                + Cardinality({i \in DueIn \cap LaneJobs : i < j}) < LaneLimit}

ClaimedRow(r, w) ==
    [r EXCEPT !.status = "running", !.holder = w, !.fresh = TRUE,
              !.attempt = @ + 1, !.token = r.attempt + 1]

ClaimRows(w, S) ==
    /\ poll[w] > 0
    /\ S \subseteq Claimable
    /\ Cardinality(S) <= LowerOf(poll[w], ClaimBatch)
    /\ row' = [j \in Jobs |-> IF j \in S THEN ClaimedRow(row[j], w) ELSE row[j]]
    /\ poll' = [poll EXCEPT ![w] = 0]
    /\ UNCHANGED <<proc, stops>>

Claim(w, S) ==
    /\ ClaimRows(w, S)
    /\ execs' = execs \cup {[job |-> j, worker |-> w, attempt |-> row[j].attempt + 1] : j \in S}
    /\ active' = [active EXCEPT ![w] = @ \cup S]

\* The commit took effect but its reply was lost: the poll loop logs a
\* transient error and dispatches nothing.
ClaimReplyLost(w, S) ==
    /\ ClaimRows(w, S)
    /\ UNCHANGED <<execs, active>>

-----------------------------------------------------------------------------
(* One _execute_one task, and the renewal loop beside it.                  *)

\* The WHERE clause of every write a worker makes to a claimed row.  It does
\* not look at the status.
Holds(e) ==
    /\ row[e.job].holder = e.worker
    /\ row[e.job].attempt = e.attempt
    /\ row[e.job].token = e.attempt

\* forget_active: the task ends and its job id leaves the active set.
Ends(e) ==
    /\ execs' = execs \ {e}
    /\ active' = [active EXCEPT ![e.worker] = @ \ {e.job}]
    /\ UNCHANGED <<poll, proc, stops>>

RenewLease(e) ==
    /\ Holds(e) /\ ~row[e.job].fresh
    /\ row' = [row EXCEPT ![e.job].fresh = TRUE]
    /\ UNCHANGED <<execs, active, poll, proc, stops>>

SucceededRow(r) == [r EXCEPT !.status = "succeeded"]

Complete(e) ==
    /\ row' = IF Holds(e) THEN [row EXCEPT ![e.job] = SucceededRow(@)] ELSE row
    /\ Ends(e)

\* Mutant: the last attempt is retried as well.
ShouldRetryAtCeiling(e, retryable) == retryable /\ e.attempt <= MaxAttempts[e.job]

ShouldRetry(e, retryable) == retryable /\ e.attempt < MaxAttempts[e.job]

\* A retried row keeps its holder and token: only its status moves back.
FailedRow(r, willRetry) ==
    IF willRetry THEN [r EXCEPT !.status = "queued", !.due = FALSE]
                 ELSE [r EXCEPT !.status = "failed"]

Fail(e, retryable) ==
    /\ row' = IF Holds(e)
              THEN [row EXCEPT ![e.job] = FailedRow(@, ShouldRetry(e, retryable))]
              ELSE row
    /\ Ends(e)

\* The handler reported "cancelled", or the outcome could not be written:
\* the task ends and leaves the row as it finds it.
EndsWithoutOutcome(e) ==
    /\ UNCHANGED row
    /\ Ends(e)

-----------------------------------------------------------------------------
(* Worker processes.                                                       *)

Drain(w) ==
    /\ proc[w] = "up" /\ stops < MaxStops
    /\ proc' = [proc EXCEPT ![w] = "draining"]
    /\ stops' = stops + 1
    /\ UNCHANGED <<row, execs, active, poll>>

\* A crash, or the end of the shutdown grace: the tasks die where they are.
Stop(w) ==
    /\ \/ proc[w] = "draining" /\ UNCHANGED stops
       \/ proc[w] = "up" /\ stops < MaxStops /\ stops' = stops + 1
    /\ proc' = [proc EXCEPT ![w] = "down"]
    /\ execs' = execs \ Tasks(w)
    /\ active' = [active EXCEPT ![w] = {}]
    /\ poll' = [poll EXCEPT ![w] = 0]
    /\ UNCHANGED row

\* A new process gets a new instance id, but nothing that could still write
\* under the old one is left, so the name can be used again.
Restart(w) ==
    /\ proc[w] = "down"
    /\ proc' = [proc EXCEPT ![w] = "up"]
    /\ UNCHANGED <<row, execs, active, poll, stops>>

-----------------------------------------------------------------------------
Poll(w) == \E S \in SUBSET Jobs : Recover(w, S) \/ Claim(w, S) \/ ClaimReplyLost(w, S)

Outcome(e) ==
    \/ Complete(e)
    \/ \E retryable \in BOOLEAN : Fail(e, retryable)
    \/ EndsWithoutOutcome(e)

Next ==
    \/ \E j \in Jobs : Enqueue(j) \/ Cancel(j) \/ Lapse(j) \/ BackoffElapses(j)
    \/ \E w \in Workers : Poll(w) \/ Drain(w) \/ Stop(w) \/ Restart(w)
    \/ \E e \in execs : RenewLease(e) \/ Outcome(e)

Spec == Init /\ [][Next]_vars

-----------------------------------------------------------------------------
(* Safety.                                                                 *)

\* The writes of a worker to a claimed row look at the lease and never at the
\* status (mark_succeeded, mark_failed, update_heartbeat), so the lease alone
\* must imply that the row is running: whatever cancels, requeues, retries or
\* terminalizes a row takes the lease from every task that still executes it.
LeaseImpliesRunning ==
    \A e \in execs : Holds(e) => row[e.job].status = "running"

\* claim_batch takes only rows with attempt < max_attempts, so a row that is
\* put back in the queue without an attempt left would wait for ever.
QueuedHasAttemptLeft ==
    \A j \in Jobs : row[j].status = "queued" => row[j].attempt < MaxAttempts[j]

\* The model-generation lane is a limit across every worker: however claims,
\* requeues and batches interleave, no more lane rows run than it allows.
LaneWithinLimit == Cardinality(LaneLoad) <= LaneLimit

\* A worker process never executes more tasks than worker.concurrency, the
\* ones it is about to claim included, even when tasks whose lease was lost
\* still occupy it and it claims the same job a second time.
WorkerWithinConcurrency ==
    \A w \in Workers : Cardinality(Tasks(w)) <= Concurrency

\* Both limits at once: neither is kept at the other's expense.
WithinLimits == LaneWithinLimit /\ WorkerWithinConcurrency

\* repository.py, recover_stale: "A worker must not recover its own
\* still-running task": the recovery of a poll requeues no row whose lease a
\* task of the same worker holds.  The active set that is to keep it from that
\* holds job ids: a task that lost its lease takes with it, when it ends, the
\* id that a newer task of the same worker still needs there.
RequeueSparesOwnTasks ==
    [][\A w \in Workers :
         poll'[w] > poll[w] =>
             \A e \in Tasks(w) : Holds(e) => row'[e.job].status # "queued"]_vars

\* Every status a row goes through is one the job lifecycle promises: a
\* terminal row is final, and no row is started more than max_attempts times.
Lifecycle == INSTANCE JobLifecycle WITH
    stage <- [j \in Jobs |-> row[j].status],
    starts <- [j \in Jobs |-> row[j].attempt]

ImplementsLifecycle == Lifecycle!LifecycleSpec

-----------------------------------------------------------------------------
(* Liveness.                                                               *)

Abandoned(j) == ~ \E e \in execs : e.job = j /\ Holds(e)

\* The poll loop runs for ever; a row it skips because another transaction
\* has it locked is met unlocked by a later poll (strong fairness); a handler
\* runs under asyncio.wait_for; a lease nobody renews lapses; a retry backoff
\* is finite; the supervisor restarts a worker that went down.
Fairness ==
    /\ \A w \in Workers :
          /\ WF_vars(\E S \in SUBSET Jobs : Recover(w, S))
          /\ WF_vars(\E S \in SUBSET Jobs : Claim(w, S))
          /\ SF_vars(\E S \in SUBSET Jobs : S # {} /\ Recover(w, S))
          /\ SF_vars(\E S \in SUBSET Jobs : S # {} /\ Claim(w, S))
          /\ WF_vars(proc[w] = "draining" /\ Stop(w))
          /\ WF_vars(Restart(w))
    /\ \A j \in Jobs :
          /\ WF_vars(Abandoned(j) /\ Lapse(j))
          /\ WF_vars(BackoffElapses(j))
          /\ \A w \in Workers, n \in 1 .. MaxAttempts[j] :
                LET e == [job |-> j, worker |-> w, attempt |-> n]
                IN  WF_vars(e \in execs /\ Outcome(e))

FairSpec == Spec /\ Fairness

\* Every job that was enqueued ends, whatever crashes, lost replies, lapsed
\* leases and retries it meets on the way.
EveryJobEnds ==
    \A j \in Jobs :
        row[j].status = "queued" ~>
            row[j].status \in {"succeeded", "failed", "cancelled"}

=============================================================================
