---------------------------- MODULE ContentStage ----------------------------
(***************************************************************************)
(* The Content Architect stage of one portfolio session: the API           *)
(* operations start, revise, approve and stop (agents/content_architect/   *)
(* service.py), the build handler that a worker runs for each attempt of   *)
(* the stage's job (jobs/handlers/content_architect.py), and what the job  *)
(* queue does to that job.                                                 *)
(*                                                                         *)
(* The handler holds no transaction open across its model call.  It reads  *)
(* the session, the run and the job in one transaction and writes in       *)
(* another, or reads early and writes late in the same one, so each write  *)
(* is an action of its own that uses what an earlier action saw.  The      *)
(* session's revision is what makes a write conditional on what was seen.  *)
(***************************************************************************)
EXTENDS Naturals

CONSTANTS
    MaxRuns,      \* bound: builds the user starts
    MaxAttempts,  \* attempts of a build's job (JobService.enqueue's default: 3)
    MaxFaults     \* bound: crashes, and leases lost by a task that is alive

ASSUME ContentStageAssumption ==
    MaxRuns \in Nat \ {0} /\ MaxAttempts \in Nat \ {0} /\ MaxFaults \in Nat

VARIABLES
    sess,    \* the session row: revision and content_architect state
    run,     \* agent_runs.status of each build
    job,     \* background_jobs row of each build
    exec,    \* the handler execution of each attempt of each build
    faults   \* faults so far, at most MaxFaults

vars == <<sess, run, job, exec, faults>>

Runs == 1 .. MaxRuns
Attempts == 1 .. MaxAttempts

SessionStatus ==
    {"not_started", "build_running", "content_review", "approved", "needs_attention"}

RunStatus == {"none", "pending", "running", "succeeded", "failed", "cancelled"}

JobStatus == {"absent", "queued", "running", "succeeded", "failed", "cancelled"}

\* current is state.job_id (each build has one run and one job); content is
\* the build whose output the state carries.
Session == [rev : Nat, status : SessionStatus, current : 0 .. MaxRuns, content : 0 .. MaxRuns]

Job == [status : JobStatus, attempt : 0 .. MaxAttempts, expected : Nat]

\* What an execution does next, how it ends, and what it has read.
Exec == [pc : {"none", "open", "start", "recheck", "call", "apply", "commit",
               "failing", "record", "settle"},
         out : {"none", "succeeded", "cancelled", "retryable", "permanent"},
         sawRev : Nat, sawRun : RunStatus, late : BOOLEAN]

TypeOK ==
    /\ sess \in Session
    /\ run \in [Runs -> RunStatus]
    /\ job \in [Runs -> Job]
    /\ exec \in [Runs -> [Attempts -> Exec]]
    /\ faults \in 0 .. MaxFaults

NoExec == [pc |-> "none", out |-> "none", sawRev |-> 0, sawRun |-> "none", late |-> FALSE]

Init ==
    /\ sess = [rev |-> 0, status |-> "not_started", current |-> 0, content |-> 0]
    /\ run = [r \in Runs |-> "none"]
    /\ job = [r \in Runs |-> [status |-> "absent", attempt |-> 0, expected |-> 0]]
    /\ exec = [r \in Runs |-> [n \in Attempts |-> NoExec]]
    /\ faults = 0

-----------------------------------------------------------------------------
(* The state of the stage, and the revision that every write of it raises.  *)

Saved(s) == [s EXCEPT !.rev = @ + 1]

\* apply_build_running, and what start and revise make of the state
BuildRunning(s, r) == [Saved(s) EXCEPT !.status = "build_running", !.current = r]

\* apply_build_result
BuildResult(s, r) == [Saved(s) EXCEPT !.status = "content_review", !.content = r]

\* apply_approval
Approval(s) == [Saved(s) EXCEPT !.status = "approved"]

-----------------------------------------------------------------------------
(* The API.  An operation reads one snapshot of the session and ends with a *)
(* conditional write on its revision; a conflict rolls everything back, so  *)
(* an operation that succeeds is atomic.                                    *)

\* A run, its job and the session state that names them: one transaction.
Launch(r) ==
    /\ run[r] = "none" /\ \A q \in 1 .. r - 1 : run[q] # "none"
    /\ run' = [run EXCEPT ![r] = "pending"]
    /\ job' = [job EXCEPT ![r] = [status |-> "queued", attempt |-> 0,
                                  expected |-> sess.rev + 1]]
    /\ sess' = BuildRunning(sess, r)
    /\ UNCHANGED <<exec, faults>>

Start(r) == sess.status \in {"not_started", "needs_attention"} /\ Launch(r)

Revise(r) == sess.status = "content_review" /\ Launch(r)

Approve ==
    /\ sess.status = "content_review"
    /\ sess' = Approval(sess)
    /\ UNCHANGED <<run, job, exec, faults>>

\* JobRepository.cancel and AgentRunRepository.mark_cancelled leave what is
\* terminal alone.
CancelledJob(j) ==
    IF j.status \in {"queued", "running"} THEN [j EXCEPT !.status = "cancelled"] ELSE j

CancelledRun(s) == IF s \in {"succeeded", "failed", "cancelled"} THEN s ELSE "cancelled"

Stop ==
    /\ sess.status = "build_running"
    /\ sess' = [Saved(sess) EXCEPT !.status = "needs_attention"]
    /\ job' = [job EXCEPT ![sess.current] = CancelledJob(@)]
    /\ run' = [run EXCEPT ![sess.current] = CancelledRun(@)]
    /\ UNCHANGED <<exec, faults>>

-----------------------------------------------------------------------------
(* The job queue, as far as one job can tell (module JobQueue).             *)

\* Mutant: a claim takes over rows that run, whatever their attempt.
ClaimableWhileLive(r) == job[r].status \in {"queued", "running"}

Claimable(r) == job[r].status = "queued" /\ job[r].attempt < MaxAttempts

Claim(r) ==
    LET n == job[r].attempt + 1
    IN  /\ Claimable(r)
        /\ job' = [job EXCEPT ![r].status = "running", ![r].attempt = n]
        /\ exec' = [exec EXCEPT ![r][n] = [NoExec EXCEPT !.pc = "open"]]
        /\ UNCHANGED <<sess, run, faults>>

\* The lease of an attempt: JobQueue keeps it with a running row only.
Holds(r, n) == job[r].status = "running" /\ job[r].attempt = n

\* The row's lease ran out: its execution is gone, or (a fault) could not renew.
Recover(r) ==
    /\ job[r].status = "running"
    /\ IF exec[r][job[r].attempt].pc = "none"
       THEN UNCHANGED faults
       ELSE faults < MaxFaults /\ faults' = faults + 1
    /\ job' = [job EXCEPT ![r].status =
                 IF job[r].attempt < MaxAttempts THEN "queued" ELSE "failed"]
    /\ UNCHANGED <<sess, run, exec>>

\* The worker process dies, or its last write fails.
Crash(r, n) ==
    /\ exec[r][n].pc # "none" /\ faults < MaxFaults
    /\ faults' = faults + 1
    /\ exec' = [exec EXCEPT ![r][n] = NoExec]
    /\ UNCHANGED <<sess, run, job>>

-----------------------------------------------------------------------------
(* The build handler.                                                       *)

Cancelled(r) == job[r].status = "cancelled"

\* Mutant: any running build is taken for the handler's own.
OwnsAnyBuild(r) == sess.status = "build_running"

\* _job_owns_active_state
Owns(r) == sess.status = "build_running" /\ sess.current = r

\* The next step of an execution, with what it read before put out of scope.
At(e, pc) == [e EXCEPT !.pc = pc, !.sawRev = 0, !.sawRun = "none"]

Goes(r, n, pc) == exec' = [exec EXCEPT ![r][n] = At(@, pc)]

Returns(r, n, out) == exec' = [exec EXCEPT ![r][n] = [At(@, "settle") EXCEPT !.out = out]]

\* The checks made before each step: the job's cancellation, then the fence
\* (WorkerAuthorizationFence.validate_payload), whose refusal is permanent.
Refused(r, n) ==
    \/ Cancelled(r) /\ Returns(r, n, "cancelled")
    \/ ~ Cancelled(r) /\ ~ Holds(r, n) /\ Returns(r, n, "permanent")

Open(r, n) ==
    /\ exec[r][n].pc = "open"
    /\ \/ Refused(r, n)
       \/ Holds(r, n) /\ ~ Owns(r) /\ Returns(r, n, "cancelled")
       \/ Holds(r, n) /\ Owns(r)
            /\ exec' = [exec EXCEPT ![r][n] = [@ EXCEPT !.pc = "start", !.sawRun = run[r]]]
    /\ UNCHANGED <<sess, run, job, faults>>

\* Mutants: the revision is not compared, by either of the handler's writers.
AnyRevision(rev) == TRUE

\* PortfolioSessionRepository.update_state's WHERE clause.
SameRevision(rev) == sess.rev = rev

\* mark_run_started writes the run from the status it read (and only when it
\* changes it); the conditional write is made under the revision that start
\* put in the payload, its outcome is ignored, and the transaction commits.
Enter(r, n) ==
    /\ exec[r][n].pc = "start"
    /\ run' = IF exec[r][n].sawRun \in {"succeeded", "cancelled", "running"}
              THEN run ELSE [run EXCEPT ![r] = "running"]
    /\ sess' = IF SameRevision(job[r].expected)
               THEN BuildRunning(sess, r) ELSE sess
    /\ Goes(r, n, "recheck")
    /\ UNCHANGED <<job, faults>>

Recheck(r, n) ==
    /\ exec[r][n].pc = "recheck"
    /\ Refused(r, n) \/ (Holds(r, n) /\ Goes(r, n, "call"))
    /\ UNCHANGED <<sess, run, job, faults>>

\* The model calls: a result, a provider error that may be retried, or another.
Call(r, n) ==
    /\ exec[r][n].pc = "call"
    /\ \/ Goes(r, n, "apply")
       \/ \E out \in {"retryable", "permanent"} :
             exec' = [exec EXCEPT ![r][n] = [@ EXCEPT !.pc = "failing", !.out = out]]
    /\ UNCHANGED <<sess, run, job, faults>>

Apply(r, n) ==
    /\ exec[r][n].pc = "apply"
    /\ \/ Refused(r, n)
       \/ Holds(r, n) /\ ~ Owns(r) /\ Returns(r, n, "cancelled")
       \/ Holds(r, n) /\ Owns(r)
            /\ exec' = [exec EXCEPT ![r][n] = [@ EXCEPT !.pc = "commit", !.sawRev = sess.rev]]
    /\ UNCHANGED <<sess, run, job, faults>>

Commit(r, n) ==
    /\ exec[r][n].pc = "commit"
    /\ \/ /\ SameRevision(exec[r][n].sawRev)
          /\ sess' = BuildResult(sess, r)
          /\ run' = [run EXCEPT ![r] = IF @ = "cancelled" THEN @ ELSE "succeeded"]
          /\ Returns(r, n, "succeeded")
       \/ /\ ~ SameRevision(exec[r][n].sawRev)
          /\ Returns(r, n, IF Cancelled(r) THEN "cancelled" ELSE "permanent")
          /\ UNCHANGED <<sess, run>>
    /\ UNCHANGED <<job, faults>>

-----------------------------------------------------------------------------
(* _persist_failure: a failed model call, or the worker's timeout hook.     *)

\* The hook's own errors are swallowed; the handler's replace the error.
Failing(r, n) ==
    /\ exec[r][n].pc = "failing"
    /\ \/ Cancelled(r) /\ Goes(r, n, "settle")
       \/ ~ Cancelled(r) /\ ~ Holds(r, n)
            /\ Returns(r, n, IF exec[r][n].late THEN exec[r][n].out ELSE "permanent")
       \/ Holds(r, n)
            /\ exec' = [exec EXCEPT ![r][n] = [@ EXCEPT !.pc = "record", !.sawRev = sess.rev]]
    /\ UNCHANGED <<sess, run, job, faults>>

\* Mutant: the last attempt counts as one that will be retried.
FinalPastCeiling(r, n) == exec[r][n].out # "retryable" \/ n > MaxAttempts

\* No automatic retry will follow.
Final(r, n) == exec[r][n].out # "retryable" \/ n >= MaxAttempts

\* Mutant: nothing is exempt.
AttentionFromAnywhere(status) == "needs_attention"

\* apply_needs_attention, and what _persist_failure makes of its refusal
AttentionFrom(status) == IF status = "approved" THEN status ELSE "needs_attention"

\* The session is written under the revision that was read, and whoever owns
\* it; the run is marked failed either way, and whatever its status.
Record(r, n) ==
    /\ exec[r][n].pc = "record"
    /\ sess' = IF SameRevision(exec[r][n].sawRev)
               THEN [Saved(sess) EXCEPT !.status = IF Final(r, n) THEN AttentionFrom(@) ELSE @]
               ELSE sess
    /\ run' = [run EXCEPT ![r] = "failed"]
    /\ Goes(r, n, "settle")
    /\ UNCHANGED <<job, faults>>

\* asyncio.wait_for cancels the handler wherever it awaits, after a commit
\* as well as before it, and the hook records a retryable timeout.
Timeout(r, n) ==
    /\ exec[r][n].pc # "none" /\ ~ exec[r][n].late
    /\ exec' = [exec EXCEPT ![r][n] =
                  [NoExec EXCEPT !.pc = "failing", !.out = "retryable", !.late = TRUE]]
    /\ UNCHANGED <<sess, run, job, faults>>

\* Mutant: a failure is written back as a retry whatever the attempt.
SettledAlwaysRetried(r, n) ==
    CASE exec[r][n].out = "succeeded" -> "succeeded"
      [] exec[r][n].out = "cancelled" -> job[r].status
      [] OTHER -> "queued"

\* What the worker writes to the row it still holds.  A "cancelled" result
\* writes nothing.
Settled(r, n) ==
    CASE exec[r][n].out = "succeeded" -> "succeeded"
      [] exec[r][n].out = "cancelled" -> job[r].status
      [] OTHER -> IF Final(r, n) THEN "failed" ELSE "queued"

Settle(r, n) ==
    /\ exec[r][n].pc = "settle"
    /\ job' = IF Holds(r, n) THEN [job EXCEPT ![r].status = Settled(r, n)] ELSE job
    /\ exec' = [exec EXCEPT ![r][n] = NoExec]
    /\ UNCHANGED <<sess, run, faults>>

-----------------------------------------------------------------------------
Handler(r, n) ==
    \/ Open(r, n) \/ Enter(r, n) \/ Recheck(r, n) \/ Call(r, n) \/ Apply(r, n)
    \/ Commit(r, n) \/ Failing(r, n) \/ Record(r, n) \/ Settle(r, n)

Next ==
    \/ \E r \in Runs : Start(r) \/ Revise(r) \/ Claim(r) \/ Recover(r)
    \/ Approve \/ Stop
    \/ \E r \in Runs, n \in Attempts : Handler(r, n) \/ Timeout(r, n) \/ Crash(r, n)

Spec == Init /\ [][Next]_vars

\* Workers poll for ever and a handler runs under wait_for; the user owes the
\* stage nothing.
Fairness ==
    \A r \in Runs :
        /\ WF_vars(Claim(r)) /\ WF_vars(Recover(r) /\ UNCHANGED faults)
        /\ \A n \in Attempts : WF_vars(Handler(r, n))

FairSpec == Spec /\ Fairness

-----------------------------------------------------------------------------
(* Safety.                                                                  *)

\* What is up for review, or was approved, is the output of the build the
\* session names, however executions of several attempts and builds overlap.
ReviewIsOfCurrentBuild ==
    sess.status \in {"content_review", "approved"} => sess.content = sess.current

\* Each entry into review brings the output of a newer build: no build lands
\* twice, though two attempts of it may both be about to commit.
ReviewBringsNewContent ==
    [][sess.status # "content_review" /\ sess'.status = "content_review"
         => sess'.content > sess.content]_sess

\* A stage that stopped or failed stays so until the user starts a new build:
\* no late execution revives it (the cancel docstring of jobs/repository.py).
StoppedStaysStopped ==
    [][sess.status = "needs_attention" /\ sess'.status # sess.status
         => sess'.current > sess.current]_sess

\* An approval is never undone, neither by a failure recorded late nor by a
\* result that arrives after it.
ApprovalIsFinal ==
    [][sess.status = "approved" => sess'.status = "approved" /\ sess'.content = sess.content]_sess

\* The stage's jobs keep to the lifecycle the queue implements.
Lifecycle == INSTANCE JobLifecycle WITH
    Jobs <- Runs,
    MaxAttempts <- [r \in Runs |-> MaxAttempts],
    stage <- [r \in Runs |-> job[r].status],
    starts <- [r \in Runs |-> job[r].attempt]

JobsKeepLifecycle == Lifecycle!LifecycleSpec

\* agent_runs.py, mark_started: "Never resurrect a run that the API has
\* already made terminal": a cancelled run does not go back to running.
CancelledRunNotResurrected ==
    [][\A r \in Runs : run[r] = "cancelled" => run'[r] # "running"]_run

-----------------------------------------------------------------------------
(* Liveness.                                                                *)

\* A build that runs ends, in review, in an error the user sees, or stopped.
BuildEnds == sess.status = "build_running" ~> sess.status # "build_running"

=============================================================================
