----------------------------- MODULE Discovery -----------------------------
(***************************************************************************)
(* The Explorer stage of one portfolio session: the API operations start,  *)
(* save_answers, revise, approve and stop (agents/discovery/service.py),   *)
(* the handler a worker runs for each attempt of a job of the stage        *)
(* (jobs/handlers/discovery.py), what the job queue does to those jobs,    *)
(* and the reset that empties the session while they run                   *)
(* (runtime/pipeline_reset.py).                                            *)
(*                                                                         *)
(* Every run has one job, and its idempotency key is a hash of its inputs: *)
(* agent_runs accepts no key twice.  A step of the handler that reads the  *)
(* session and writes it in one transaction is two actions, and the write  *)
(* is conditional on the revision: "stale" says that the row was written   *)
(* since it was read, which is all a revision is compared for.             *)
(***************************************************************************)
EXTENDS Naturals, FiniteSets

CONSTANTS
    MaxRuns,      \* bound: runs that are created, in all
    MaxAttempts,  \* agent_job_max_attempts
    MaxEdits,     \* bound: versions of the intake, of the answers, of a revision request
    MaxEvents     \* bound: claims, timeouts and faults, in all.  A fault is a crash, a
                  \* lease lost by a task that is alive, or a timeout of a handler that
                  \* has committed its outcome

ASSUME DiscoveryAssumption ==
    /\ MaxRuns \in Nat \ {0} /\ MaxAttempts \in Nat \ {0}
    /\ MaxEdits \in Nat \ {0} /\ MaxEvents \in Nat

VARIABLES
    sess,    \* the session row: whether it is active, and its discovery state
    run,     \* agent_runs: status and idempotency key
    job,     \* background_jobs row of each run
    exec,    \* the handler execution of each attempt of each run
    reset,   \* the reset under way, if any: whether its fence found a state
    events,  \* claims, timeouts and faults so far
    faulty   \* whether one of them was a fault

vars == <<sess, run, job, exec, reset, events, faulty>>

Runs == 1 .. MaxRuns
Attempts == 1 .. MaxAttempts
Edits == 0 .. MaxEdits
RunOrNone == 0 .. MaxRuns

Questions == "understand_and_question"
Brief == "build_or_revise_brief"

DiscoveryStatus ==
    {"not_started", "questions_queued", "questions_running", "questions_ready",
     "needs_input", "answers_in_progress", "brief_running", "brief_review",
     "approved", "needs_attention"}

\* op and brief are operation_a.run_id and brief.run_id; memory is the run that
\* last changed the memory or the question events, text the run whose output
\* is brief.markdown; answers stands for the answers and what they did to the
\* events.
Session ==
    [active : BOOLEAN, status : DiscoveryStatus, op : RunOrNone, brief : RunOrNone,
     intake : Edits, answers : Edits, memory : RunOrNone, text : RunOrNone,
     request : Edits, attempt : 0 .. MaxAttempts]

EmptyState ==
    [active |-> TRUE, status |-> "not_started", op |-> 0, brief |-> 0, intake |-> 0,
     answers |-> 0, memory |-> 0, text |-> 0, request |-> 0, attempt |-> 0]

\* retry_nonce: a count, or the run that is retried.
Nonce == [run : RunOrNone, count : 0 .. MaxAttempts + 1]
Count(n) == [run |-> 0, count |-> n]
RetryOf(r) == [run |-> r, count |-> 0]

Key ==
    [operation : {"none", Questions, Brief}, intake : Edits, answers : Edits,
     memory : RunOrNone, text : RunOrNone, request : Edits, nonce : Nonce]

NoKey == [operation |-> "none", intake |-> 0, answers |-> 0, memory |-> 0, text |-> 0,
          request |-> 0, nonce |-> Count(0)]

\* "purged": deleted by a reset.
Run == [status : {"none", "pending", "running", "succeeded", "failed", "cancelled", "purged"},
        key : Key]

Job == [status : {"absent", "queued", "running", "succeeded", "failed", "cancelled"},
        attempt : 0 .. MaxAttempts]

\* stale: the session was written since this transaction read it.  late: the
\* worker's timeout hook runs.
Exec == [pc : {"none", "open", "start", "call", "commit", "record", "settle"},
         out : {"none", "succeeded", "cancelled", "retryable", "permanent"},
         stale : BOOLEAN, late : BOOLEAN]

NoExec == [pc |-> "none", out |-> "none", stale |-> FALSE, late |-> FALSE]

TypeOK ==
    /\ sess \in Session
    /\ run \in [Runs -> Run]
    /\ job \in [Runs -> Job]
    /\ exec \in [Runs -> [Attempts -> Exec]]
    /\ reset \in {"none", "empty", "used"}
    /\ events \in 0 .. MaxEvents /\ faulty \in BOOLEAN

Init ==
    /\ sess = EmptyState
    /\ run = [r \in Runs |-> [status |-> "none", key |-> NoKey]]
    /\ job = [r \in Runs |-> [status |-> "absent", attempt |-> 0]]
    /\ exec = [r \in Runs |-> [n \in Attempts |-> NoExec]]
    /\ reset = "none" /\ events = 0 /\ faulty = FALSE

-----------------------------------------------------------------------------
(* The transitions of the session's state, agents/discovery/state.py.       *)

ApplyStart(s, r) == [s EXCEPT !.status = "questions_queued", !.op = r, !.attempt = 0]

\* New questions are new events; a request for more material may have none.
ApplyQuestionsReady(s, r) ==
    {[s EXCEPT !.status = "questions_ready", !.memory = r]}
    \cup {[s EXCEPT !.status = "needs_input", !.memory = m] : m \in {s.memory, r}}

ApplyBriefRunning(s, r) == [s EXCEPT !.status = "brief_running", !.brief = r]

ApplyBriefReview(s, r, request) ==
    [s EXCEPT !.status = "brief_review", !.text = r, !.request = request]

ApplyApproval(s) == [s EXCEPT !.status = "approved"]

\* apply_needs_attention, and what its callers make of its refusal
AttentionFrom(status) == IF status = "approved" THEN status ELSE "needs_attention"

\* _running_state: a brief's run is awaited as running from the start
RunningState(s) ==
    [s EXCEPT !.status = IF @ = "questions_queued" THEN "questions_running" ELSE @]

-----------------------------------------------------------------------------
(* Idempotency keys.                                                        *)

\* DiscoveryService._idempotency_key of the session's state s
KeyOf(s, operation, request, nonce) ==
    [operation |-> operation, intake |-> s.intake,
     answers |-> IF operation = Questions THEN 0 ELSE s.answers,
     memory |-> s.memory, text |-> IF operation = Questions THEN 0 ELSE s.text,
     request |-> request, nonce |-> nonce]

\* ux_agent_runs_idempotency: an insert under a key that is taken fails, and
\* with it the transaction.
Taken(key) == \E q \in Runs : run[q].key = key

\* Run r is the next to be created, under a key that is free.
Insertable(r, key) ==
    /\ run[r].status = "none" /\ \A q \in 1 .. r - 1 : run[q].status # "none"
    /\ ~ Taken(key)

Inserted(key) == [status |-> "pending", key |-> key]
Enqueued == [status |-> "queued", attempt |-> 0]

\* A write of the session row: whoever has read it has a stale revision.
Reading == {"start", "commit", "record"}
Moved(e) ==
    [r \in Runs |-> [n \in Attempts |->
        IF e[r][n].pc \in Reading THEN [e[r][n] EXCEPT !.stale = TRUE] ELSE e[r][n]]]

-----------------------------------------------------------------------------
(* The API.  An operation reads one snapshot of the session and ends with a *)
(* conditional write; a conflict rolls everything back, so an operation     *)
(* that succeeds is atomic.  It does not ask whether the session is active. *)

InQuestions == sess.status \in {"questions_queued", "questions_running"}
Waiting == InQuestions \/ sess.status = "brief_running"

\* The run a session that waits is waiting for.
Awaited == IF sess.status = "brief_running" THEN sess.brief ELSE sess.op

\* _recover_failed_question_job
Recovered ==
    IF InQuestions /\ job[sess.op].status \in {"failed", "cancelled"}
    THEN "needs_attention" ELSE sess.status

\* The writes that end an operation: its run and job with the session that
\* names them, or the session alone.
Launch(r, key, state) ==
    /\ Insertable(r, key)
    /\ run' = [run EXCEPT ![r] = Inserted(key)]
    /\ job' = [job EXCEPT ![r] = Enqueued]
    /\ sess' = state
    /\ exec' = Moved(exec)
    /\ UNCHANGED <<reset, events, faulty>>

Save(state) ==
    sess' = state /\ exec' = Moved(exec) /\ UNCHANGED <<run, job, reset, events, faulty>>

StartNonce ==
    CASE Recovered = "needs_attention" -> RetryOf(sess.op)
      [] Recovered = "questions_ready" -> Count(sess.attempt + 1)
      [] OTHER -> Count(0)

\* The submitted material adds to the intake or leaves it as it is; the same
\* intake again is answered with the result it has.
Start(r) ==
    /\ Recovered \in {"not_started", "questions_ready", "needs_input", "needs_attention"}
    /\ \E i \in Edits \ {0} :
          /\ i \in {sess.intake, sess.intake + 1}
          /\ ~ (sess.status \in {"questions_ready", "needs_input"} /\ i = sess.intake)
          /\ LET s == [ApplyStart(sess, r) EXCEPT !.intake = i]
             IN  Launch(r, KeyOf(s, Questions, 0, StartNonce), s)

Answerable == Recovered \in {"questions_ready", "answers_in_progress", "needs_attention"}

AnswersNonce ==
    IF Recovered = "needs_attention"
    THEN RetryOf(IF sess.brief # 0 THEN sess.brief ELSE sess.op) ELSE Count(0)

\* save_answers, of a batch that is not complete
SaveAnswers ==
    /\ Answerable
    /\ \E a \in Edits :
          /\ a \in {sess.answers, sess.answers + 1}
          /\ Save([sess EXCEPT !.status = "answers_in_progress", !.answers = a])

\* save_answers, of the last batch; a retry repeats the revision that failed.
CompleteAnswers(r) ==
    /\ Answerable
    /\ \E a \in Edits :
          /\ a \in {sess.answers, sess.answers + 1}
          /\ LET s == [ApplyBriefRunning(sess, r) EXCEPT !.answers = a, !.attempt = 0]
                 request == IF Recovered = "needs_attention" /\ sess.text # 0
                            THEN sess.request ELSE 0
             IN  Launch(r, KeyOf(s, Brief, request, AnswersNonce), s)

\* revise_brief's key, for the session as it is
ReviseKey(request) == KeyOf(sess, Brief, request, Count(sess.attempt))

Revise(r) ==
    /\ sess.status \in {"brief_review", "needs_attention"} /\ sess.text # 0
    /\ \E q \in Edits \ {0} :
          Launch(r, ReviseKey(q),
                 [ApplyBriefRunning(sess, r) EXCEPT !.request = q, !.attempt = 0])

Approve ==
    /\ sess.status = "brief_review" /\ sess.text # 0
    /\ Save(ApplyApproval(sess))

\* JobRepository.cancel and AgentRunRepository.mark_cancelled leave what is
\* terminal alone.
CancelledJob(j) ==
    IF j.status \in {"queued", "running"} THEN [j EXCEPT !.status = "cancelled"] ELSE j

CancelledRun(a) ==
    IF a.status \in {"pending", "running"} THEN [a EXCEPT !.status = "cancelled"] ELSE a

Stop ==
    /\ Waiting
    /\ sess' = [sess EXCEPT !.status = "needs_attention"]
    /\ job' = [job EXCEPT ![Awaited] = CancelledJob(@)]
    /\ run' = [run EXCEPT ![Awaited] = CancelledRun(@)]
    /\ exec' = Moved(exec)
    /\ UNCHANGED <<reset, events, faulty>>

-----------------------------------------------------------------------------
(* The reset: one transaction fences the session off, then the external     *)
(* cleanup runs, and another transaction deletes the session's rows and     *)
(* empties its state.  Its database session keeps the row it has read, and  *)
(* the second SELECT ... FOR UPDATE does not refresh it: assigning {} to a  *)
(* state that was {} is no change and is not written.  The API goes on in   *)
(* between, so a start that the reset overtakes keeps its state and loses   *)
(* its run and job.                                                         *)

\* Bounds: one reset at a time, of a session that can still be started anew.
ResetFence ==
    /\ reset = "none" /\ run[MaxRuns].status = "none"
    /\ reset' = IF sess.status = "not_started" THEN "empty" ELSE "used"
    /\ sess' = [sess EXCEPT !.active = FALSE]
    /\ job' = [r \in Runs |-> IF job[r].status = "queued"
                              THEN [job[r] EXCEPT !.status = "failed"] ELSE job[r]]
    /\ exec' = Moved(exec)
    /\ UNCHANGED <<run, events, faulty>>

Purge ==
    /\ reset # "none" /\ reset' = "none"
    /\ sess' = IF reset = "empty" THEN [sess EXCEPT !.active = TRUE] ELSE EmptyState
    /\ run' = [r \in Runs |-> IF run[r].status = "none" THEN run[r]
                              ELSE [status |-> "purged", key |-> NoKey]]
    /\ job' = [r \in Runs |-> [status |-> "absent", attempt |-> 0]]
    /\ exec' = Moved(exec)
    /\ UNCHANGED <<events, faulty>>

\* The cleanup fails, or the request is lost: the reset may be asked for again.
ResetFails ==
    /\ reset # "none" /\ reset' = "none"
    /\ UNCHANGED <<sess, run, job, exec, events, faulty>>

-----------------------------------------------------------------------------
(* The job queue, as far as one job can tell (module JobQueue).             *)

\* Mutant: a claim takes over rows that run, whatever their attempt.
ClaimableWhileLive(r) == job[r].status \in {"queued", "running"}

Claimable(r) == job[r].status = "queued" /\ job[r].attempt < MaxAttempts

Event == events < MaxEvents /\ events' = events + 1
Fault == Event /\ faulty' = TRUE

Claim(r) ==
    LET n == job[r].attempt + 1
    IN  /\ Claimable(r) /\ Event
        /\ job' = [job EXCEPT ![r] = [status |-> "running", attempt |-> n]]
        /\ exec' = [exec EXCEPT ![r][n] = [NoExec EXCEPT !.pc = "open"]]
        /\ UNCHANGED <<sess, run, reset, faulty>>

\* The lease of an attempt: JobQueue keeps it with a running row only.
Holds(r, n) == job[r].status = "running" /\ job[r].attempt = n

\* The row's lease ran out: its execution is gone, or (a fault) could not renew.
Recover(r) ==
    /\ job[r].status = "running"
    /\ IF exec[r][job[r].attempt].pc = "none"
       THEN UNCHANGED <<events, faulty>>
       ELSE Fault
    /\ job' = [job EXCEPT ![r].status =
                 IF job[r].attempt < MaxAttempts THEN "queued" ELSE "failed"]
    /\ UNCHANGED <<sess, run, exec, reset>>

\* The worker process dies, or its last write fails.
Crash(r, n) ==
    /\ exec[r][n].pc # "none" /\ Fault
    /\ exec' = [exec EXCEPT ![r][n] = NoExec]
    /\ UNCHANGED <<sess, run, job, reset>>

-----------------------------------------------------------------------------
(* The handler, _execute_persisted.                                         *)

OperationOf(r) == run[r].key.operation

\* Mutant: a result is taken while any run of its operation is awaited.
OwnsAnyRun(r) ==
    IF OperationOf(r) = Questions THEN InQuestions ELSE sess.status = "brief_running"

\* _job_owns_active_state
Owns(r) ==
    IF OperationOf(r) = Questions
    THEN InQuestions /\ sess.op = r
    ELSE sess.status = "brief_running" /\ sess.brief = r

\* Mutant: the fence checks neither the row nor its lease.
FenceOpen(r, n) == sess.active

\* WorkerAuthorizationFence.validate_payload
Fence(r, n) == sess.active /\ Holds(r, n)

\* The row of a job that was cancelled, or that a reset deleted.
CancelledOrGone(r) == job[r].status \in {"cancelled", "absent"}

Goes(r, n, pc) == exec' = [exec EXCEPT ![r][n].pc = pc, ![r][n].stale = FALSE]

Ended(e, out) == [e EXCEPT !.pc = "settle", !.out = out, !.stale = FALSE]

Returns(r, n, out) == exec' = [exec EXCEPT ![r][n] = Ended(@, out)]

Quiet == UNCHANGED <<sess, run, job, reset, events, faulty>>

\* A transaction begins: the job's cancellation, the fence (its refusal is
\* permanent), then the ownership of the session's state.
Enters(r, n, pc) ==
    \/ CancelledOrGone(r) /\ Returns(r, n, "cancelled")
    \/ ~ CancelledOrGone(r) /\ ~ Fence(r, n) /\ Returns(r, n, "permanent")
    \/ ~ CancelledOrGone(r) /\ Fence(r, n) /\ ~ Owns(r) /\ Returns(r, n, "cancelled")
    \/ ~ CancelledOrGone(r) /\ Fence(r, n) /\ Owns(r) /\ Goes(r, n, pc)

Open(r, n) == exec[r][n].pc = "open" /\ Enters(r, n, "start") /\ Quiet

\* mark_run_started, _running_state and the conditional write, which fails the
\* attempt for good when the session has moved.
Begin(r, n) ==
    /\ exec[r][n].pc = "start"
    /\ IF exec[r][n].stale
       THEN Returns(r, n, "permanent") /\ UNCHANGED <<sess, run>>
       ELSE /\ run' = IF run[r].status \in {"succeeded", "cancelled"}
                      THEN run ELSE [run EXCEPT ![r].status = "running"]
            /\ sess' = [RunningState(sess) EXCEPT !.attempt = n]
            /\ exec' = [Moved(exec) EXCEPT ![r][n].pc = "call", ![r][n].stale = FALSE]
    /\ UNCHANGED <<job, reset, events, faulty>>

\* _persist_failure, up to its write: it looks at the fence and not at who owns
\* the session.  The errors of the worker's timeout hook (late) are swallowed,
\* the handler's own replace the error.
Fails(r, n, out, late) ==
    exec' = [exec EXCEPT ![r][n] =
               IF Fence(r, n)
               THEN [pc |-> "record", out |-> out, stale |-> FALSE, late |-> late]
               ELSE [pc |-> "settle", out |-> IF late THEN out ELSE "permanent",
                     stale |-> FALSE, late |-> late]]

\* A stop seen before the model is called; the agent's answer, and
\* _apply_result up to its write; or its failure: a provider's error, which may
\* be retried, or invalid output and the rest.
Call(r, n) ==
    /\ exec[r][n].pc = "call"
    /\ \/ CancelledOrGone(r) /\ Returns(r, n, "cancelled")
       \/ Enters(r, n, "commit")
       \/ \E out \in {"retryable", "permanent"} : Fails(r, n, out, FALSE)
    /\ Quiet

StaleWrite(r, n) == exec[r][n].stale

\* The session moved, or a follow-up's key is taken: the transaction rolls
\* back and the attempt fails for good, outside the handler's own try.
Conflict(r, n) ==
    /\ exec[r][n].pc = "commit"
    /\ \/ StaleWrite(r, n)
            /\ Returns(r, n, IF CancelledOrGone(r) THEN "cancelled" ELSE "permanent")
       \/ ~ StaleWrite(r, n) /\ OperationOf(r) = Questions
            /\ \E m \in {sess.memory, r} :
                  Taken(KeyOf([sess EXCEPT !.memory = m], Brief, 0, Count(0)))
            /\ Returns(r, n, "permanent")
    /\ Quiet

\* mark_run_succeeded
Succeeded(a) == IF a.status = "cancelled" THEN a ELSE [a EXCEPT !.status = "succeeded"]

Applied(r, n, state) ==
    /\ sess' = [state EXCEPT !.attempt = n]
    /\ exec' = [Moved(exec) EXCEPT ![r][n] = Ended(@, "succeeded")]
    /\ UNCHANGED <<reset, events, faulty>>

QuestionsReady(r, n) ==
    /\ exec[r][n].pc = "commit" /\ ~ StaleWrite(r, n) /\ OperationOf(r) = Questions
    /\ \E s \in ApplyQuestionsReady(sess, r) : Applied(r, n, s)
    /\ run' = [run EXCEPT ![r] = Succeeded(@)]
    /\ UNCHANGED job

\* READY_FOR_BRIEF: the same transaction creates the brief's run and job.
ReadyForBrief(r, n) ==
    /\ exec[r][n].pc = "commit" /\ ~ StaleWrite(r, n) /\ OperationOf(r) = Questions
    /\ \E q \in Runs, m \in {sess.memory, r} :
          LET s == [ApplyBriefRunning(sess, q) EXCEPT !.memory = m]
              key == KeyOf(s, Brief, 0, Count(0))
          IN  /\ Insertable(q, key)
              /\ run' = [run EXCEPT ![r] = Succeeded(@), ![q] = Inserted(key)]
              /\ job' = [job EXCEPT ![q] = Enqueued]
              /\ Applied(r, n, s)

BriefReady(r, n) ==
    /\ exec[r][n].pc = "commit" /\ ~ StaleWrite(r, n) /\ OperationOf(r) = Brief
    /\ Applied(r, n, ApplyBriefReview(sess, r, run[r].key.request))
    /\ run' = [run EXCEPT ![r] = Succeeded(@)]
    /\ UNCHANGED job

-----------------------------------------------------------------------------
(* The end of _persist_failure, the timeout and the worker's outcome.       *)

\* Mutant: the last attempt counts as one that will be retried.
FinalPastCeiling(r, n) == exec[r][n].out # "retryable" \/ n > MaxAttempts

\* is_final: the handler expects no automatic retry.
Final(r, n) == exec[r][n].out # "retryable" \/ n >= MaxAttempts

\* The outcome of the conditional write is ignored, and the run marked failed
\* either way and whatever its status, if it is still there.
Record(r, n) ==
    /\ exec[r][n].pc = "record"
    /\ IF StaleWrite(r, n)
       THEN UNCHANGED sess /\ Goes(r, n, "settle")
       ELSE /\ sess' = [sess EXCEPT
                  !.status = IF Final(r, n) THEN AttentionFrom(@) ELSE @, !.attempt = n]
            /\ exec' = [Moved(exec) EXCEPT ![r][n].pc = "settle", ![r][n].stale = FALSE]
    /\ run' = IF run[r].status = "purged" THEN run ELSE [run EXCEPT ![r].status = "failed"]
    /\ UNCHANGED <<job, reset, events, faulty>>

\* asyncio.wait_for cancels the handler wherever it awaits, before its last
\* commit or (a fault) after it, and the hook records a retryable timeout.
Timeout(r, n) ==
    /\ exec[r][n].pc # "none" /\ ~ exec[r][n].late
    /\ Fails(r, n, "retryable", TRUE)
    /\ Event /\ faulty' = (faulty \/ exec[r][n].pc = "settle")
    /\ UNCHANGED <<sess, run, job, reset>>

\* jobs/retry.py, should_retry: the worker's own decision
ShouldRetry(r, n) == exec[r][n].out = "retryable" /\ n < MaxAttempts

\* What the worker writes to the row it still holds.  A "cancelled" result
\* writes nothing.
Settle(r, n) ==
    /\ exec[r][n].pc = "settle"
    /\ job' = IF ~ Holds(r, n) \/ exec[r][n].out = "cancelled" THEN job
              ELSE [job EXCEPT ![r].status =
                      CASE exec[r][n].out = "succeeded" -> "succeeded"
                        [] ShouldRetry(r, n) -> "queued"
                        [] OTHER -> "failed"]
    /\ exec' = [exec EXCEPT ![r][n] = NoExec]
    /\ UNCHANGED <<sess, run, reset, events, faulty>>

-----------------------------------------------------------------------------
Handler(r, n) ==
    \/ Open(r, n) \/ Begin(r, n) \/ Call(r, n) \/ Conflict(r, n)
    \/ QuestionsReady(r, n) \/ ReadyForBrief(r, n) \/ BriefReady(r, n)
    \/ Record(r, n) \/ Settle(r, n)

Next ==
    \/ \E r \in Runs : Start(r) \/ CompleteAnswers(r) \/ Revise(r) \/ Claim(r) \/ Recover(r)
    \/ SaveAnswers \/ Approve \/ Stop \/ ResetFence \/ Purge \/ ResetFails
    \/ \E r \in Runs, n \in Attempts : Handler(r, n) \/ Timeout(r, n) \/ Crash(r, n)

Spec == Init /\ [][Next]_vars

-----------------------------------------------------------------------------
(* Safety.                                                                  *)

\* discovery.py records a failure without the ownership check that its results
\* pass.  While no fault occurred, a session that waits is nevertheless put in
\* need of attention only when the run it waits for has ended, or was deleted by
\* a reset that overtook its start: a failure of an earlier run, however late,
\* leaves a restarted session alone.
FailureIsOfTheAwaitedRun ==
    [][~ faulty /\ Waiting /\ sess'.status = "needs_attention"
         => run'[Awaited].status \in {"failed", "cancelled", "purged"}]_sess

\* A brief under review, or approved, is the output of the run the session
\* names, and that run was given the intake and the answers the session has:
\* nothing the user wrote since is missing from what is approved.
ReviewedBriefIsCurrent ==
    sess.status \in {"brief_review", "approved"} =>
        /\ sess.text = sess.brief
        /\ run[sess.text].key.intake = sess.intake
        /\ run[sess.text].key.answers = sess.answers

\* While no fault occurred, a session that waits has a job that is queued or
\* runs, though the handler decides for itself whether the worker will retry;
\* but for a run that a reset overtook and deleted, and for questions whose
\* follow-up brief has the key of an earlier run.
WaitingHasWork ==
    ~ faulty /\ sess.active /\ Waiting =>
        \/ job[Awaited].status \in {"queued", "running"}
        \/ run[Awaited].status = "purged"
        \/ InQuestions /\ \E m \in {sess.memory, sess.op} :
              Taken(KeyOf([sess EXCEPT !.memory = m], Brief, 0, Count(0)))

\* An execution whose run a reset deleted goes on, late or in the middle of a
\* transaction: it writes nothing to the session that was reset, brings neither
\* its run nor its job back, and launches no follow-up.
PurgedRunIsSilent ==
    [][\A r \in Runs, n \in Attempts :
          run[r].status = "purged" /\ exec'[r][n].pc # exec[r][n].pc
          => UNCHANGED <<sess, run, job>>]_vars

=============================================================================
