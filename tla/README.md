# A TLA+ model of the AI portfolio pipeline

This directory models the control flow of the Python application under
`src/src/oryxenai`: a FastAPI service and worker processes that share nothing but
a PostgreSQL database. A user's portfolio session goes through three stages
(Explorer, Content Architect, Studio), each of which calls language models from
durable background jobs; Studio's pages may then be published on a preview host.
What makes the system hard is not in any one function: several workers, several
attempts of one job, a user who may stop or restart a stage at any moment,
timeouts that cancel a handler wherever it happens to wait, operations of an
administrator that are several transactions long, and a model whose output must
not reach a visitor unchecked.

Paths below are relative to `src/src/oryxenai` unless they start with `src/`.

## 1. Inventory

| Component | State it keeps | Operations | What is hard, and what makes it correct |
|---|---|---|---|
| Job queue and workers (`jobs/repository.py`, `worker.py`, `service.py`, `retry.py`) | `background_jobs` rows (status, attempt, lease holder, token, heartbeat, available_at); per process `_active_tasks`, `_active_job_ids` | enqueue, cancel, terminalize and requeue stale rows, claim a batch, renew a lease, complete, fail or retry, drain | leases lost by live tasks, crashes, lost replies, the model lane shared by all workers. A late writer is fenced, attempts and the lane are bounded, every job ends |
| Explorer (`agents/discovery/*`, `jobs/handlers/discovery.py`) | `current_state.discovery`, `agent_runs` with their idempotency keys | start, save answers, brief, revise, approve, stop; two kinds of job, one result enqueues the next | keys made of the inputs, failures recorded without an ownership check, a reset under running executions. What is reviewed was made from what the user last wrote; a session that waits has work |
| Content Architect (`agents/content_architect/*`, `jobs/handlers/content_architect.py`) | `current_state.content_architect` and `revision` of the session row; `agent_runs` | start, revise, approve, stop; handler: open, enter, recheck, call, apply, persist a failure, timeout hook | the model call runs outside any transaction; stop and new builds race the handler. Only the session's own build reaches review, an approval is final, a stopped build stays stopped, a build ends |
| Studio (`agents/code_generator/*`, `jobs/handlers/code_generator.py`, `db/repositories/site_versions.py`) | `portfolio_site_versions`, `current_state.code_generator` (active version, build in flight, number) | build, chat change, stop, restore, prune, restrict, reconcile a lost worker | one attempt per build; counters computed again from the rows left; four places record a failure. The live page exists, is the newest, and shows its content; hidden text stays hidden; a build ends |
| Page content, themes and validation (`content_architect/page_content.py`, `code_generator/admission.py`, `changes.py`, `validate.py`, `verify_browser.py`, `pipeline.py`, `themes/*`) | none | admit content, apply a change, parse a body, check it against the theme, seal, open it in a browser | the page's author is a language model. No text is lost, made up, hidden or put in another field's place |
| Retention (`jobs/retention.py`) | deletes cache rows and versions | periodic sweep | must spare the live page and what a build relies on |
| Model result cache (`agents/shared/model_cache.py`) | `model_call_cache` rows under a producer's lease | claim or wait, store, release, invalidate | single flight across workers, an expired producer |
| Usage, quota, budget (`agents/shared/model_usage.py`, `model_quota.py`, `contracts.py`) | operations, attempts, capacity windows; the in-memory registry and budget | reserve, settle, fail, reconcile | settlement in another minute than the reservation, redeliveries that share one allowance |
| Model routing and providers (`agents/shared/model_router.py`, `model_execution.py`, `providers/*`) | the registry's snapshots, preflight receipts | choose profiles, call, fall back, preflight | three adapters, each with its own errors and second sends; personal data stays where the route allows |
| Pipeline reset (`runtime/pipeline_reset.py`) | session status `deletion_pending`, job rows | fence, clean up outside, delete, reactivate | two transactions with external work between; handlers still running |
| Preview (`preview/*`, `storage/preview.py`) | stored objects, receipts, the host's pointer | store a candidate, promote, restore, reconcile, serve | a publication is many objects; a reader sees three of them at three moments |
| Accounts and administration (`auth/*`) | users, entitlements, portfolios, operations | admit, suspend, restore, promote, demote, delete, readmit, resume; the workers' fence | operations that outlive a transaction, stale re-reads. Limits hold, the last administrator stays, no work runs on what is removed |
| Preview grants, documents, archives, artifact storage, HTTP, web, settings | none of their own | pure functions and I/O | data, not control |

Interaction: the API writes a stage's session state, an `agent_runs` row and a
`background_jobs` row in one transaction. A worker claims the job, runs the
stage's handler, and the handler writes the session and the run in transactions
of its own; the worker then writes the job row. Explorer's and the Content
Architect's handlers make their writes conditional on the session's `revision`,
Studio's hold the session's row lock, and the worker's are conditional on the row's
lease. `WorkerAuthorizationFence` ties them: before each step the handler checks
that its job row is still running under its own attempt and token, and that the
session and its owner are active. Within a handler a model call goes through the
cache, the routed client, the durable ledger and an adapter.

## 2. Modules

| Module | Role |
|---|---|
| `JobLifecycle` | What a durable job promises: the statuses of `jobs/contracts.py`, terminal rows final, at most `MaxAttempts` starts. Abstract specification of `JobQueue` and of the rows of `ContentStage` |
| `JobQueue`, `MCJobQueue` | The table, the worker processes, the API: one action per committed transaction or per step of a process between two of them |
| `ContentStage` | One session's Content Architect stage: API operations, every transaction of the build handler, and the job queue as one job sees it |
| `Discovery` | The Explorer stage in the same style, with its keys, its follow-up run and the reset of the session |
| `LivePage` | What Studio promises: one build at a time, and a live page that is only replaced by one with a higher number. Abstract specification of `Studio` |
| `PageContent` | The content tree: completeness, admission, change operations |
| `Markup` | The tolerant HTML parser and the selectors of the contracts |
| `ForestTheme`, `PrototypeTheme` | The contracts of Editorial Forest and of the themes whose elements name their field (Obsidian Signal) |
| `PageBuild` | The checks of a page's body, the browser's verdict, and the line from a model's reply to a page or a failure |
| `StudioPages` | What `PageBuild` makes of one portfolio: the contents that chat changes lead to and the pages of each |
| `Studio`, `MCStudio` | Versions, builds, chat changes, restores, retention; `MCStudio` composes it with `StudioPages` |
| `ModelCalls` | The durable side of a model call: cache, ledger, windows, redeliveries |
| `Routing`, `MCRouting` | The in-process side: profiles, registry, adapters, fallbacks, preflights |
| `Accounts`, `MCAccounts` | Accounts, portfolios, administration and the fence |
| `Preview`, `MCPreview` | Candidates, promotions, the reconciler and the gateway, on three backends |
| `JobQueueProofs`, `ContentStageProofs`, `StudioProofs`, `ModelCallsProofs`, `DiscoveryProofs`, `AccountsProofs`, `RoutingProofs`, `PreviewProofs` | Theorems checked by TLAPS about the module each is named after |

### JobQueue and the code

`row` is the table. `token` is the attempt that minted the lease token: a token
is unique to a claim and each claim raises `attempt`, so this names it exactly;
0 is NULL. `fresh` says that `heartbeat_at > now - lease`, `due` that
`available_at <= now`; `Lapse` and `BackoffElapses` are the passage of time.
`execs` are the `_execute_one` tasks alive anywhere, `active` the
`_active_job_ids` of each process. `poll[w]` is the local `capacity` of
`_poll_loop` between the commit of `_recover_stale`'s transaction and the commit
of `_claim_due`'s: tasks may end between the two, so the value used may be stale.

| Action | Code |
|---|---|
| `Enqueue`, `Cancel` | `JobRepository.enqueue`, `cancel` |
| `Recover` | the first transaction of `Worker._recover_stale`: `terminalize_exhausted_stale` then `requeue_stale` |
| `Claim`, `ClaimReplyLost` | `claim_batch` and `_dispatch`; the commit took effect and its reply was lost |
| `RenewLease` | `_renew_lease_loop` / `update_heartbeat` |
| `Complete`, `Fail`, `EndsWithoutOutcome` | the exits of `_execute_one`, with `forget_active` |
| `Drain`, `Stop`, `Restart` | the signal handler; a crash or the end of the shutdown grace; a new process |

Abstractions: all workers handle all job kinds; `SKIP LOCKED` makes the rows a
poll takes any subset within the limit (the order of a batch survives in the lane
count of `Claimable`, which is evaluated under the advisory lock); a task's
outcome write and its end are one action; the handler's terminal-failure hook is
not modelled here (it is in `Studio`). The direct writes of `runtime/pipeline_reset.py`
to job rows are in `Discovery`. A restarted process keeps its name: its instance id is new,
but nothing that could write under the old id is left. Two claims of one row by
the same process are still told apart by attempt and token.

### ContentStage and the code

`sess` is the session row: `rev`, and the stage's `status`, `current` (the build
`state.job_id` and `state.run_id` name) and `content` (the build whose output the
state carries). `run[r]` is `agent_runs.status`, `job[r]` the job row, and
`exec[r][n]` the handler execution of attempt `n` of build `r`: its next step
`pc`, what it has read (`sawRev`, `sawRun`), how it ends (`out`), and `late` once
its timeout fired.

The handler is split wherever another transaction can commit between a read and
the write that relies on it:

| Action | Code (`jobs/handlers/content_architect.py`) |
|---|---|
| `Open` then `Enter` | first transaction (131-149): checks and reads; then `mark_started` and the conditional write under the payload's revision, whose outcome nobody looks at |
| `Recheck` | the cancellation check and the fence before the model call (153-173) |
| `Call` | the model calls (174-246): a result, or a failure that may or may not be retried |
| `Apply` then `Commit` | `_apply_result`: checks and reads; then the conditional write |
| `Failing` then `Record` | `_persist_failure`: checks and reads; then the conditional write of the session and the unconditional one of the run |
| `Timeout` | `asyncio.wait_for` in `Worker._execute_one`: the handler is cancelled wherever it awaits, also after a commit, and `on_timeout` runs `_persist_failure` |
| `Settle` | the worker's write of the job row |
| `Claim`, `Recover`, `Crash` | the job queue as one job sees it; `Recover` of a row whose task is alive is a lease that could not be renewed |

`JobsKeepLifecycle` ties the two levels: the job rows of the stage obey the same
`JobLifecycle` that `JobQueue` implements.

Abstractions: an API operation reads and writes in one transaction and a revision
conflict rolls all of it back, so it is one action. Explorer is approved and
stays so (`discovery/state.py` makes APPROVED terminal), so the stale-source
branch of `_apply_result` cannot be taken and is left out, as is the precondition
of `start`. The content checks of `approve` either refuse (nothing happens) or
pass. The ownership, account and entitlement checks of the fence are constant. A
`revise` that repeats the idempotency key of an earlier run is refused by a unique
index and changes nothing. `MaxAttempts` is 3 in the code: `start` enqueues with
the default of `JobService.enqueue`, although it stores
`agent_job_max_attempts` (2, "one initial execution plus one redelivery" in
`src/config/app.toml:62`) in the state it shows.

### Discovery and the code

`sess` is the session row: whether it is active and its `discovery` state. Data is
represented by who wrote it: `intake` and `answers` are versions of what the user
wrote, `memory` and `text` the run whose output the state carries. `run[r].key` is
the tuple that `idempotency_key` hashes, and `Insertable` the unique index on it.
A revision is not counted: `stale` says of an execution that has read the row that
someone wrote it since, which is all that a conditional write looks at.

| Action | Code |
|---|---|
| `Start`, `SaveAnswers`, `CompleteAnswers`, `Revise`, `Approve`, `Stop` | `agents/discovery/service.py`; `Recovered` is `_recover_failed_question_job` |
| `Open`, `Begin`, `Call` | `jobs/handlers/discovery.py`: the fence, `mark_started` and the conditional write, the model call with its checks |
| `QuestionsReady`, `ReadyForBrief`, `BriefReady`, `Conflict` | the application of each kind of result; `ReadyForBrief` creates and enqueues the follow-up run in the same transaction |
| `Record`, `Timeout` | the recording of failures and the timeout hook |
| `ResetFence`, `Purge`, `ResetFails` | the two transactions of `reset_pipeline`, and the failure of the cleanup between them |
| `Claim`, `Recover`, `Crash`, `Settle` | the job queue as one job sees it |

`reset` is the request between its two transactions and the one thing of its stale
copy of the session that matters: the second `SELECT ... FOR UPDATE`
(`runtime/pipeline_reset.py:214`) does not refresh the row (`expire_on_commit=False`),
so `current_state = {}` is no change, and is left out of the UPDATE, when the fence had
read an empty state. What a `Start` wrote in between then stays ("empty"), while its
run and job are deleted; a state that was not empty is overwritten ("used").
`status` becomes `active` in both cases, which the fence changed in the same copy.

Abstractions: an API operation is one action. The access check of a route reads the
session without a lock before the operation does (`api/dependencies.py:132-164`,
`api/routes/sessions.py:156-178`); for a reset the model makes that read one step with
the fence. Both transactions of a reset write `revision` as the absolute value of the
copy, so a revision may repeat: an operation that spans the whole gap, or two resets
that overlap, could pass a conditional write the model calls stale. The model has one
reset at a time.

### Studio, its pages and the code

`sess` is `current_state["code_generator"]` (`active`, `number`, the build in
`flight`), `ver` the version rows with their two counters `seq` and `num`, `exec`
the handler of each build, `site` the deployment's theme and browser policy, which
`Init` chooses. Every transaction of Studio that writes the session locks its row
first, so each is one action; what runs between them, and the unlocked progress
updates, are actions of their own.

| Action | Code |
|---|---|
| `Start`, `PostMessage`, `Restore`, `Stop`, `Reconcile` | `agents/code_generator/service.py`; `Sess`, `Ver` and `Run` are the state after `_reconcile_locked`, which every operation runs first |
| `Open`, `Enter`, `Interpret`, `Reply`, `Create` | the first transactions of the handler, and the interpretation of a chat message |
| `Announce`, `Mark`, `Generate` | `on_stage`: the check of the job and the write of the row, in two steps; the line of `PageBuild` between them |
| `GoLive`, `Promote`, `Persist`, `Record`, `Timeout`, `Hook` | the result with pruning and restriction, and the four places that record a failure |
| `Sweep` | `jobs/retention.py` on the version rows |

A page is the set of texts its body shows. `Studio` takes from the pages what the
session and the rows need, as constants: the pages that a build of a content may
end in (`Pages`), the texts a page has to show and those it may show (`Promises`,
`Permits`), what a chat change leads to (`Changes`) and the browser's verdicts
(`Sights`). So it holds, and is proved, for any validator.

`StudioPages` computes these from the code's model, once, and `MCStudio` gives them
to `Studio`: `PageBuild!Outcomes(theme, content)` is everything a reply of the model
may lead to. Each reply is parsed (`Markup`), checked against the generic rules and
the theme's contract, and either fails or becomes a page with the texts it shows. The
texts of a change that a privacy request takes away are `hid`. The state holds the
contents' indices.

Abstractions: the transcript, its idempotency keys and rate limit, and failure
codes. A text is a value of its own, so the comparison of texts is equality;
`Short` and `Long` are the texts whose length matters. Stylesheets, fonts and
scripts are left out: they are the theme's, not the model's.

### ModelCalls, Routing and the code

`ModelCalls`: an execution is one delivery of a run's job. `row` are the cache rows
by key, `op` the allowance a run has used, `att` its attempts with their
reservations, `win` the minute and daily windows, `off` what the registry has in
cooldown. A call goes `Claim` (or `GiveUp` at the deadline of a wait), `Accept` or
`Refuse` of a hit, `Admit`, `Reserve` (or `Exhausted`, `Full`, `LedgerDown`),
`Send`, `Answer`, `Finish` (or `FinishFails`), then `Store` and, after a fallback,
`Drop`; a call that fails ends in `Release`. The second profile is a fallback or the
primary again, chosen in `Init`; a fallback in cooldown leaves a list of one profile,
which is tried again.

`Store` updates the row this execution produces. A result under the fallback's key has
no such row and is an `Insert`, which another's insert may forestall: the
IntegrityError then ends the execution. These transactions, and the release, are not
inside the `try` of `generate` (`agents/shared/model_cache.py:341-384`): `CacheFails` is
the database failing one of them. Either way the execution is `aborted`: its error is
not a provider's, nothing retries it, and the row it produces stays until its lease
runs out.

`Routing`: `ProfileNames` is the router, which keeps the first mention of each allowed
profile (`FirstOfEach`), and `Ordered` the sort of those with capacity left (`Free`)
by the registry's scores (`Roomier`). Both are `Picked`: the positions kept, each at
its rank in an order. `OutcomesOf` is what each adapter makes of a status, an SDK error or a
malformed body, computed once. `Failure` is how the routed client reports to the
worker whether to retry. Here the ledger only accepts or refuses; there the choice
of profiles is two names.

`RoutingAssumption` asks of a route that it has a primary, a configured profile that
is not Gemini. `validate_configuration` checks only that the profiles named are
configured; the rest is so for every route of `src/config/models.toml`, and the
router's docstring counts on it ("Gemini is never selected as the normal route by
that opt-in").

### Accounts and the code

One action per transaction of `auth/admin/service.py`, `auth/repository.py`,
`auth/entitlements.py` and of the reset. An operation that calls the identity
provider or cleans storage holds an `op` in between. Its database session keeps
the rows it has read (`expire_on_commit=False`), and a later `SELECT ... FOR UPDATE`
does not refresh them: what is checked then is `seen` and `named`. Operations that
failed stay `retryable`, and `Resume` and `Abandon` are the administrator's. The
provider's identity is the e-mail address; owners act on their own portfolio; a
portfolio has one job at a time.

The request that creates a portfolio begins in the same way: `current_user` reads the
account, then locks its row without refreshing it (`auth/service.py:61-64`), and the
route takes the role from the first read (`api/routes/sessions.py:95-96`). So an
administrator's request is two actions, `EnterAsAdmin` and `CreateAsAdmin`, and a
portfolio made after a demotion in between is marked `late`. A user's request is one
action, because the entitlement's code reads the role again under its lock
(`auth/entitlements.py:52-107`).

A handler that has passed the fence works on while its row is requeued or failed:
`LoseLease` takes the row away and leaves the handler (`outlived`) until `EndOutlived`;
the deletion of the row, by a removal or a reset, does the same (`WithoutJob`). Before
the fence the handler ends with its lease, since the fence looks for the row, its
attempt and its token. `MustWait`, like the code's `count_running_jobs`, sees rows only.

### Preview and the code

`data` and `meta` are the bytes and the metadata under each key; they are two
files in the local backend and one object elsewhere, and `Check`, `Write` and
`Finish` are the steps of one `put` on each. An execution is a chain of such puts,
`After` says which one is next: `index`, `asset`, `manifest` with their readback
(`Readback`), then `CreatePending`, `Receipt`, `Index`, `PutPointer`, `Public`,
and `Restore` or `Delete` of a failed public check. A pending promotion carries the
pointer it saw when it was created, and the receipt names it as the one before; what
a caller has kept of the pending promotions is `pending`, and `seen` is what each
execution's own saw. `PutPointer` writes over what was seen or ends in a conflict.
`Begin` starts or repeats an execution, as promoter or as reconciler. The gateway's reads are `Visit`,
`VisitReceipt`, `VisitFile` and `VisitCandidate`. Nothing in the repository but the
reconciler calls the promoter, so what a caller keeps is read from the
reconciler's arguments.

The safety properties are about the S3 and the memory backend. The local one is
modelled, but only its types are claimed: its lock is one process's, and a crash between
its two files leaves an object that cannot be read. Its docstring calls it one "used by
local development and CI" (`storage/preview.py:150`); nevertheless `src/config/app.toml:177` and the
docker, production and render-free configurations select it, and API, worker and
gateway share its root (`storage/preview.py:593-595`). Only the tests' configuration
selects another. What the properties say is therefore not said of those deployments.

## 3. Runs

| Run | Expect | Shows |
|---|---|---|
| `jobqueue_safety` | pass | three lane jobs, two workers of two slots, a lane of two, one or two attempts: `TypeOK`, `LeaseImpliesRunning`, `QueuedHasAttemptLeft`, `WithinLimits` (lane and slots together), and `ImplementsLifecycle` |
| `jobqueue_liveness` | pass | two jobs, two workers, one slot, one lane place, one worker stop: `EveryJobEnds` |
| `jobqueue_own_task` | violation | `RequeueSparesOwnTasks`: the active set is keyed by job id and a superseded task removes the id of its successor |
| `content_safety` | pass | two builds of two attempts, one fault: `TypeOK`, `ReviewIsOfCurrentBuild`, `ReviewBringsNewContent`, `StoppedStaysStopped`, `ApprovalIsFinal`, `JobsKeepLifecycle` |
| `content_liveness` | pass | one build of three attempts: `BuildEnds` |
| `content_resurrected` | violation | `CancelledRunNotResurrected`: `mark_started` writes from a stale copy of the run |
| `studio` | pass | `TypeOK`; `LivePageSound` (the live page can be shown, is the newest by both counters, and every ready page shows its content faithfully and was seen by a browser where one is required); `RowsAgree` (run and row of a build agree on its end, an open row belongs to the build in flight); `HiddenStaysHidden`; the refinement `KeepsLivePage`; the liveness property `BuildEnds`, here with crashes |
| `model_calls` | pass | `TypeOK`; `TransmissionsWithinAllowance` over all deliveries of a run; `WindowsKept` (the windows count exactly the attempts, and stay within their room); `RowsHonest` (a row is left producing only by an execution at that call, one that was cut off, or one whose own transaction on the cache failed); `LeaseRespected` |
| `discovery` | pass | `TypeOK`; `ReviewedBriefIsCurrent`; `WaitingHasWork` (but for a start that a reset overtook, and a follow-up with a taken key); `PurgedRunIsSilent` (an execution whose run a reset deleted changes nothing that is left); `FailureIsOfTheAwaitedRun` |
| `accounts` | pass | `TypeOK`; `LimitsKept` (but for portfolios created across a demotion); `LastAdminKept`; `RemovedIsIdle` (but for portfolios that a reset made active again, and handlers that outlived their row) |
| `routing` | pass | `TypeOK`; `PacketsGoWhereAllowed`; `OpenIsAccounted`; `CooldownKept` |
| `preview` | pass | `TypeOK` on every backend; on S3 and in memory, but not on the local backend that the committed configurations select, `PublishedIsServed` (a gateway that has read the pointer finds what it names) and `PointerMovesAsSeen` |

### Bounds

The queue's hazards need a task whose lease was lost, its successor, and
a third row that competes for the slot and the lane: two workers and three jobs
have all of them, and a batch of two lane rows in one claim. One job has a single
attempt (as Studio's builds) and the others two, so a ceiling is reached on the
first and on a later claim. `MaxStops` is 0 in the safety run, where a lapsed
lease already does to a row what a crash does, and 1 in the liveness run, where
the crash matters. The runs pass with symmetry in the workers for safety only.
The violation of `RequeueSparesOwnTasks` needs three attempts of one job.

Two builds of `ContentStage` are what stale executions need (the old one and the
one that replaced it), two attempts are what overlapping executions of one build
need, and a single fault is enough to have both alive at once. Timeouts are not
bounded: each execution may time out once, at any step.

`Studio`: two builds or chat changes and two restores, two kept versions, so that
the third page prunes one; two executions at once; two faults (a crash, or a
lease lost by a live task), so that a lost build and its late task meet a second
one. Themes and browser policies are chosen in `Init`. The replies of the model
are the page of each theme's exemplar and its single deviations: each text
dropped, made up or exchanged, each element with one slip (another tag, a class,
an attribute, hidden, an extra child), and a few whole-page ones. The checks are
independent of each other, so a deviation of two elements is found by either.

`ModelCalls`: three deliveries, two of them of one run, one call each, two minutes,
a window of one request and a day of two, one fault: an expired producer, its
successor and another run that shares the key. `Discovery`: three runs (questions,
a brief, and one that replaces either), two attempts, one version of each input
beside the first, and `MaxEvents = 3` claims, timeouts and faults in all: a fault is
paid for by a claim, and three runs of one claim each need no fault. One reset is under
way at a time, and resets stop when the runs are used up.

`Accounts`: three accounts, a limit of one user, two portfolios, two requests in
flight, and four of what `MaxActs` counts: administrators' operations and their
creations of portfolios, resets, resumptions and lost leases. Two deletions with what
comes between need three, a fence that a lost lease and a reset get around four.
`Routing`: two symmetric stages and one preflight, two of them at once, three
providers, four routes, one second, a limit of two requests and one use reported,
and one fault. The use of a source counts only under a known limit, and not beyond
it. `Preview`: two builds for one host, two processes, three executions, one fault,
the three backends and both values of `require_readback` from `Init`; an "asset"
stands for the files beside the index, and a payload is its build and execution.

Deadlock is not checked where the system may stop for good: an approved stage with
no job left, a bounded number of builds used up, all calls made.

### Fairness

`JobQueue!Fairness`: the poll loop never ends (weak fairness of both its
transactions); a row another transaction has locked is met unlocked by a later
poll, so a poll that could take something again and again takes something (strong
fairness of the non-empty cases); a handler runs under `wait_for`, so its task
ends; a lease nobody renews lapses; a backoff is finite; the supervisor restarts a
worker. Nothing makes a live lease lapse, a worker stop, or a user act.

`ContentStage!Fairness` is weak fairness of the claims, of the recovery of rows
without a task, and of the handler's own steps; timeouts, crashes and the user owe
nothing. `BuildEnds` of the Content Architect is checked without crashes and with
one build, because with them it is false: a worker that dies on the last attempt
leaves `build_running` to the user's stop button, and a failure recorded by another
execution between the read and the write of a result fails the job and leaves the
session as it is. Both are listed as hazards.

`Studio!Fairness` is the same with weak fairness of `Reconcile`, which stands for
the page that polls the state while a build runs (`service.py`, every read of the
state reconciles); nobody who polls, nobody who waits. With it `BuildEnds` holds
with crashes, lost leases and two builds.

`EveryDeliveryEnds` of a model call (a wait for another producer has a deadline)
was left out of `ModelCalls`: it is `GiveUp`, and costs a liveness graph of millions
of states. For the same reason `Discovery`, `Routing`, `Accounts` and `Preview` are
checked for safety only.

## 4. Proofs

`JobQueueProofs` proves, for any finite sets of jobs and workers, any attempt
ceilings, lane limit, slots and batch size, every safety property that
`jobqueue_safety` checks, from `JobQueueAssumption` alone.

- `TypeCorrect`. Inductive with the finiteness of `execs`, without which
  `Capacity` need not be a number.
- `LeaseFencesLateWorkers`, `QueuedRowsAreClaimable`. `LeaseImpliesRunning` is not
  inductive: a claim raises the attempt, and a task of a later attempt would match
  the row. `LeaseInv` adds that no task is ahead of its row's attempt, that one
  task at most exists per row and attempt, that an absent row was never claimed,
  and that attempts stay within their ceiling.
- `QueueImplementsLifecycle`. The step lemma maps each action to `LifecycleNext`
  or to a stutter, under `LeaseInv`: this is where an outcome written by a fenced
  task is seen to write nothing, and one written by the holder to start from
  `running`.
- `SlotsAreNeverOverdrawn`. `BudgetInv` counts the tasks of a worker together with
  the room its poll has reserved.
- `LaneIsNeverOverbooked`. A batch fits because its last row, in the claim order,
  was claimable with all rows before it counted (`BatchFits`). `LimitsHold` is both
  limits together.

`ContentStageProofs` proves every safety property that `content_safety` checks,
for any number of builds, attempts and faults, from `ContentStageAssumption`
alone. None of them is inductive: each depends on what an execution remembers of
a session that has moved on. The invariant is `Ownership`, in four parts.

- `RowsOfBuilds`: builds are launched in order, and only launched builds have
  rows and executions.
- `ExpectedIsOwn` and `SeenIsOwn`: every write of the session raises its revision,
  so the revision in a build's payload, and the one a result is about to be
  committed under, is the session's only while that build is still its own. This
  is what makes a conditional write safe although `Commit` and `Enter` do not look
  at the session again.
- `ContentOfBuilds`: a running build is newer than the content carried.

`HandlerMovesExec` bounds what a step makes an execution remember,
`HandlerWrites` and `ApiWrites` show that a write of the session is one of
`SessionMoves`. `ReviewShowsTheCurrentBuild` follows from the invariant;
`ABuildLandsOnce`, `AStoppedBuildIsOver` and `ApprovalStands` follow from the
invariant and `SessionMoves`. `StageKeepsJobLifecycle` is a refinement like that
of the queue: `StepMovesJobs` maps each step to `LifecycleNext` or to a stutter.

`AccountsProofs` proves everything that `accounts` checks, for any number of
accounts, portfolios, requests and operations and any limit, from
`AccountsAssumption` alone.

- `TypeCorrect`, `LimitsAreKept`: the invariant `IInv` adds that administrators have
  no entitlement (so a demotion starts from none), that portfolios have owners, and
  that what an operation names exists. The limit counts accounts without a
  tombstone (`Counted \ tomb`); `StatusChange`, `AccountStep` and `AccountsUntouched`
  are the three ways a step may treat it, and each operation is one of them. The
  portfolios that a demoted administrator's request creates (`Late`) are the exception
  that `LimitsKept` names, and `CreateAsAdminStep` is where it is needed.
- `LastAdminIsKept`: who stops being an active administrator was suspended, demoted
  or deleted (`AdminLost`), and the first two look at `ActiveAdmins` in the same
  transaction, under the lock on the capacity row.
- `RemovedAreIdle`: not inductive, because the count of running work precedes the
  removal by a cleanup of external storage. `RemovalsFenced` adds that what is about
  to be removed is fenced, and that no handler that still has its row runs on it once
  it was counted, but for portfolios that a reset has made active again (`Removals`).
  Of handlers that have outlived their row nothing is proved: the code does not wait
  for them.

`StudioProofs` proves every property of the `studio` run but its liveness, for any
number of builds, restores, kept versions and slots, and any contents and pages, from
`StudioAssumption`.

- `StudioTypes`, `RowsAndRunsAgree`: from the invariant of the book (`Book`: the rows,
  the runs and the session's build in flight and live page fit each other, and the
  two counters stay above what is live) and of the executions (`Working`: what a
  handler makes is the row and the content its build names).
- `StudioKeepsLivePage`: the refinement of `LivePage`. A handler that was stopped or
  reconciled away finds its row closed and publishes nothing, and the restored or
  promoted page has the higher number.
- `LivePageHolds`, `HiddenHolds`: under the hypothesis `PagesSound`, that a page which
  validation lets pass shows what its content promises and nothing else, and that a
  required browser does not let a page pass unseen. It is about single pages, and no
  state machine can establish it: it is what `PageContent`, `Markup`, the themes and
  `PageBuild` are for. TLC evaluates those over the contents and replies of the
  `studio` run, where `LivePageSound` compares each page that went live with its
  content; four of that run's mutants break one check of a page each. `PagesSound`
  itself is true of that instance (TLC evaluates it there as an ASSUME; it is no part
  of the run, in which a mutant has to reach the invariant). What the theorems add is that no stop, timeout, crash, restoration,
  pruning, sweep or restriction makes a live page unsound out of sound ones, or brings
  a hidden text back.

`ModelCallsProofs` proves everything that `model_calls` checks, for any finite set of
executions, any calls, allowances, windows and minutes, from `ModelCallsAssumption`.
The invariant ties the books of a call together: where an execution is says which of
its attempts are on file (`Slots`), a window's counters are cardinalities of sets of
attempts (`Counted`, a conservation law under settlements in a later minute), a run's
requests and those about to be sent are within what it reserved (`Booked`), and a row
in production is in the hands of one execution at that call (`RowsSound`), which may
have ended by a crash, a timeout or the failure of its own write of the cache.
`LeasesAreRespected` then follows, because a late producer's row has another holder.

`DiscoveryProofs` proves everything that `discovery` checks, for any number of runs,
attempts, edits and events, from `DiscoveryAssumption`. The invariant has two halves,
as the properties do. What holds whatever fails: what the session names exists
(`Named`, `NewSession`), the run it waits for was given the intake and the answers it
has (`Awaiting`, `Reviewed`), and an execution whose read of the session is not stale
is the one the session waits for (`ReadSound`). What holds until the first fault
(`Calm`): a run has one execution, and the job that is queued or runs is the one the
session waits for, unless a reset has overtaken that run's start and deleted both
(`ResetSound` says what the reset's copy of the session may be). The second half is why
an unchecked failure is harmless then, and `FailureIsOfTheAwaitedRun` is false beyond
it. `PurgedRunsAreSilent` holds with faults as well: whoever read the session before the
purge has a stale revision, and whoever reads it afterwards does not pass the fence.

`RoutingProofs` proves everything that `routing` checks, for any stages, profiles,
providers, sources and routes, from `RoutingAssumption`. The rank of an element of a
finite set in a strict total order is a bijection (`RankBijective`), so `Picked` is a
sequence of what is kept, with what comes first in the order first: this makes the
filter, the removal of duplicates and the sort lemmas of one kind
(`FirstOfEachFacts`, `OrderedFacts`, `CandidatesFacts`). The invariant says that every
profile a call may try, or tried, is allowed to its packet (`Sendable`) and that its
open reservations fit its place (`Balanced`). `CooldownsAreKept` needs, of the two
steps that write the registry, what `Min` and `Max` of two numbers are.

`PreviewProofs` proves everything that `preview` checks, for any number of builds,
processes, executions and faults on every backend, from `PreviewAssumption`. Objects
but the pointer are written once, and what a pending promotion saw is set once, so
whatever was true of an execution by such a fact stays true under the steps of all
others (`Grown`). The invariant numbers the executions (`Numbered`) and orders the
objects: files before the manifest and the receipt, these before what refers to them
(`Objects`, `Kept`, `ExecSound`, and `VisitSound` for the request at the gateway). On
the local backend a torn write can leave bytes without metadata; only types and
numbers are claimed of it: `PublishedIsServed` and `PointerMovesAsSeen` both except it,
and so do the theorems about them.

The inductive invariants of `StudioProofs`, `ModelCallsProofs`, `DiscoveryProofs`,
`AccountsProofs`, `RoutingProofs` and `PreviewProofs` (each is called `IInv`) are true in every state
of their runs' instances; a configuration with `INVARIANTS IInv` and the run's
constants checks it on the proof module.

Only model-checked:

- The liveness properties (`EveryJobEnds`, `BuildEnds` of both stages): fairness and
  ENABLED are beyond the prover.
- The page: `Markup` and `PageContent` declare RECURSIVE operators (the parser's feed,
  and paths into the content tree), so nothing can be proved in the modules above
  them (the themes, `PageBuild`, `StudioPages`, `MCStudio`), and what such definitions
  compute for every input needs induction over data. `PagesSound` is where the proofs
  of `Studio` meet them.
- The findings, which are counterexamples.

## 5. Findings

1. A worker can requeue its own live task (`jobqueue_own_task`, `jobs/worker.py:330`).
2. A stop can be overwritten by a handler that starts (`content_resurrected`,
   `jobs/handlers/content_architect.py:140`).

Other disagreements were met while modelling. The models have the behaviour, and
the properties above are stated so that they say where it shows; they have no run
of their own.

- A handler that returns `cancelled` without a cancellation leaves its row running
  until the ceiling fails it (`jobs/worker.py:431`).
- Explorer: a revision that repeats the inputs of one that was stopped has its key
  and fails on the unique index (`agents/discovery/service.py:628`); a follow-up
  brief always has the nonce 0, so after its failure new questions may end without
  one; the late failure of a superseded execution can put the session of a newer run
  in `needs_attention` (what `FailureIsOfTheAwaitedRun` and `WaitingHasWork` except).
- Reset: a start that commits between the two transactions of a reset of an empty
  session survives it, with its run and job deleted (`runtime/pipeline_reset.py:214-252`):
  the session is active and waits for questions until the user stops it or resets
  again. `WaitingHasWork` excepts it.
- Accounts: the resumption of an administrator's own deletion, or one overtaken by
  another, removes the last active administrator (`auth/admin/service.py:358`, against
  "Last-Admin Safety" in `src/docs/Auth/02-data-model-and-lifecycle.md`); a
  suspension revives a deleted account as suspended, and a restoration that
  overtakes a deletion makes it active; a reset makes a portfolio active that a
  deletion has fenced (against `src/docs/Auth/03-security-and-worker-fencing.md:39-42`);
  the second of two deletions of one portfolio stays `running`; a portfolio created
  while the provider was asked stays with the deleted account.
- Accounts: a demotion that commits while an administrator's request creates a
  portfolio leaves a user with one outside the entitlement (`auth/service.py:61-64`,
  `api/routes/sessions.py:95-96`, against "`user`: one admitted account, one portfolio"
  in `src/docs/Auth/03-user-flow-and-route-contract.md:7`). A removal waits for job rows,
  not for handlers, so one that lost its lease works on a portfolio that is gone
  (`auth/admin/repository.py:157-184`, against "waits for running work to settle" in
  `src/docs/Auth/03-security-and-worker-fencing.md:39-42`). `LimitsKept` and
  `RemovedIsIdle` except these.
- Studio: the sweep never deletes a ready version that has a newer one kept, though
  its docstring says so; `seq` is used again after the highest row was pruned, though
  a comment says never (`site_version.py:72`). `LivePageSound` shows that the
  live page stays the newest all the same.
- Pages: comments and unknown attributes only warn, so text in them is not compared;
  texts of the metadata count as approved on the page; the browser's findings are
  capped per kind.
- Model calls: a refusal by the ledger at a fallback is raised as retryable after the
  primary was sent (`model_execution.py:507`); the Anthropic adapter repeats a request
  by itself (`providers/anthropic.py:303`) although "provider adapters have retries
  disabled"; a refusal for capacity is wrapped before the branch that
  would recognise it (`model_usage.py:464`, `model_execution.py:260`); the result of a call
  is stored outside the `try` that gives its row up (`model_cache.py:341-384`), so a failed
  transaction, or a second insert under the fallback's key (520-551), fails an execution
  whose provider answered and leaves other executions waiting for the lease to run out;
  no code sets the request limits of a capacity window (`model_usage.py:393-404` inserts
  none), so the ceilings of `WindowsKept` bind only on rows whose limits something
  else has set; what it says of the counters holds in any case.
- Preview: the deletion after a failed public check may remove a newer promotion's
  pointer (`preview/promotion.py:441`); storing a candidate again after a crash that
  followed its manifest ends in a conflict; the local backend does not recover from
  a crash between its two files.

## 6. What is left

1. A composition of `ContentStage` with `JobQueue` for one job, by the refinement both
   have of `JobLifecycle`.
2. The hazards without a property: the failure recorded under a revision just read
   and the worker that dies on the last attempt need an abstract statement of what a
   session in `build_running` may still expect.
3. The cobalt atlas contract, and the token window of the ledger.

## 7. Not modelled

- Document extraction, archives, artifact storage, web pages, settings and preview
  grants are pure data transformations or I/O.
- The cobalt atlas contract checks what the forest's does, over other regions; the
  themes' stylesheets, fonts and scripts are fixed files.
- Token verification (`auth/jwt.py`), audit rows, the replay of a completed
  operation by its key, legacy and detached portfolios; `restart`, which replaces a
  detached session.
- The token window of the ledger (the same shape as the request window),
  `ModelCostBudget` (nothing constructs it), telemetry fields, provider request formats.
- The chat transcript of Studio with its keys and rate limit; metrics, logging and
  the worker's service heartbeat.
