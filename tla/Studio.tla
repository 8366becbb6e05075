------------------------------- MODULE Studio -------------------------------
(***************************************************************************)
(* Studio, the page builder of one portfolio session: the API operations   *)
(* start, stop, chat change and restore (agents/code_generator/service.py),*)
(* the build handler (jobs/handlers/code_generator.py), the version rows   *)
(* (db/repositories/site_versions.py) and the retention sweep that deletes *)
(* old ones (jobs/retention.py).                                           *)
(*                                                                         *)
(* Every transaction that writes the session holds its row lock from       *)
(* before it reads the state until it commits, so each is one action.  What*)
(* the handler does between transactions, and its unlocked progress        *)
(* updates, are actions of their own.  A build's job has one attempt: a    *)
(* lost worker is found by whoever next asks for the state.                *)
(*                                                                         *)
(* What is written on a page, whether it may be published, and what a chat *)
(* message changes are constants here: module StudioPages computes them.   *)
(***************************************************************************)
EXTENDS Naturals, FiniteSets

CONSTANTS
    MaxBuilds,    \* bound: builds and chat changes asked for
    MaxRestores,  \* bound: restores
    Keep,         \* code_generator.max_versions_per_session
    Slots,        \* executions at once: the workers' concurrency
    MaxFaults,    \* bound: crashes, and leases lost by a task that is alive
    Approved,     \* the approved content: a content is a number
    Buildable,    \* whether the template can hold it
    Leaves,       \* content -> its texts
    Changes,      \* content -> what a chat message about it may lead to
    SiteThemes,   \* the themes a deployment may use
    Pages(_, _),     \* theme, content: how a build of it may end
    Promises(_, _),  \* theme, content: the texts its page has to show
    Permits(_, _),   \* theme, content: the texts its page may show
    Sights        \* browser policy -> the verdicts of a browser

ASSUME StudioAssumption ==
    /\ MaxBuilds \in Nat /\ MaxRestores \in Nat /\ Keep \in Nat /\ Slots \in Nat
    /\ MaxFaults \in Nat
    /\ Buildable \in BOOLEAN /\ Approved \in DOMAIN Leaves
    /\ Leaves \in [DOMAIN Leaves -> SUBSET STRING]
    /\ Changes \in [DOMAIN Leaves -> SUBSET [kind : {"reply", "build"}, content : DOMAIN Leaves,
                                             removed : SUBSET STRING]]
    /\ \A theme \in SiteThemes, content \in DOMAIN Leaves :
          /\ Pages(theme, content) \subseteq [failed : {"generate", "validate", "no"},
                                              shown : SUBSET STRING]
          \* a page may show no more than its content says
          /\ Permits(theme, content) \subseteq Leaves[content]
    /\ Sights \in [DOMAIN Sights -> SUBSET {"passed", "unavailable", "failed"}]

VARIABLES
    sess,   \* current_state["code_generator"] of the session row
    ver,    \* portfolio_site_versions rows
    task,   \* agent_runs.input_payload of each build
    run,    \* agent_runs.status of each build
    job,    \* background_jobs.status of each build's job
    exec,   \* the handler execution of each build
    site,   \* the deployment: its theme and its browser policy
    faults  \* faults so far, at most MaxFaults

vars == <<sess, ver, task, run, job, exec, site, faults>>

-----------------------------------------------------------------------------
Contents == DOMAIN Leaves

\* The version id of a build is a function of its run's; a restore's is new.
Builds == 1 .. MaxBuilds
Restores == MaxBuilds + 1 .. MaxBuilds + MaxRestores
Versions == Builds \cup Restores

StudioStatus == {"not_started", "build_running", "ready", "needs_attention"}
OpenStatus == {"generating", "validating", "verifying"}
EndStatus == {"ready", "failed", "cancelled"}

\* flight is the build in flight; builds_started is the number of tasks.
Session == [status : StudioStatus, active : {0} \cup Versions, number : Nat,
            flight : {0} \cup Builds]

\* hid is what the change that made the page removed, when it was a privacy
\* request; the row carries it only in the model.
Version == [status : {"none", "deleted"} \cup OpenStatus \cup EndStatus, seq : Nat, num : Nat,
            restricted : BOOLEAN, content : Contents, hid : SUBSET STRING,
            shown : SUBSET STRING, seen : {"not_run", "passed", "unavailable"}]

Task == [op : {"none", "build", "change"}, base : Contents]

NoPage == [failed |-> "no", shown |-> {}]

Exec == [pc : {"none", "open", "enter", "interpret", "reply", "create", "announce", "mark",
               "work", "promote", "record", "settle", "hook"},
         stage : OpenStatus, content : Contents, hid : SUBSET STRING,
         page : [failed : {"generate", "validate", "no"}, shown : SUBSET STRING],
         seen : {"not_run", "passed", "unavailable"},
         out : {"none", "succeeded", "cancelled", "failed"}]

TypeOK ==
    /\ sess \in Session
    /\ ver \in [Versions -> Version]
    /\ task \in [Builds -> Task]
    /\ run \in [Builds -> {"none", "pending", "running", "succeeded", "failed", "cancelled"}]
    /\ job \in [Builds -> {"absent", "queued", "running", "succeeded", "failed", "cancelled"}]
    /\ exec \in [Builds -> Exec]
    /\ site \in [theme : SiteThemes, browser : DOMAIN Sights]
    /\ faults \in 0 .. MaxFaults

\* The content of a row that does not exist is of no account.
NoVersion == [status |-> "none", seq |-> 0, num |-> 0, restricted |-> FALSE,
              content |-> Approved, hid |-> {}, shown |-> {}, seen |-> "not_run"]
NoExec == [pc |-> "none", stage |-> "generating", content |-> Approved, hid |-> {},
           page |-> NoPage, seen |-> "not_run", out |-> "none"]

Init ==
    /\ sess = [status |-> "not_started", active |-> 0, number |-> 0, flight |-> 0]
    /\ ver = [v \in Versions |-> NoVersion]
    /\ task = [r \in Builds |-> [op |-> "none", base |-> Approved]]
    /\ run = [r \in Builds |-> "none"]
    /\ job = [r \in Builds |-> "absent"]
    /\ exec = [r \in Builds |-> NoExec]
    /\ site \in [theme : SiteThemes, browser : DOMAIN Sights]
    /\ faults = 0

-----------------------------------------------------------------------------
(* Version rows.                                                            *)

IsRow(row) == row.status \notin {"none", "deleted"}

Rows == {v \in Versions : IsRow(ver[v])}
Ready == {v \in Versions : ver[v].status = "ready"}

\* next_seq and next_version_number: one more than the highest that exists.
NextSeq(n) ==
    /\ \A v \in Rows : ver[v].seq < n
    /\ n = 1 \/ \E v \in Rows : ver[v].seq = n - 1
NextNumber(n) ==
    /\ \A v \in Rows : ver[v].num < n
    /\ n = 1 \/ \E v \in Rows : ver[v].num = n - 1

\* Mutant: a row that ended may be announced again.
EvenIfEnded(row, status) ==
    IF row.status \in {"none", "deleted"} THEN row ELSE [row EXCEPT !.status = status]

\* create_version: the row of a build, and a copy of a page as its own version.
Fresh(content, hid, seq) ==
    [NoVersion EXCEPT !.status = "generating", !.seq = seq, !.content = content, !.hid = hid]
Copied(row, seq, num) ==
    [NoVersion EXCEPT !.status = "ready", !.seq = seq, !.num = num, !.content = row.content,
                      !.shown = row.shown, !.seen = row.seen]

\* set_version_status, and mark_version_failed, which spares fewer.
Announced(row, status) ==
    IF row.status \in EndStatus \cup {"none", "deleted"} THEN row
    ELSE [row EXCEPT !.status = status]
Broken(row, status) ==
    IF row.status \in {"ready", "none", "deleted"} THEN row ELSE [row EXCEPT !.status = status]

\* mark_version_ready, with what was built and what the browser made of it.
MadeReady(row, num, page, seen) ==
    [row EXCEPT !.status = "ready", !.num = num, !.shown = page.shown, !.seen = seen]

\* restrict_versions
Restricted(rows, set) ==
    [v \in DOMAIN rows |-> IF v \in set THEN [rows[v] EXCEPT !.restricted = TRUE] ELSE rows[v]]

\* Mutant: pruning keeps the oldest.
PrunedNewest(rows, active) ==
    {v \in DOMAIN rows : IsRow(rows[v])
       /\ Cardinality({u \in DOMAIN rows : IsRow(rows[u]) /\ rows[u].seq < rows[v].seq}) >= Keep}

\* prune_versions: all but the newest Keep, and never the live page.
Pruned(rows, active) ==
    {v \in DOMAIN rows \ {active} : IsRow(rows[v])
       /\ Cardinality({u \in DOMAIN rows : IsRow(rows[u]) /\ rows[u].seq > rows[v].seq})
            >= (IF Keep > 1 THEN Keep ELSE 1)}

Deleted == [NoVersion EXCEPT !.status = "deleted"]
Without(rows, doomed) == [v \in DOMAIN rows |-> IF v \in doomed THEN Deleted ELSE rows[v]]

\* What a preview grant serves: DbBundleProvider.load, mint_preview.
Servable(v) == ver[v].status = "ready" /\ ~ ver[v].restricted

-----------------------------------------------------------------------------
(* The session's state machine.                                             *)

\* Mutant: a failure takes the live page along.
FailedForgetsPage(s) ==
    [status |-> "needs_attention", active |-> 0, number |-> 0, flight |-> 0]

\* apply_build_failed
Failed(s) == [s EXCEPT !.status = IF s.active # 0 THEN "ready" ELSE "needs_attention",
                       !.flight = 0]

\* mark_run_succeeded and mark_run_cancelled: what a stop ended stays ended,
\* and a stop ends nothing twice.
RunSucceeded(status) == IF status = "cancelled" THEN status ELSE "succeeded"
RunCancelled(status) ==
    IF status \in {"succeeded", "failed", "cancelled"} THEN status ELSE "cancelled"

Alive(r) == job[r] \in {"queued", "running"}

\* Mutant: only a job that is gone counts as lost.
GoneJob == sess.status = "build_running" /\ job[sess.flight] = "absent"

\* The build in flight has no job any more.
Lost == sess.status = "build_running" /\ ~ Alive(sess.flight)

\* _reconcile_locked, which every operation starts with: WORKER_LOST.
Sess == IF Lost THEN Failed(sess) ELSE sess
Ver == IF Lost THEN [ver EXCEPT ![sess.flight] = Broken(@, "failed")] ELSE ver
Run == IF Lost THEN [run EXCEPT ![sess.flight] = "failed"] ELSE run

\* A run, its job and the state that names them.
Launch(r, op, base) ==
    /\ task[r].op = "none" /\ \A q \in 1 .. r - 1 : task[q].op # "none"
    /\ task' = [task EXCEPT ![r] = [op |-> op, base |-> base]]
    /\ run' = [Run EXCEPT ![r] = "pending"]
    /\ job' = [job EXCEPT ![r] = "queued"]
    /\ sess' = [Sess EXCEPT !.status = "build_running", !.flight = r]
    /\ ver' = Ver
    /\ UNCHANGED <<exec, site, faults>>

\* The first build, or another after a failure, of the approved content, if
\* the template can hold it.
Start(r) ==
    /\ Sess.status \in {"not_started", "needs_attention"} /\ Buildable
    /\ Launch(r, "build", Approved)

\* A chat message: the live page's content is what the change is made to.
PostMessage(r) ==
    /\ Sess.status = "ready" /\ Sess.active # 0 /\ Servable(Sess.active)
    /\ Launch(r, "change", ver[Sess.active].content)

\* A poll of the state (and what start, a message and a restore do first).
Reconcile ==
    /\ Lost
    /\ sess' = Sess /\ ver' = Ver /\ run' = Run
    /\ UNCHANGED <<task, job, exec, site, faults>>

\* _not_restorable: neither the live page nor one that cannot be shown.
Restorable(v) == v # Sess.active /\ Servable(v)

\* A copy of the source becomes the newest version and the live page.
Restore(new, source) ==
    /\ ver[new].status = "none" /\ \A v \in Restores : v < new => ver[v].status # "none"
    /\ Sess.status = "ready" /\ Restorable(source)
    /\ \E seq, num \in 1 .. MaxBuilds + MaxRestores :
          /\ NextSeq(seq) /\ NextNumber(num)
          /\ LET rows == [Ver EXCEPT ![new] = Copied(ver[source], seq, num)]
             IN  ver' = Without(rows, Pruned(rows, new))
          /\ sess' = [Sess EXCEPT !.active = new, !.number = num]
    /\ run' = Run
    /\ UNCHANGED <<task, job, exec, site, faults>>

\* JobRepository.cancel and mark_cancelled leave what is terminal alone.
Stop ==
    LET r == sess.flight
    IN  /\ sess.status = "build_running"
        /\ sess' = Failed(sess)
        /\ job' = IF Alive(r) THEN [job EXCEPT ![r] = "cancelled"] ELSE job
        /\ ver' = [ver EXCEPT ![r] = Broken(@, "cancelled")]
        /\ run' = [run EXCEPT ![r] = RunCancelled(@)]
        /\ UNCHANGED <<task, exec, site, faults>>

-----------------------------------------------------------------------------
(* The job queue, for a job with one attempt (module JobQueue).             *)

Claim(r) ==
    /\ job[r] = "queued" /\ Cardinality({q \in Builds : exec[q].pc # "none"}) < Slots
    /\ \/ job' = [job EXCEPT ![r] = "running"] /\ exec' = [exec EXCEPT ![r].pc = "open"]
       \/ job' = [job EXCEPT ![r] = "failed"] /\ UNCHANGED exec  \* the fence refused
    /\ UNCHANGED <<sess, ver, task, run, site, faults>>

\* The lease ran out: the row fails without the handler being told.
Recover(r) ==
    /\ job[r] = "running"
    /\ IF exec[r].pc = "none" THEN UNCHANGED faults ELSE faults < MaxFaults /\ faults' = faults + 1
    /\ job' = [job EXCEPT ![r] = "failed"]
    /\ UNCHANGED <<sess, ver, task, run, exec, site>>

Crash(r) ==
    /\ exec[r].pc # "none" /\ faults < MaxFaults
    /\ faults' = faults + 1
    /\ exec' = [exec EXCEPT ![r] = NoExec]
    /\ UNCHANGED <<sess, ver, task, run, job, site>>

-----------------------------------------------------------------------------
(* The build handler.                                                       *)

\* _job_is_ours: one attempt has one lease, so a running row is the execution's.
Ours(r) == job[r] = "running"

\* in_flight_matches
Matches(r) == sess.status = "build_running" /\ sess.flight = r

Goes(r, pc) == exec' = [exec EXCEPT ![r].pc = pc]

\* Mutant: the handler's last line is missing.
ReturnsNothing(r, out) == exec' = [exec EXCEPT ![r] = [NoExec EXCEPT !.pc = "settle"]]

Returns(r, out) == exec' = [exec EXCEPT ![r] = [NoExec EXCEPT !.pc = "settle", !.out = out]]

\* Before the lock: the job's row, then the fence, which may refuse.
Open(r) ==
    /\ exec[r].pc = "open"
    /\ \/ Ours(r) /\ Goes(r, "enter")
       \/ Ours(r) /\ Returns(r, "failed")
       \/ ~ Ours(r) /\ Returns(r, "cancelled")
    /\ UNCHANGED <<sess, ver, task, run, job, site, faults>>

NewRow(r, content, hid, seq) == ver' = [ver EXCEPT ![r] = Fresh(content, hid, seq)]

\* A build has its row before it starts; a change waits for the interpreter.
Enter(r) ==
    /\ exec[r].pc = "enter"
    /\ \/ Matches(r) /\ run' = [run EXCEPT ![r] = "running"]
          /\ \/ /\ task[r].op = "build"
                /\ \E seq \in 1 .. MaxBuilds + MaxRestores :
                      NextSeq(seq) /\ NewRow(r, task[r].base, {}, seq)
                /\ exec' = [exec EXCEPT ![r].pc = "announce", ![r].content = task[r].base]
             \/ task[r].op = "change" /\ Goes(r, "interpret") /\ UNCHANGED ver
       \/ ~ Matches(r) /\ Returns(r, "cancelled") /\ UNCHANGED <<ver, run>>
    /\ UNCHANGED <<sess, task, job, site, faults>>

\* The interpreter's model call and decide_change: an error, a reply, or new
\* content, with what a privacy request took off the page.
Interpret(r) ==
    /\ exec[r].pc = "interpret"
    /\ \/ Goes(r, "record")
       \/ \E decision \in Changes[task[r].base] :
             IF decision.kind = "reply" THEN Goes(r, "reply")
             ELSE exec' = [exec EXCEPT ![r] = [NoExec EXCEPT
                             !.pc = "create", !.content = decision.content,
                             !.hid = decision.removed]]
    /\ UNCHANGED <<sess, ver, task, run, job, site, faults>>

\* _finish_reply
Reply(r) ==
    /\ exec[r].pc = "reply"
    /\ \/ /\ Ours(r) /\ Matches(r)
          /\ sess' = [sess EXCEPT !.status = "ready", !.flight = 0]
          /\ run' = [run EXCEPT ![r] = RunSucceeded(@)]
          /\ Returns(r, "succeeded")
       \/ ~ (Ours(r) /\ Matches(r)) /\ Returns(r, "cancelled") /\ UNCHANGED <<sess, run>>
    /\ UNCHANGED <<ver, task, job, site, faults>>

\* _create_change_version
Create(r) ==
    /\ exec[r].pc = "create"
    /\ \/ /\ Ours(r) /\ Matches(r)
          /\ \E seq \in 1 .. MaxBuilds + MaxRestores :
                NextSeq(seq) /\ NewRow(r, exec[r].content, exec[r].hid, seq)
          /\ Goes(r, "announce")
       \/ ~ (Ours(r) /\ Matches(r)) /\ Returns(r, "cancelled") /\ UNCHANGED ver
    /\ UNCHANGED <<sess, task, run, job, site, faults>>

\* on_stage reads the job and then writes the row, without the session's lock.
Announce(r) ==
    /\ exec[r].pc = "announce"
    /\ \/ Ours(r) /\ Goes(r, "mark")
       \/ ~ Ours(r) /\ Returns(r, "cancelled")
    /\ UNCHANGED <<sess, ver, task, run, job, site, faults>>

Mark(r) ==
    /\ exec[r].pc = "mark"
    /\ ver' = [ver EXCEPT ![r] = Announced(@, exec[r].stage)]
    /\ Goes(r, "work")
    /\ UNCHANGED <<sess, task, run, job, site, faults>>

Reports(r, stage) == [exec[r] EXCEPT !.pc = "announce", !.stage = stage]

\* build_page, its only model call: no page, or one of those a model writes.
Generate(r) ==
    /\ exec[r].pc = "work" /\ exec[r].stage = "generating"
    /\ \/ Goes(r, "record")
       \/ \E page \in Pages(site.theme, exec[r].content) :
             IF page.failed = "generate" THEN Goes(r, "record")
             ELSE exec' = [exec EXCEPT ![r] = [Reports(r, "validating") EXCEPT !.page = page]]
    /\ UNCHANGED <<sess, ver, task, run, job, site, faults>>

Promotes(r, seen) == exec' = [exec EXCEPT ![r].pc = "promote", ![r].stage = "generating",
                                          ![r].seen = seen]

\* build_page, validation and the seal: nothing is corrected, and where the
\* browser is off nothing else is looked at.
Validates(r) ==
    /\ exec[r].pc = "work" /\ exec[r].stage = "validating"
    /\ \/ Goes(r, "record")
       \/ exec[r].page.failed = "no" /\ site.browser = "off" /\ Promotes(r, "not_run")
       \/ /\ exec[r].page.failed = "no" /\ site.browser # "off"
          /\ exec' = [exec EXCEPT ![r] = Reports(r, "verifying")]
    /\ UNCHANGED <<sess, ver, task, run, job, site, faults>>

\* build_page, the browser: what it finds keeps the page back.
Verifies(r) ==
    /\ exec[r].pc = "work" /\ exec[r].stage = "verifying"
    /\ \/ Goes(r, "record")
       \/ \E seen \in Sights[site.browser] \ {"failed"} : Promotes(r, seen)
    /\ UNCHANGED <<sess, ver, task, run, job, site, faults>>

\* Mutant: nothing is restricted.
NoneShowing(r, hid) == {}

\* _restrict_older_versions
Showing(r, hid) == {v \in Ready \ {r} : ~ ver[v].restricted
                                    /\ Leaves[ver[v].content] \cap hid # {}}

\* The page goes live: the row, the state, the run, the restriction of older
\* pages and the pruning are one transaction.
GoLive(r) ==
    \E num \in 1 .. MaxBuilds + MaxRestores :
        LET live == [ver EXCEPT ![r] = MadeReady(@, num, exec[r].page, exec[r].seen)]
            rows == Restricted(live, Showing(r, ver[r].hid))
        IN  /\ NextNumber(num)
            /\ ver' = Without(rows, Pruned(rows, r))
            /\ sess' = [status |-> "ready", active |-> r, number |-> num, flight |-> 0]
            /\ run' = [run EXCEPT ![r] = RunSucceeded(@)]

Promote(r) ==
    /\ exec[r].pc = "promote"
    /\ \/ /\ Ours(r) /\ Matches(r) /\ ver[r].status \in OpenStatus
          /\ GoLive(r) /\ Returns(r, "succeeded")
       \/ /\ ~ (Ours(r) /\ Matches(r) /\ ver[r].status \in OpenStatus)
          /\ Returns(r, "cancelled") /\ UNCHANGED <<sess, ver, run>>
       \/ Ours(r) /\ Goes(r, "record") /\ UNCHANGED <<sess, ver, run>>  \* the fence, the database
    /\ UNCHANGED <<task, job, site, faults>>

\* _persist_failure_from_payload: for the handler's own failure, for the
\* worker's timeout, and for its terminal-failure hook.
Persist(r) ==
    IF Matches(r)
    THEN /\ sess' = Failed(sess)
         /\ ver' = [ver EXCEPT ![r] = Broken(@, "failed")]
         /\ run' = [run EXCEPT ![r] = "failed"]
    ELSE UNCHANGED <<sess, ver, run>>

Record(r) ==
    /\ exec[r].pc = "record"
    /\ Persist(r) /\ Returns(r, "failed")
    /\ UNCHANGED <<task, job, site, faults>>

\* asyncio.wait_for cancels the handler wherever it awaits.
Timeout(r) ==
    /\ exec[r].pc \notin {"none", "record", "hook"} /\ exec[r].out # "failed"
    /\ exec' = [exec EXCEPT ![r] = [NoExec EXCEPT !.pc = "record"]]
    /\ UNCHANGED <<sess, ver, task, run, job, site, faults>>

\* What the worker makes of the result: a row it still holds is written, but
\* not for "cancelled"; a row it failed, and "cancelled", call the hook.
Settle(r) ==
    LET out == exec[r].out
    IN  /\ exec[r].pc = "settle"
        /\ job' = IF Ours(r) /\ out # "cancelled" THEN [job EXCEPT ![r] = out] ELSE job
        /\ IF out = "cancelled" \/ (out = "failed" /\ Ours(r))
           THEN exec' = [exec EXCEPT ![r] = [NoExec EXCEPT !.pc = "hook"]]
           ELSE exec' = [exec EXCEPT ![r] = NoExec]
        /\ UNCHANGED <<sess, ver, task, run, site, faults>>

Hook(r) ==
    /\ exec[r].pc = "hook"
    /\ Persist(r)
    /\ exec' = [exec EXCEPT ![r] = NoExec]
    /\ UNCHANGED <<task, job, site, faults>>

Handler(r) ==
    \/ Open(r) \/ Enter(r) \/ Interpret(r) \/ Reply(r) \/ Create(r) \/ Announce(r) \/ Mark(r)
    \/ Generate(r) \/ Validates(r) \/ Verifies(r) \/ Promote(r) \/ Record(r) \/ Settle(r)
    \/ Hook(r)

-----------------------------------------------------------------------------
(* The retention sweep.                                                     *)

NewerReady(v) == \E u \in Ready : ver[u].seq > ver[v].seq

\* The predicate of the sweep, as it is written: of the pages that are ready
\* it takes those that have no newer one.
Swept == {v \in Rows : /\ ver[v].status \in EndStatus /\ v # sess.active
                       /\ ver[v].status = "ready" => ~ NewerReady(v)}

\* Which of them are past their time to live is left open.
Sweep ==
    /\ \E aged \in SUBSET Swept \ {{}} : ver' = Without(ver, aged)
    /\ UNCHANGED <<sess, task, run, job, exec, site, faults>>

-----------------------------------------------------------------------------
Next ==
    \/ \E r \in Builds : Start(r) \/ PostMessage(r) \/ Claim(r) \/ Recover(r)
                         \/ Handler(r) \/ Timeout(r) \/ Crash(r)
    \/ \E new \in Restores, source \in Versions : Restore(new, source)
    \/ Reconcile \/ Stop \/ Sweep

Spec == Init /\ [][Next]_vars

\* Workers poll for ever, a handler runs under wait_for, and an open page
\* polls the state while a build runs.
Fairness ==
    /\ WF_vars(Reconcile)
    /\ \A r \in Builds : WF_vars(Claim(r)) /\ WF_vars(Recover(r) /\ UNCHANGED faults)
                         /\ WF_vars(Handler(r))

FairSpec == Spec /\ Fairness

-----------------------------------------------------------------------------
(* Properties.                                                              *)

\* A page in reach of a visitor shows what its content says, all of it and
\* nothing else, whatever the model wrote; and where a browser has to look at
\* a page, it has.
Sound(v) ==
    /\ Promises(site.theme, ver[v].content) \subseteq ver[v].shown
    /\ ver[v].shown \subseteq Permits(site.theme, ver[v].content)
    /\ site.browser = "required" => ver[v].seen = "passed"

\* The live page can be shown: its row exists, is ready and not restricted,
\* and has the number the session names.  No prune, sweep, restriction, late
\* failure or stop takes it away.  It is the newest ready page by both of its
\* counters, though both are computed again from the rows that pruning and the
\* sweep left.
LivePageSound ==
    /\ sess.status = "ready" => sess.active # 0
    /\ sess.active # 0 => /\ Servable(sess.active) /\ ver[sess.active].num = sess.number
                          /\ \A v \in Ready \ {sess.active} :
                                ver[v].seq < ver[sess.active].seq /\ ver[v].num < sess.number
    /\ \A v \in Ready : Sound(v)

\* The run and the row of a build agree on how it ended, whichever of the
\* handler, the hooks, stop and reconciliation got there first; and a row that
\* is being built belongs to the build in flight: no late progress report of a
\* stopped or lost build leaves a row that never ends.
RowsAgree ==
    \A r \in Builds :
        /\ ver[r].status = "ready" => run[r] = "succeeded"
        /\ ver[r].status = "failed" => run[r] = "failed"
        /\ ver[r].status = "cancelled" => run[r] = "cancelled"
        /\ ver[r].status \in OpenStatus => Matches(r)

\* Once a request to hide something is live, no older page that can be shown
\* has the text it took away, by restore or otherwise.
HiddenStaysHidden ==
    \A v \in Ready, u \in Ready :
        ver[u].num < ver[v].num /\ ~ ver[u].restricted => ver[u].shown \cap ver[v].hid = {}

Page == INSTANCE LivePage WITH
    building <- sess.status = "build_running",
    number <- sess.number

\* One build at a time, and a live page that only moves to a higher number.
KeepsLivePage == Page!Spec

\* A build that runs ends, also when its worker dies and nothing tells the session.
BuildEnds == sess.status = "build_running" ~> sess.status # "build_running"

=============================================================================
