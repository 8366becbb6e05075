------------------------------ MODULE Accounts ------------------------------
(***************************************************************************)
(* Accounts, the portfolios they own, and the administrator's operations   *)
(* on both (auth/admin/service.py), with admission (auth/repository.py),   *)
(* entitlements (auth/entitlements.py), the reset of a portfolio           *)
(* (runtime/pipeline_reset.py) and the fence that a worker's job passes    *)
(* (auth/worker_fence.py).                                                 *)
(*                                                                         *)
(* An operation that calls the identity provider, or cleans external       *)
(* storage, is several transactions of one request, and other requests run *)
(* in between.  Its database session keeps the rows it has read            *)
(* (expire_on_commit=False, db/session.py), and a later SELECT ... FOR     *)
(* UPDATE without populate_existing locks them but does not refresh them:  *)
(* what the request checks then is what it read first, held here in        *)
(* "named" and "seen".  So does the request of an administrator that       *)
(* creates a portfolio: it is one from its first read on ("creating").     *)
(*                                                                         *)
(* The provider accepts or fails a call, and an identity is the e-mail     *)
(* address it proves.  An account that was readmitted has neither subject  *)
(* nor address: its address is Released.                                   *)
(***************************************************************************)
EXTENDS Naturals, FiniteSets

CONSTANTS
    Emails,         \* the addresses that sign in
    AdminEmails,    \* those of admin_bootstrap_emails
    FirstAdmin,     \* the one that signs in first
    Released,       \* the address of an account that was readmitted
    NormalLimit,    \* normal_user_limit
    MaxAccounts,    \* bound: accounts that are ever created
    MaxPortfolios,  \* bound: portfolios that are ever created
    Ops,            \* bound: requests in flight and deletions waiting to be resumed
    MaxActs         \* bound: administrators' operations, resets, resumptions and lost leases

ASSUME AccountsAssumption ==
    /\ AdminEmails \subseteq Emails /\ FirstAdmin \in AdminEmails /\ Released \notin Emails
    /\ NormalLimit \in Nat /\ MaxAccounts \in Nat \ {0} /\ MaxPortfolios \in Nat
    /\ MaxActs \in Nat

VARIABLES
    user,       \* app_users
    tomb,       \* accounts that have a row of deleted_identity_tombstones
    ent,        \* portfolio_entitlements; a row with its defaults is as none
    portfolio,  \* portfolio_sessions, and the job of each
    op,         \* the requests in flight, and admin_operations to be resumed
    acts        \* operations so far

vars == <<user, tomb, ent, portfolio, op, acts>>

Accounts == 1 .. MaxAccounts
Portfolios == 1 .. MaxPortfolios

User ==
    [status : {"none", "active", "suspended", "deletion_pending", "deleted"},
     role : {"user", "admin"}, email : Emails \cup {Released}, named : BOOLEAN]

\* live is portfolio_session_id; dead: deleted_portfolio_session_id is set.
Entitlement == [live : 0 .. MaxPortfolios, dead : BOOLEAN]

\* work is the row of the job; "claimed": it is running, but its handler has not
\* yet passed the fence.  outlived: a handler that passed it goes on without its
\* row.  was_reset: reset_pipeline has once made the portfolio active; late: it
\* was created by a request that read its account as an administrator's, for an
\* account that was a user's by then.
Portfolio ==
    [status : {"none", "active", "deletion_pending", "removed"}, owner : 0 .. MaxAccounts,
     work : {"idle", "queued", "claimed", "running"}, outlived : BOOLEAN, was_reset : BOOLEAN,
     late : BOOLEAN]

\* todo: portfolios still to be removed; at: the one whose external storage is
\* being cleaned.
Op ==
    [pc : {"idle", "creating", "restoring", "checking", "cleaning", "resetting", "retryable"},
     action : {"none", "create", "restore", "delete", "project_delete", "reset"},
     target : 0 .. MaxAccounts, todo : SUBSET Portfolios, at : 0 .. MaxPortfolios,
     seen : {"none", "active", "suspended", "deletion_pending"}, named : BOOLEAN]

NoEntitlement == [live |-> 0, dead |-> FALSE]
NoPortfolio == [status |-> "none", owner |-> 0, work |-> "idle", outlived |-> FALSE,
                was_reset |-> FALSE, late |-> FALSE]
NoOp == [pc |-> "idle", action |-> "none", target |-> 0, todo |-> {}, at |-> 0,
         seen |-> "none", named |-> FALSE]

\* The first administrator has signed in and claimed a username.
Init ==
    /\ user = [a \in Accounts |->
                 IF a = 1
                 THEN [status |-> "active", role |-> "admin", email |-> FirstAdmin, named |-> TRUE]
                 ELSE [status |-> "none", role |-> "user", email |-> Released, named |-> FALSE]]
    /\ tomb = {}
    /\ ent = [a \in Accounts |-> NoEntitlement]
    /\ portfolio = [p \in Portfolios |-> NoPortfolio]
    /\ op = [o \in Ops |-> NoOp]
    /\ acts = 0

-----------------------------------------------------------------------------
Exists(a) == user[a].status # "none"
HasRow(p) == portfolio[p].status \in {"active", "deletion_pending"}
Owned(a) == {p \in Portfolios : HasRow(p) /\ portfolio[p].owner = a}

\* A request of the account's own passes require_onboarded_user.
SignedIn(a) == user[a].status = "active" /\ user[a].named

\* _validate_admin_actor; active_admin_count counts the same accounts.
ActiveAdmin(a) == SignedIn(a) /\ user[a].role = "admin"
ActiveAdmins == {a \in Accounts : ActiveAdmin(a)}

\* Mutant: suspended accounts give their place to others.
CountedActive == {a \in Accounts : user[a].role = "user" /\ user[a].status = "active"}

\* The accounts that count against normal_user_limit
Counted ==
    {a \in Accounts : /\ user[a].role = "user"
                      /\ user[a].status \in {"active", "suspended", "deletion_pending"}}

\* Mutant: no check of the actor or of the last administrator, as in a resume.
MayRemoveAnyone(actor, a) == TRUE

\* Suspending and deleting: not oneself, not the last active administrator.
MayRemove(actor, a) ==
    /\ actor # a
    /\ user[a].role = "admin" /\ user[a].status = "active" => Cardinality(ActiveAdmins) > 1

\* One more operation
Act == acts < MaxActs /\ acts' = acts + 1

\* Only the next slot is used, which loses no behaviour.
NextAccount(a) == ~ Exists(a) /\ \A b \in Accounts : b < a => Exists(b)
NextPortfolio(p) ==
    /\ portfolio[p].status = "none"
    /\ \A q \in Portfolios : q < p => portfolio[q].status # "none"

-----------------------------------------------------------------------------
(* Requests of the account's own.                                           *)

\* provision_or_get.  A kept tombstone, another account or a deleted one bars
\* the address, and all of them are accounts that still have it.
Admit(a, e) ==
    /\ NextAccount(a)
    /\ \A b \in Accounts : user[b].email # e
    /\ e \notin AdminEmails => Cardinality(Counted) < NormalLimit
    /\ user' = [user EXCEPT ![a] =
                  [status |-> "active", role |-> IF e \in AdminEmails THEN "admin" ELSE "user",
                   email |-> e, named |-> FALSE]]
    /\ UNCHANGED <<tomb, ent, portfolio, op, acts>>

ClaimUsername(a) ==
    /\ user[a].status = "active" /\ ~ user[a].named
    /\ user' = [user EXCEPT ![a].named = TRUE]
    /\ UNCHANGED <<tomb, ent, portfolio, op, acts>>

\* get_or_create_session, for a user.  ensure_for_normal_user reads the role and
\* the status again, under the lock of the account's row.
CreatePortfolio(a, p) ==
    /\ SignedIn(a) /\ user[a].role = "user" /\ ent[a] = NoEntitlement /\ NextPortfolio(p)
    /\ portfolio' = [portfolio EXCEPT ![p].status = "active", ![p].owner = a]
    /\ ent' = [ent EXCEPT ![a].live = p]
    /\ UNCHANGED <<user, tomb, op, acts>>

\* current_user reads the account, then locks its row without refreshing it: role,
\* status and username are those of the first read.
EnterAsAdmin(o, a) ==
    /\ Act
    /\ op[o] = NoOp /\ ActiveAdmin(a)
    /\ op' = [op EXCEPT ![o] = [NoOp EXCEPT !.pc = "creating", !.action = "create", !.target = a]]
    /\ UNCHANGED <<user, tomb, ent, portfolio>>

\* create_owned, in the transaction that holds the lock.  The lock finds no row
\* once the account has lost its subject.
CreateAsAdmin(o, p) ==
    LET a == op[o].target IN
    /\ op[o].pc = "creating" /\ NextPortfolio(p) /\ user[a].email # Released
    /\ portfolio' = [portfolio EXCEPT ![p] = [@ EXCEPT !.status = "active", !.owner = a,
                                                      !.late = user[a].role = "user"]]
    /\ op' = [op EXCEPT ![o] = NoOp]
    /\ UNCHANGED <<user, tomb, ent, acts>>

\* require_pipeline_mutable lets the owner queue work whatever the portfolio's
\* status is.  Bound: one job at a time.
Enqueue(a, p) ==
    /\ SignedIn(a) /\ p \in Owned(a) /\ \A q \in Portfolios : portfolio[q].work = "idle"
    /\ user[a].role = "user" => ent[a].live = p
    /\ portfolio' = [portfolio EXCEPT ![p].work = "queued"]
    /\ UNCHANGED <<user, tomb, ent, op, acts>>

-----------------------------------------------------------------------------
(* Workers.                                                                 *)

ClaimWork(p) ==
    /\ portfolio[p].work = "queued"
    /\ portfolio' = [portfolio EXCEPT ![p].work = "claimed"]
    /\ UNCHANGED <<user, tomb, ent, op, acts>>

\* Mutant: the fence looks at the owner and not at the portfolio.
FenceOfOwner(p) == user[portfolio[p].owner].status = "active"

\* WorkerAuthorizationFence.validate_job, for a job whose actor is the owner
MayWork(p) ==
    LET a == portfolio[p].owner IN
    /\ portfolio[p].status = "active" /\ user[a].status = "active"
    /\ user[a].role = "user" => ent[a].live = p

StartWork(p) ==
    /\ portfolio[p].work = "claimed"
    /\ portfolio' = [portfolio EXCEPT ![p].work = IF MayWork(p) THEN "running" ELSE "idle"]
    /\ UNCHANGED <<user, tomb, ent, op, acts>>

\* The handler ends, or is lost with its worker, and the job's row with it: it
\* is finished or queued again.  A lost lease ends a handler that has not passed
\* the fence as well, which looks for the row, its attempt and its token.
EndWork(p) ==
    /\ portfolio[p].work \in {"claimed", "running"}
    /\ \E w \in {"idle", "queued"} : portfolio' = [portfolio EXCEPT ![p].work = w]
    /\ UNCHANGED <<user, tomb, ent, op, acts>>

\* The lease runs out under a handler that has passed the fence: the row is queued
\* again or has failed for good, and the handler goes on.
LoseLease(p) ==
    /\ Act
    /\ portfolio[p].work = "running"
    /\ \E w \in {"idle", "queued"} :
          portfolio' = [portfolio EXCEPT ![p] = [@ EXCEPT !.work = w, !.outlived = TRUE]]
    /\ UNCHANGED <<user, tomb, ent, op>>

EndOutlived(p) ==
    /\ portfolio[p].outlived
    /\ portfolio' = [portfolio EXCEPT ![p].outlived = FALSE]
    /\ UNCHANGED <<user, tomb, ent, op, acts>>

\* The row of the job is deleted, whether or not a handler is at work on it.
WithoutJob(p, status) ==
    [portfolio[p] EXCEPT !.status = status, !.work = "idle",
                         !.outlived = @ \/ portfolio[p].work = "running"]

-----------------------------------------------------------------------------
(* The administrator's operations of one transaction.                       *)

\* suspend_user.  The provider's ban follows, and its failure changes nothing
\* here.  The row's constraint refuses an account without a subject.
Suspend(actor, a) ==
    /\ Act
    /\ ActiveAdmin(actor) /\ Exists(a) /\ MayRemove(actor, a)
    /\ user[a].email # Released
    /\ user' = [user EXCEPT ![a].status = "suspended"]
    /\ UNCHANGED <<tomb, ent, portfolio, op>>

\* reset_entitlement: a user whose portfolio was deleted may create another.
ResetEntitlement(a) ==
    /\ Act
    /\ ActiveAdmins # {}
    /\ user[a].role = "user" /\ ent[a].dead /\ ent[a].live = 0
    /\ ent' = [ent EXCEPT ![a].dead = FALSE]
    /\ UNCHANGED <<user, tomb, portfolio, op>>

Promote(a) ==
    /\ Act
    /\ ActiveAdmins # {}
    /\ user[a].role = "user" /\ user[a].status = "active"
    /\ user' = [user EXCEPT ![a].role = "admin"]
    /\ ent' = [ent EXCEPT ![a] = NoEntitlement]
    /\ UNCHANGED <<tomb, portfolio, op>>

\* demote_user; the limit it compares with is the literal 15.
Demote(actor, a) ==
    /\ Act
    /\ ActiveAdmin(actor) /\ actor # a
    /\ user[a].role = "admin" /\ user[a].status = "active"
    /\ Cardinality(ActiveAdmins) > 1
    /\ Cardinality(Counted) < NormalLimit
    /\ Cardinality(Owned(a)) <= 1
    /\ user' = [user EXCEPT ![a].role = "user"]
    /\ ent' = [ent EXCEPT ![a].live = IF Owned(a) = {} THEN @ ELSE CHOOSE p \in Owned(a) : TRUE]
    /\ UNCHANGED <<tomb, portfolio, op>>

\* Mutant: the account's own status is not looked at again.
ReadmitAnyStatus(a) ==
    /\ Act
    /\ ActiveAdmins # {} /\ a \in tomb /\ user[a].email # Released
    /\ user' = [user EXCEPT ![a].email = Released]
    /\ UNCHANGED <<tomb, ent, portfolio, op>>

\* readmit_identity: the tombstone is approved and the address is free.
Readmit(a) ==
    /\ Act
    /\ ActiveAdmins # {} /\ a \in tomb /\ user[a].email # Released
    /\ user[a].status = "deleted"
    /\ user' = [user EXCEPT ![a].email = Released]
    /\ UNCHANGED <<tomb, ent, portfolio, op>>

-----------------------------------------------------------------------------
(* Restoring an account: the provider is called between two transactions.   *)

Restore(o, a) ==
    /\ Act
    /\ op[o] = NoOp /\ ActiveAdmins # {}
    /\ Exists(a) /\ user[a].status # "deleted"
    /\ op' = [op EXCEPT ![o] = [NoOp EXCEPT !.pc = "restoring", !.action = "restore",
                                            !.target = a, !.seen = user[a].status]]
    /\ UNCHANGED <<user, tomb, ent, portfolio>>

\* The second check for a deleted account sees the status of the first, and a
\* status that was active then is not written.  The row's constraint refuses
\* an account that was readmitted.
RestoreFinal(o) ==
    LET a == op[o].target IN
    /\ op[o].pc = "restoring"
    /\ user' = IF op[o].seen = "active" \/ user[a].email = Released THEN user
               ELSE [user EXCEPT ![a].status = "active"]
    /\ op' = [op EXCEPT ![o] = NoOp]
    /\ UNCHANGED <<tomb, ent, portfolio, acts>>

-----------------------------------------------------------------------------
(* Deleting accounts and portfolios.                                        *)

\* The portfolios ps once new work is refused: cancel_queued_jobs
Fenced(ps) ==
    [p \in Portfolios |->
       IF p \notin ps THEN portfolio[p]
       ELSE [portfolio[p] EXCEPT !.status = "deletion_pending",
                                 !.work = IF @ = "queued" THEN "idle" ELSE @]]

\* The first transaction of _complete_user_delete
FenceAccount(o, a) ==
    /\ user' = [user EXCEPT ![a].status = "deletion_pending"]
    /\ portfolio' = Fenced(Owned(a))
    /\ op' = [op EXCEPT ![o] = [NoOp EXCEPT !.pc = "checking", !.action = "delete", !.target = a,
                                            !.todo = Owned(a), !.named = user[a].named]]
    /\ UNCHANGED <<tomb, ent>>

\* delete_user; for a deleted account it only completes the operation.
DeleteUser(o, actor, a) ==
    /\ Act
    /\ op[o] = NoOp /\ ActiveAdmin(actor)
    /\ Exists(a) /\ MayRemove(actor, a) /\ user[a].status # "deleted"
    /\ FenceAccount(o, a)

DeleteProject(o, p) ==
    /\ Act
    /\ op[o] = NoOp /\ ActiveAdmins # {} /\ HasRow(p)
    /\ portfolio' = Fenced({p})
    /\ op' = [op EXCEPT ![o] = [NoOp EXCEPT !.pc = "checking", !.action = "project_delete",
                                            !.todo = {p}]]
    /\ UNCHANGED <<user, tomb, ent>>

\* finish_operation with a failure that may be retried: the operation stays.
Retryable(o) ==
    [NoOp EXCEPT !.pc = "retryable", !.action = op[o].action, !.target = op[o].target,
                 !.todo = IF op[o].action = "delete" THEN {} ELSE op[o].todo]

\* count_running_jobs looks at the rows, not at the handlers.
MustWait(p) == portfolio[p].work \in {"claimed", "running"}

CheckIdle(o, p) ==
    /\ op[o].pc = "checking" /\ p \in op[o].todo
    /\ op' = [op EXCEPT ![o] = IF MustWait(p) THEN Retryable(o)
                              ELSE [@ EXCEPT !.pc = "cleaning", !.at = p]]
    /\ UNCHANGED <<user, tomb, ent, portfolio, acts>>

\* What an operation does after a portfolio: the account's next one, or nothing.
\* A portfolio that is already gone leaves project_delete running for ever.
AfterRemoval(o) ==
    IF op[o].action = "delete"
    THEN [op EXCEPT ![o].pc = "checking", ![o].todo = @ \ {op[o].at}, ![o].at = 0]
    ELSE [op EXCEPT ![o] = NoOp]

\* finalize_project_delete, once external storage is clean
FinalizeProject(o) ==
    LET p == op[o].at
        a == portfolio[p].owner IN
    /\ op[o].pc = "cleaning"
    /\ op' = AfterRemoval(o)
    /\ IF HasRow(p)
       THEN /\ portfolio' = [portfolio EXCEPT ![p] = WithoutJob(p, "removed")]
            /\ ent' = IF ent[a].live = p THEN [ent EXCEPT ![a] = [live |-> 0, dead |-> TRUE]]
                      ELSE ent
       ELSE UNCHANGED <<portfolio, ent>>
    /\ UNCHANGED <<user, tomb, acts>>

\* The last transaction of _complete_user_delete, once the provider has deleted
\* the identity: the actor, the status and the subject it compares are those
\* the request has read before, so that they always agree.
FinishDelete(o) ==
    LET a == op[o].target IN
    /\ op[o].pc = "checking" /\ op[o].action = "delete" /\ op[o].todo = {}
    /\ user' = [user EXCEPT ![a].status = "deleted", ![a].named = @ /\ ~ op[o].named]
    /\ tomb' = tomb \cup {a}
    /\ op' = [op EXCEPT ![o] = NoOp]
    /\ UNCHANGED <<ent, portfolio, acts>>

\* External storage, or the provider's deletion, fails.
CleanupFails(o) ==
    /\ \/ op[o].pc = "cleaning"
       \/ op[o].pc = "checking" /\ op[o].action = "delete" /\ op[o].todo = {}
    /\ op' = [op EXCEPT ![o] = Retryable(o)]
    /\ UNCHANGED <<user, tomb, ent, portfolio, acts>>

\* resume_operation: a user's deletion starts anew with the account as it is
\* now, a portfolio's goes on without fencing it again.  Any administrator may
\* resume, the account's own as well.
Resume(o) ==
    /\ Act
    /\ op[o].pc = "retryable" /\ ActiveAdmins # {}
    /\ IF op[o].action = "delete"
       THEN IF user[op[o].target].status = "deleted"
            THEN op' = [op EXCEPT ![o] = NoOp] /\ UNCHANGED <<user, tomb, ent, portfolio>>
            ELSE FenceAccount(o, op[o].target)
       ELSE op' = [op EXCEPT ![o].pc = "checking"] /\ UNCHANGED <<user, tomb, ent, portfolio>>

\* The request is lost (its operation stays running, which nothing resumes), a
\* restore's provider call fails, or nobody resumes.
Abandon(o) ==
    /\ op[o] # NoOp
    /\ op' = [op EXCEPT ![o] = NoOp]
    /\ UNCHANGED <<user, tomb, ent, portfolio, acts>>

-----------------------------------------------------------------------------
(* Resetting a portfolio: reset_pipeline.                                   *)

Reset(o, p) ==
    /\ Act
    /\ op[o] = NoOp /\ HasRow(p)
    /\ ActiveAdmins # {} \/ SignedIn(portfolio[p].owner)
    /\ portfolio' = Fenced({p})
    /\ op' = [op EXCEPT ![o] = [NoOp EXCEPT !.pc = "resetting", !.action = "reset", !.at = p]]
    /\ UNCHANGED <<user, tomb, ent>>

\* The portfolio is made active whoever fenced it meanwhile, and no running job is
\* waited for.
ResetFinal(o) ==
    LET p == op[o].at IN
    /\ op[o].pc = "resetting"
    /\ portfolio' = IF ~ HasRow(p) THEN portfolio
                    ELSE [portfolio EXCEPT ![p] = [WithoutJob(p, "active") EXCEPT
                                                     !.was_reset = TRUE]]
    /\ op' = [op EXCEPT ![o] = NoOp]
    /\ UNCHANGED <<user, tomb, ent, acts>>

-----------------------------------------------------------------------------
Next ==
    \/ \E a \in Accounts :
         \/ \E e \in Emails : Admit(a, e)
         \/ ClaimUsername(a) \/ ResetEntitlement(a) \/ Promote(a) \/ Readmit(a)
         \/ \E p \in Portfolios : CreatePortfolio(a, p) \/ Enqueue(a, p)
         \/ \E b \in Accounts : Suspend(b, a) \/ Demote(b, a)
    \/ \E p \in Portfolios :
         ClaimWork(p) \/ StartWork(p) \/ EndWork(p) \/ LoseLease(p) \/ EndOutlived(p)
    \/ \E o \in Ops :
         \/ \E a \in Accounts : EnterAsAdmin(o, a) \/ Restore(o, a)
         \/ \E a \in Accounts, b \in Accounts : DeleteUser(o, b, a)
         \/ \E p \in Portfolios : CreateAsAdmin(o, p) \/ DeleteProject(o, p)
         \/ \E p \in Portfolios : CheckIdle(o, p) \/ Reset(o, p)
         \/ RestoreFinal(o) \/ FinalizeProject(o) \/ FinishDelete(o) \/ CleanupFails(o)
         \/ Resume(o) \/ Abandon(o) \/ ResetFinal(o)

Spec == Init /\ [][Next]_vars

-----------------------------------------------------------------------------
(* Safety.                                                                  *)

\* The types, and the constraints of the tables: an account without a subject
\* is deleted and has a tombstone, and an entitlement does not name a portfolio
\* together with one that was deleted.
TypeOK ==
    /\ user \in [Accounts -> User] /\ tomb \subseteq Accounts
    /\ ent \in [Accounts -> Entitlement] /\ portfolio \in [Portfolios -> Portfolio]
    /\ op \in [Ops -> Op] /\ acts \in 0 .. MaxActs
    /\ \A a \in Accounts :
         /\ Exists(a) /\ user[a].email = Released => user[a].status = "deleted"
         /\ user[a].status = "deleted" => a \in tomb
         /\ ent[a].dead => ent[a].live = 0

\* Users that were never deleted stay within the limit, whoever is suspended,
\* demoted, restored or readmitted, and a user owns no portfolio but the one
\* of the entitlement, whatever the order of promotions, deletions and resets;
\* but for one that a request, begun as an administrator's, created after the
\* demotion.
Late == {p \in Portfolios : portfolio[p].late}
LimitsKept ==
    /\ Cardinality(Counted \ tomb) <= NormalLimit
    /\ \A a \in Accounts :
         Exists(a) /\ user[a].role = "user" => Owned(a) \subseteq {ent[a].live} \cup Late

\* The last active administrator is lost only to a deletion accepted while
\* there was another: one that is resumed by the account itself, or that an
\* earlier restoration did not stop.
LastAdminKept ==
    [][ActiveAdmins # {} /\ ActiveAdmins' = {} =>
         \E o \in Ops : /\ op[o].action = "delete" /\ ActiveAdmins = {op[o].target}
                        /\ op[o].pc \in {"retryable", "checking"}]_vars

\* No portfolio is removed under a handler that passed the fence and still has
\* its job's row, although jobs may be queued and claimed after the running ones
\* were counted; but for a portfolio that a reset made active again.  Handlers
\* that have outlived their row are not waited for.
AtWork(p) == portfolio[p].work = "running" \/ portfolio[p].outlived
OnlyOutlived(p) == portfolio[p].outlived /\ portfolio[p].work # "running"
RemovedIsIdle ==
    [][\A p \in Portfolios :
         /\ portfolio[p].status # "removed" /\ portfolio'[p].status = "removed"
         /\ AtWork(p)
         => portfolio[p].was_reset \/ OnlyOutlived(p)]_portfolio

=============================================================================
