------------------------- MODULE ContentStageProofs -------------------------
(***************************************************************************)
(* Proofs about the Content Architect stage, for every number of builds,   *)
(* of attempts and of faults.                                              *)
(***************************************************************************)
EXTENDS ContentStage, TLAPS

-----------------------------------------------------------------------------
(* Type correctness.                                                       *)

PCs == {"none", "open", "start", "recheck", "call", "apply", "commit",
        "failing", "record", "settle"}
Outs == {"none", "succeeded", "cancelled", "retryable", "permanent"}

LEMMA PCNames ==
    \A pc \in {"open", "start", "recheck", "call", "apply", "commit", "failing",
               "record", "settle"} : pc \in PCs
  BY DEF PCs

HasRead(e, pc, rev) == e \in Exec /\ e.pc = pc /\ e.sawRev = rev

\* Every value a step leaves in exec is an execution record, whose next step
\* and whose read of the revision are the ones the step gives it.
LEMMA ExecTypes ==
    ASSUME NEW e \in Exec, NEW pc \in PCs
    PROVE  /\ HasRead(At(e, pc), pc, 0)
           /\ \A s \in RunStatus : HasRead([e EXCEPT !.pc = pc, !.sawRun = s], pc, e.sawRev)
           /\ \A v \in Nat : HasRead([e EXCEPT !.pc = pc, !.sawRev = v], pc, v)
           /\ \A o \in Outs : HasRead([e EXCEPT !.pc = pc, !.out = o], pc, e.sawRev)
           /\ \A o \in Outs : HasRead([At(e, pc) EXCEPT !.out = o], pc, 0)
<1>1. HasRead(At(e, pc), pc, 0)
  BY DEF HasRead, At, Exec, PCs, RunStatus
<1>2. \A s \in RunStatus : HasRead([e EXCEPT !.pc = pc, !.sawRun = s], pc, e.sawRev)
  BY DEF HasRead, Exec, PCs, RunStatus
<1>3. \A v \in Nat : HasRead([e EXCEPT !.pc = pc, !.sawRev = v], pc, v)
  BY DEF HasRead, Exec, PCs, RunStatus
<1>4. \A o \in Outs : HasRead([e EXCEPT !.pc = pc, !.out = o], pc, e.sawRev)
  BY DEF HasRead, Exec, PCs, Outs, RunStatus
<1>5. \A o \in Outs : HasRead([At(e, pc) EXCEPT !.out = o], pc, 0)
  BY DEF HasRead, At, Exec, PCs, Outs, RunStatus
<1>6. QED BY <1>1, <1>2, <1>3, <1>4, <1>5

\* The records an execution starts and is cut off with.
LEMMA FreshExecTypes ==
    /\ HasRead(NoExec, "none", 0)
    /\ HasRead([NoExec EXCEPT !.pc = "open"], "open", 0)
    /\ HasRead([NoExec EXCEPT !.pc = "failing", !.out = "retryable", !.late = TRUE], "failing", 0)
  BY DEF HasRead, NoExec, Exec, RunStatus

LEMMA InitTyped == Init => TypeOK
  BY ContentStageAssumption
  DEF Init, TypeOK, Session, Job, Exec, NoExec, SessionStatus, RunStatus, JobStatus, Runs, Attempts

LEMMA ApiKeepsType ==
    ASSUME TypeOK, NEW r \in Runs, Start(r) \/ Revise(r) \/ Approve \/ Stop
    PROVE  TypeOK'
<1>1. sess \in Session /\ sess.rev + 1 \in Nat /\ r \in 0 .. MaxRuns
  BY ContentStageAssumption DEF TypeOK, Session, Runs
<1>2. CASE Launch(r)
  <2>1. sess' \in Session
    BY <1>1, <1>2 DEF Launch, BuildRunning, Saved, Session, SessionStatus
  <2>2. job' \in [Runs -> Job]
    BY <1>1, <1>2, ContentStageAssumption DEF Launch, TypeOK, Job, JobStatus
  <2>3. QED BY <1>2, <2>1, <2>2 DEF Launch, TypeOK, RunStatus
<1>3. CASE Approve
  BY <1>1, <1>3 DEF Approve, Approval, Saved, TypeOK, Session, SessionStatus
<1>4. CASE Stop
  <2>1. \A j \in Job : CancelledJob(j) \in Job
    BY DEF CancelledJob, Job, JobStatus
  <2>2. \A s \in RunStatus : CancelledRun(s) \in RunStatus
    BY DEF CancelledRun, RunStatus
  <2>3. sess' \in Session
    BY <1>1, <1>4 DEF Stop, Saved, Session, SessionStatus
  <2>4. job' \in [Runs -> Job] /\ run' \in [Runs -> RunStatus]
    BY <1>4, <2>1, <2>2 DEF Stop, TypeOK
  <2>5. QED BY <1>4, <2>3, <2>4 DEF Stop, TypeOK
<1>5. QED BY <1>2, <1>3, <1>4 DEF Start, Revise

LEMMA QueueKeepsType ==
    ASSUME TypeOK, NEW r \in Runs, Claim(r) \/ Recover(r)
    PROVE  TypeOK'
<1>1. /\ job[r] \in Job /\ job \in [Runs -> Job] /\ MaxAttempts \in Nat \ {0}
      /\ exec \in [Runs -> [Attempts -> Exec]]
      /\ MaxFaults \in Nat /\ faults \in 0 .. MaxFaults
  BY ContentStageAssumption DEF TypeOK
<1>2. CASE Claim(r)
  <2> DEFINE m == job[r].attempt + 1
  <2>1. m \in Attempts /\ m \in 0 .. MaxAttempts
    BY <1>1, <1>2 DEF Claim, Claimable, Job, Attempts
  <2>2. job' \in [Runs -> Job]
    BY <1>1, <1>2, <2>1 DEF Claim, Job, JobStatus
  <2>3. [NoExec EXCEPT !.pc = "open"] \in Exec
    BY FreshExecTypes, Zenon DEF HasRead
  <2>4. exec' \in [Runs -> [Attempts -> Exec]]
    BY <1>1, <1>2, <2>1, <2>3 DEF Claim
  <2>5. QED BY <1>2, <2>2, <2>4 DEF Claim, TypeOK
<1>3. CASE Recover(r)
  <2>1. job' \in [Runs -> Job]
    BY <1>1, <1>3 DEF Recover, Job, JobStatus
  <2>2. faults' \in 0 .. MaxFaults
    BY <1>1, <1>3 DEF Recover
  <2>3. QED BY <1>3, <2>1, <2>2 DEF Recover, TypeOK
<1>4. QED BY <1>2, <1>3

\* What a step of a handler, or its end, does to its execution: what it newly
\* remembers of the session is the revision of now, and it is about to commit
\* only with a build it has just seen to be the session's own.
ExecMoves(r, n) ==
    \E e \in Exec :
        /\ exec' = [exec EXCEPT ![r][n] = e]
        /\ e.sawRev \in {0, exec[r][n].sawRev, sess.rev}
        /\ e.pc = "commit" => e.sawRev = sess.rev /\ Owns(r) /\ sess' = sess

LEMMA Leaves ==
    ASSUME TypeOK, NEW r \in Runs, NEW n \in Attempts
    PROVE  /\ \A pc \in {"recheck", "call", "apply", "settle"} :
                 Goes(r, n, pc) => ExecMoves(r, n)
           /\ \A out \in Outs : Returns(r, n, out) => ExecMoves(r, n)
           /\ Refused(r, n) => ExecMoves(r, n)
<1>1. exec[r][n] \in Exec
  BY DEF TypeOK
<1>2. ASSUME NEW pc \in {"recheck", "call", "apply", "settle"}, Goes(r, n, pc)
      PROVE  ExecMoves(r, n)
  <2> DEFINE e == At(exec[r][n], pc)
  <2>1. HasRead(e, pc, 0)
    BY <1>1, PCNames, ExecTypes, Zenon
  <2>2. exec' = [exec EXCEPT ![r][n] = e]
    BY <1>2 DEF Goes
  <2> HIDE DEF e
  <2>3. QED BY <2>1, <2>2 DEF ExecMoves, HasRead
<1>3. ASSUME NEW out \in Outs, Returns(r, n, out)
      PROVE  ExecMoves(r, n)
  <2> DEFINE e == [At(exec[r][n], "settle") EXCEPT !.out = out]
  <2>1. HasRead(e, "settle", 0)
    BY <1>1, PCNames, ExecTypes, Zenon
  <2>2. exec' = [exec EXCEPT ![r][n] = e]
    BY <1>3, Zenon DEF Returns
  <2> HIDE DEF e
  <2>3. QED BY <2>1, <2>2 DEF ExecMoves, HasRead
<1>4. "cancelled" \in Outs /\ "permanent" \in Outs
  BY DEF Outs
<1>5. QED BY <1>2, <1>3, <1>4 DEF Refused

LEMMA HandlerMovesExec ==
    ASSUME TypeOK, NEW r \in Runs, NEW n \in Attempts,
           Handler(r, n) \/ Timeout(r, n) \/ Crash(r, n)
    PROVE  ExecMoves(r, n)
<1>1. exec[r][n] \in Exec /\ run[r] \in RunStatus /\ sess.rev \in Nat
  BY DEF TypeOK, Session
<1>2. {"succeeded", "cancelled", "retryable", "permanent"} \subseteq Outs /\ exec[r][n].out \in Outs
  BY <1>1 DEF Outs, Exec
<1>3. CASE Open(r, n)
  <2> DEFINE e == [exec[r][n] EXCEPT !.pc = "start", !.sawRun = run[r]]
  <2>1. HasRead(e, "start", exec[r][n].sawRev)
    BY <1>1, PCNames, ExecTypes, Zenon
  <2>2. exec' = [exec EXCEPT ![r][n] = e] \/ ExecMoves(r, n)
    BY <1>2, <1>3, Leaves, Zenon DEF Open
  <2> HIDE DEF e
  <2>3. QED BY <2>1, <2>2 DEF ExecMoves, HasRead
<1>4. CASE Call(r, n)
  <2>1. ASSUME NEW out \in Outs,
               exec' = [exec EXCEPT ![r][n] = [@ EXCEPT !.pc = "failing", !.out = out]]
        PROVE  ExecMoves(r, n)
    <3> DEFINE e == [exec[r][n] EXCEPT !.pc = "failing", !.out = out]
    <3>1. HasRead(e, "failing", exec[r][n].sawRev)
      BY <1>1, PCNames, ExecTypes, Zenon
    <3>2. exec' = [exec EXCEPT ![r][n] = e]
      BY <2>1, Zenon
    <3> HIDE DEF e
    <3>3. QED BY <3>1, <3>2 DEF ExecMoves, HasRead
  <2>2. QED BY <1>2, <1>4, <2>1, Leaves, Zenon DEF Call
<1>5. CASE Apply(r, n)
  <2> DEFINE e == [exec[r][n] EXCEPT !.pc = "commit", !.sawRev = sess.rev]
  <2>1. HasRead(e, "commit", sess.rev)
    BY <1>1, PCNames, ExecTypes, Zenon
  <2>2. (exec' = [exec EXCEPT ![r][n] = e] /\ Owns(r)) \/ ExecMoves(r, n)
    BY <1>2, <1>5, Leaves, Zenon DEF Apply
  <2>3. sess' = sess
    BY <1>5 DEF Apply
  <2> HIDE DEF e
  <2>4. QED BY <2>1, <2>2, <2>3 DEF ExecMoves, HasRead
<1>6. CASE Failing(r, n)
  <2> DEFINE e == [exec[r][n] EXCEPT !.pc = "record", !.sawRev = sess.rev]
  <2>1. HasRead(e, "record", sess.rev)
    BY <1>1, PCNames, ExecTypes, Zenon
  <2>2. exec' = [exec EXCEPT ![r][n] = e] \/ ExecMoves(r, n)
    BY <1>2, <1>6, Leaves, Zenon DEF Failing
  <2> HIDE DEF e
  <2>3. QED BY <2>1, <2>2 DEF ExecMoves, HasRead
<1>7. CASE Commit(r, n)
  BY <1>2, <1>7, Leaves, Zenon DEF Commit
<1>8. CASE Enter(r, n) \/ Recheck(r, n) \/ Record(r, n)
  BY <1>2, <1>8, Leaves, Zenon DEF Enter, Recheck, Record
<1>9. CASE Settle(r, n) \/ Timeout(r, n) \/ Crash(r, n)
  <2>1. PICK e : /\ exec' = [exec EXCEPT ![r][n] = e]
                 /\ HasRead(e, "none", 0) \/ HasRead(e, "failing", 0)
    BY <1>9, FreshExecTypes, Zenon DEF Settle, Timeout, Crash
  <2>2. QED BY <2>1 DEF ExecMoves, HasRead
<1>10. QED
  BY <1>3, <1>4, <1>5, <1>6, <1>7, <1>8, <1>9 DEF Handler

LEMMA HandlerKeepsType ==
    ASSUME TypeOK, NEW r \in Runs, NEW n \in Attempts,
           Handler(r, n) \/ Timeout(r, n) \/ Crash(r, n)
    PROVE  TypeOK'
<1>1. /\ sess \in Session /\ sess.rev \in Nat /\ sess.rev + 1 \in Nat
      /\ r \in 0 .. MaxRuns /\ job[r] \in Job /\ job \in [Runs -> Job]
      /\ run \in [Runs -> RunStatus] /\ run[r] \in RunStatus
      /\ faults \in 0 .. MaxFaults /\ MaxFaults \in Nat
  BY ContentStageAssumption DEF TypeOK, Session, Runs
<1>2. exec' \in [Runs -> [Attempts -> Exec]]
  <2>1. PICK e \in Exec : exec' = [exec EXCEPT ![r][n] = e]
    BY HandlerMovesExec DEF ExecMoves
  <2>2. QED BY <2>1 DEF TypeOK
<1>3. CASE Open(r, n) \/ Recheck(r, n) \/ Call(r, n) \/ Apply(r, n) \/ Failing(r, n)
           \/ Timeout(r, n)
  BY <1>1, <1>2, <1>3 DEF Open, Recheck, Call, Apply, Failing, Timeout, TypeOK
<1>4. CASE Enter(r, n)
  <2>1. sess' \in Session
    BY <1>1, <1>4 DEF Enter, BuildRunning, Saved, Session, SessionStatus
  <2>2. run' \in [Runs -> RunStatus]
    BY <1>1, <1>4 DEF Enter, RunStatus
  <2>3. QED BY <1>1, <1>2, <1>4, <2>1, <2>2 DEF Enter, TypeOK
<1>5. CASE Commit(r, n)
  <2>1. sess' \in Session
    BY <1>1, <1>5 DEF Commit, BuildResult, Saved, Session, SessionStatus
  <2>2. run' \in [Runs -> RunStatus]
    BY <1>1, <1>5 DEF Commit, RunStatus
  <2>3. QED BY <1>1, <1>2, <1>5, <2>1, <2>2 DEF Commit, TypeOK
<1>6. CASE Record(r, n)
  <2>1. AttentionFrom(sess.status) \in SessionStatus
    BY <1>1 DEF AttentionFrom, Session, SessionStatus
  <2>2. sess' \in Session
    BY <1>1, <1>6, <2>1 DEF Record, Saved, Session
  <2>3. run' \in [Runs -> RunStatus]
    BY <1>1, <1>6 DEF Record, RunStatus
  <2>4. QED BY <1>1, <1>2, <1>6, <2>2, <2>3 DEF Record, TypeOK
<1>7. CASE Settle(r, n)
  <2>1. Settled(r, n) \in JobStatus
    BY <1>1 DEF Settled, Job, JobStatus
  <2>2. job' \in [Runs -> Job]
    BY <1>1, <1>7, <2>1 DEF Settle, Job
  <2>3. QED BY <1>1, <1>2, <1>7, <2>2 DEF Settle, TypeOK
<1>8. CASE Crash(r, n)
  BY <1>1, <1>2, <1>8 DEF Crash, TypeOK
<1>9. QED
  BY <1>3, <1>4, <1>5, <1>6, <1>7, <1>8 DEF Handler

\* The stage's state keeps its type: attempts stay within the ceiling, and
\* what an execution has read is of the kind it compares it with.
THEOREM StageTypeCorrect == Spec => []TypeOK
<1>1. TypeOK /\ [Next]_vars => TypeOK'
  <2> SUFFICES ASSUME TypeOK, [Next]_vars PROVE TypeOK'
    OBVIOUS
  <2>1. CASE UNCHANGED vars
    BY <2>1 DEF vars, TypeOK
  <2>2. CASE Next
    <3>1. 1 \in Attempts /\ 1 \in Runs
      BY ContentStageAssumption DEF Attempts, Runs
    <3>2. QED
      BY <2>2, <3>1, ApiKeepsType, QueueKeepsType, HandlerKeepsType DEF Next
  <2>3. QED BY <2>1, <2>2
<1>2. QED BY InitTyped, <1>1, PTL DEF Spec

-----------------------------------------------------------------------------
(* Ownership of the session.  Every write of the session raises its         *)
(* revision, so a writer that still has the revision it read still has the  *)
(* build it read.                                                           *)

\* Builds are launched in order: the rows of those up to current exist.
RowsOfBuilds ==
    \A r \in Runs :
        /\ run[r] = "none" <=> r > sess.current
        /\ job[r].status # "absent" => r <= sess.current
        /\ job[r].status = "absent" => job[r].attempt = 0
        /\ \A n \in Attempts : exec[r][n].pc # "none" => r <= sess.current

\* The revision in a launched build's payload is the session's only as long
\* as nothing has written the session since.
ExpectedIsOwn ==
    \A r \in Runs :
        /\ job[r].expected <= sess.rev
        /\ r <= sess.current /\ job[r].expected = sess.rev => Owns(r)

\* So is the revision under which a result is about to be committed.
SeenIsOwn ==
    \A r \in Runs, n \in Attempts :
        /\ exec[r][n].sawRev <= sess.rev
        /\ exec[r][n].pc = "commit" /\ exec[r][n].sawRev = sess.rev => Owns(r)

ContentOfBuilds ==
    /\ sess.content <= sess.current
    /\ sess.status = "build_running" => sess.content < sess.current
    /\ sess.status \in {"content_review", "approved"} => sess.content = sess.current

Ownership == TypeOK /\ RowsOfBuilds /\ ExpectedIsOwn /\ SeenIsOwn /\ ContentOfBuilds

\* What a write may do to the session.
NewBuild ==
    /\ sess.status \in {"not_started", "needs_attention", "content_review"}
    /\ sess'.status = "build_running"
    /\ sess'.current = sess.current + 1 /\ sess'.content = sess.content

Landed ==
    /\ sess.status = "build_running" /\ sess'.status = "content_review"
    /\ sess'.current = sess.current /\ sess'.content = sess.current

Ended ==
    /\ sess.status # "approved" /\ sess'.status = "needs_attention"
    /\ sess'.current = sess.current /\ sess'.content = sess.content

Approved ==
    /\ sess.status = "content_review" /\ sess'.status = "approved"
    /\ sess'.current = sess.current /\ sess'.content = sess.content

Rewritten ==
    /\ sess'.status = sess.status
    /\ sess'.current = sess.current /\ sess'.content = sess.content

SessionMoves ==
    /\ sess'.rev = sess.rev + 1
    /\ NewBuild \/ Landed \/ Ended \/ Approved \/ Rewritten

\* Of the rows of a build, what its ownership depends on stays as it is.
RowKept(q) ==
    /\ run'[q] = "none" <=> run[q] = "none"
    /\ job'[q].status = "absent" <=> job[q].status = "absent"
    /\ job'[q].attempt = job[q].attempt \/ job[q].status # "absent"
    /\ job'[q].expected = job[q].expected

\* The shapes of the values, from the type invariant.
LEMMA Shapes ==
    ASSUME Ownership
    PROVE  /\ Runs \subseteq Nat \ {0} /\ MaxAttempts \in Nat \ {0}
           /\ sess \in Session /\ sess.rev \in Nat /\ sess.current \in Nat /\ sess.content \in Nat
           /\ run \in [Runs -> RunStatus] /\ job \in [Runs -> Job]
           /\ exec \in [Runs -> [Attempts -> Exec]]
           /\ \A q \in Runs : job[q].expected \in Nat /\ job[q].attempt \in Nat
           /\ \A q \in Runs, m \in Attempts : exec[q][m].sawRev \in Nat
  BY ContentStageAssumption DEF Ownership, TypeOK, Session, Job, Exec, Runs

\* A handler writes the session only to land its result or to report its end,
\* and gives the rows of no build another identity.
LEMMA HandlerWrites ==
    ASSUME Ownership, NEW r \in Runs, NEW n \in Attempts,
           Handler(r, n) \/ Timeout(r, n) \/ Crash(r, n)
    PROVE  /\ r <= sess.current
           /\ sess' = sess \/ (SessionMoves /\ ~ NewBuild)
           /\ \A q \in Runs : RowKept(q)
<1>1. exec[r][n].pc # "none"
  BY DEF Handler, Open, Enter, Recheck, Call, Apply, Commit, Failing, Record, Settle, Timeout, Crash
<1>2. r <= sess.current /\ run[r] # "none"
  BY <1>1, Shapes DEF Ownership, RowsOfBuilds
<1>3. CASE Open(r, n) \/ Recheck(r, n) \/ Call(r, n) \/ Apply(r, n) \/ Failing(r, n)
           \/ Timeout(r, n) \/ Crash(r, n)
  BY <1>2, <1>3 DEF Open, Recheck, Call, Apply, Failing, Timeout, Crash, RowKept
<1>4. CASE Enter(r, n)
  <2>1. SameRevision(job[r].expected) => Owns(r)
    BY <1>2 DEF SameRevision, Ownership, ExpectedIsOwn
  <2>2. sess' = sess \/ (sess'.rev = sess.rev + 1 /\ Rewritten)
    BY <1>4, <2>1, Shapes DEF Enter, BuildRunning, Saved, Owns, Rewritten, Session
  <2>3. \A q \in Runs : RowKept(q)
    BY <1>2, <1>4, Shapes DEF Enter, RowKept
  <2>4. QED BY <1>2, <2>2, <2>3, Shapes DEF SessionMoves, Rewritten, NewBuild
<1>5. CASE Commit(r, n)
  <2>1. SameRevision(exec[r][n].sawRev) => Owns(r)
    BY <1>5 DEF Commit, SameRevision, Ownership, SeenIsOwn
  <2>2. sess' = sess \/ (sess'.rev = sess.rev + 1 /\ Landed)
    BY <1>5, <2>1, Shapes DEF Commit, BuildResult, Saved, Owns, Landed, Session
  <2>3. \A q \in Runs : RowKept(q)
    BY <1>2, <1>5, Shapes DEF Commit, RowKept
  <2>4. QED BY <1>2, <2>2, <2>3, Shapes DEF SessionMoves, Landed, NewBuild
<1>6. CASE Record(r, n)
  <2>1. sess' = sess \/ (sess'.rev = sess.rev + 1 /\ (Ended \/ Rewritten))
    BY <1>6, Shapes DEF Record, Saved, AttentionFrom, Ended, Rewritten, Session
  <2>2. \A q \in Runs : RowKept(q)
    BY <1>2, <1>6, Shapes DEF Record, RowKept
  <2>3. QED BY <1>2, <2>1, <2>2, Shapes DEF SessionMoves, Ended, Rewritten, NewBuild
<1>7. CASE Settle(r, n)
  <2>1. Settled(r, n) # "absent" \/ ~ Holds(r, n)
    BY DEF Settled, Holds
  <2>2. \A q \in Runs : RowKept(q)
    BY <1>7, <2>1, Shapes DEF Settle, RowKept, Holds, Job
  <2>3. QED BY <1>2, <1>7, <2>2 DEF Settle
<1>8. QED
  BY <1>3, <1>4, <1>5, <1>6, <1>7 DEF Handler

LEMMA HandlerKeepsOwnership ==
    ASSUME Ownership, NEW r \in Runs, NEW n \in Attempts,
           Handler(r, n) \/ Timeout(r, n) \/ Crash(r, n)
    PROVE  Ownership'
<1>1. TypeOK'
  BY HandlerKeepsType DEF Ownership
<1>2. /\ r <= sess.current
      /\ sess' = sess \/ (SessionMoves /\ ~ NewBuild)
      /\ \A q \in Runs : RowKept(q)
  BY HandlerWrites
<1>3. PICK e \in Exec : /\ exec' = [exec EXCEPT ![r][n] = e]
                        /\ e.sawRev \in {0, exec[r][n].sawRev, sess.rev}
                        /\ e.pc = "commit" => e.sawRev = sess.rev /\ Owns(r) /\ sess' = sess
  BY HandlerMovesExec DEF ExecMoves, Ownership
<1>4. \A q \in Runs, m \in Attempts :
         exec'[q][m] = IF q = r /\ m = n THEN e ELSE exec[q][m]
  BY <1>3, Shapes
<1>5. sess' = sess \/ (sess'.rev = sess.rev + 1 /\ sess'.current = sess.current)
  BY <1>2 DEF SessionMoves, NewBuild, Landed, Ended, Approved, Rewritten
<1>6. RowsOfBuilds'
  BY <1>2, <1>4, <1>5, Shapes DEF Ownership, RowsOfBuilds, RowKept
<1>7. ExpectedIsOwn'
  BY <1>2, <1>5, Shapes DEF Ownership, ExpectedIsOwn, RowKept, Owns
<1>8. SeenIsOwn'
  <2>1. e.sawRev \in Nat /\ e.sawRev <= sess.rev
    BY <1>3, Shapes DEF Ownership, SeenIsOwn
  <2>2. QED BY <1>3, <1>4, <1>5, <2>1, Shapes DEF Ownership, SeenIsOwn, Owns
<1>9. ContentOfBuilds'
  BY <1>2, Shapes
  DEF Ownership, ContentOfBuilds, SessionMoves, NewBuild, Landed, Ended, Approved, Rewritten
<1>10. QED BY <1>1, <1>6, <1>7, <1>8, <1>9 DEF Ownership

\* The user's operations: a build is launched as the next one, an approval
\* and a stop leave the build and its content as they are.
LEMMA ApiWrites ==
    ASSUME Ownership, NEW r \in Runs, Start(r) \/ Revise(r) \/ Approve \/ Stop
    PROVE  /\ SessionMoves
           /\ exec' = exec
           /\ \A q \in Runs : RowKept(q) \/ (q = sess'.current /\ NewBuild)
           /\ \A q \in Runs : job'[q].expected = job[q].expected \/ q = sess'.current
           /\ NewBuild => /\ r = sess'.current /\ run'[r] # "none"
                          /\ job'[r].status # "absent" /\ job'[r].expected = sess'.rev
<1>1. CASE Launch(r) /\ sess.status \in {"not_started", "needs_attention", "content_review"}
  <2>1. r = sess.current + 1
    <3>1. r > sess.current
      BY <1>1, Shapes DEF Launch, Ownership, RowsOfBuilds
    <3>2. ASSUME r > sess.current + 1 PROVE FALSE
      <4>1. sess.current + 1 \in Runs /\ sess.current + 1 \in 1 .. r - 1
        BY <3>2, Shapes, ContentStageAssumption DEF Runs
      <4>2. run[sess.current + 1] = "none"
        BY <4>1, Shapes DEF Ownership, RowsOfBuilds
      <4>3. QED BY <1>1, <4>1, <4>2 DEF Launch
    <3>3. QED BY <3>1, <3>2, Shapes
  <2>2. sess'.rev = sess.rev + 1 /\ NewBuild /\ sess'.current = r
    BY <1>1, <2>1, Shapes DEF Launch, BuildRunning, Saved, NewBuild, Session
  <2>3. /\ run'[r] # "none" /\ job'[r].status # "absent" /\ job'[r].expected = sess'.rev
        /\ \A q \in Runs \ {r} : run'[q] = run[q] /\ job'[q] = job[q]
    BY <1>1, <2>2, Shapes DEF Launch
  <2>4. QED BY <1>1, <2>2, <2>3 DEF Launch, SessionMoves, RowKept
<1>2. CASE Approve
  <2>1. sess'.rev = sess.rev + 1 /\ Approved
    BY <1>2, Shapes DEF Approve, Approval, Saved, Approved, Session
  <2>2. QED BY <1>2, <2>1, Shapes DEF Approve, SessionMoves, RowKept, Approved, NewBuild
<1>3. CASE Stop
  <2>1. sess'.rev = sess.rev + 1 /\ Ended
    BY <1>3, Shapes DEF Stop, Saved, Ended, Session
  <2>2. \A j \in Job : /\ CancelledJob(j).status = "absent" <=> j.status = "absent"
                       /\ CancelledJob(j).attempt = j.attempt
                       /\ CancelledJob(j).expected = j.expected
    BY DEF CancelledJob, Job
  <2>3. run[sess.current] # "none" \/ sess.current \notin Runs
    BY Shapes DEF Ownership, RowsOfBuilds
  <2>4. \A q \in Runs : RowKept(q)
    BY <1>3, <2>2, <2>3, Shapes DEF Stop, RowKept, CancelledRun
  <2>5. QED BY <1>3, <2>1, <2>4, Shapes DEF Stop, SessionMoves, Ended, NewBuild, RowKept
<1>4. QED BY <1>1, <1>2, <1>3 DEF Start, Revise

LEMMA ApiKeepsOwnership ==
    ASSUME Ownership, NEW r \in Runs, Start(r) \/ Revise(r) \/ Approve \/ Stop
    PROVE  Ownership'
<1>1. TypeOK'
  BY ApiKeepsType DEF Ownership
<1>2. /\ SessionMoves
      /\ exec' = exec
      /\ \A q \in Runs : RowKept(q) \/ (q = sess'.current /\ NewBuild)
      /\ \A q \in Runs : job'[q].expected = job[q].expected \/ q = sess'.current
      /\ NewBuild => /\ r = sess'.current /\ run'[r] # "none"
                     /\ job'[r].status # "absent" /\ job'[r].expected = sess'.rev
  BY ApiWrites
<1>3. /\ sess'.rev = sess.rev + 1
      /\ sess'.current = IF NewBuild THEN sess.current + 1 ELSE sess.current
  BY <1>2 DEF SessionMoves, NewBuild, Landed, Ended, Approved, Rewritten
<1>4. RowsOfBuilds'
  <2>1. CASE NewBuild
    <3>1. sess'.current = sess.current + 1 /\ r = sess.current + 1
      BY <1>2, <1>3, <2>1
    <3>2. sess.current \in Nat /\ \A q \in Runs : q \in Nat
      BY Shapes
    <3>3. ASSUME NEW q \in Runs \ {r}
          PROVE  /\ RowKept(q)
                 /\ q > sess.current <=> q > sess'.current
                 /\ q <= sess.current => q <= sess'.current
      BY <1>2, <3>1, <3>2
    <3>4. r <= sess'.current /\ ~ (r > sess'.current)
      BY <3>1, <3>2
    <3>5. ASSUME NEW q \in Runs
          PROVE  /\ run'[q] = "none" <=> q > sess'.current
                 /\ job'[q].status # "absent" => q <= sess'.current
                 /\ job'[q].status = "absent" => job'[q].attempt = 0
                 /\ \A n \in Attempts : exec'[q][n].pc # "none" => q <= sess'.current
      <4>1. CASE q = r
        BY <1>2, <2>1, <3>4, <4>1
      <4>2. CASE q # r
        BY <1>2, <3>3, <4>2 DEF Ownership, RowsOfBuilds, RowKept
      <4>3. QED BY <4>1, <4>2
    <3>6. QED BY <3>5 DEF RowsOfBuilds
  <2>2. CASE ~ NewBuild
    BY <1>2, <1>3, <2>2, Shapes DEF Ownership, RowsOfBuilds, RowKept
  <2>3. QED BY <2>1, <2>2
<1>5. ExpectedIsOwn'
  <2>1. CASE NewBuild
    BY <1>2, <1>3, <2>1, Shapes DEF Ownership, ExpectedIsOwn, NewBuild, Owns
  <2>2. CASE ~ NewBuild
    BY <1>2, <1>3, <2>2, Shapes DEF Ownership, ExpectedIsOwn, RowKept
  <2>3. QED BY <2>1, <2>2
<1>6. SeenIsOwn'
  BY <1>2, <1>3, Shapes DEF Ownership, SeenIsOwn
<1>7. ContentOfBuilds'
  BY <1>2, Shapes
  DEF Ownership, ContentOfBuilds, SessionMoves, NewBuild, Landed, Ended, Approved, Rewritten
<1>8. QED BY <1>1, <1>4, <1>5, <1>6, <1>7 DEF Ownership

LEMMA QueueKeepsOwnership ==
    ASSUME Ownership, NEW r \in Runs, Claim(r) \/ Recover(r)
    PROVE  Ownership' /\ sess' = sess
<1>1. TypeOK' /\ sess' = sess /\ run' = run
  BY QueueKeepsType DEF Ownership, Claim, Recover
<1>2. /\ job[r].status # "absent" /\ job'[r].status # "absent"
      /\ \A q \in Runs \ {r} : job'[q] = job[q]
      /\ \A q \in Runs : job'[q].expected = job[q].expected
  <2>1. CASE Claim(r)
    BY <2>1, Shapes DEF Claim, Claimable, Job
  <2>2. CASE Recover(r)
    BY <2>2, Shapes DEF Recover, Job
  <2>3. QED BY <2>1, <2>2
<1>3. r <= sess.current
  BY <1>2 DEF Ownership, RowsOfBuilds
<1>4. \A q \in Runs, m \in Attempts :
         \/ exec'[q][m] = exec[q][m]
         \/ q = r /\ exec'[q][m].pc = "open" /\ exec'[q][m].sawRev = 0
  <2>1. CASE Claim(r)
    <3> DEFINE e == [NoExec EXCEPT !.pc = "open"]
               a == job[r].attempt + 1
    <3>1. exec' = [exec EXCEPT ![r][a] = e] /\ HasRead(e, "open", 0)
      BY <2>1, FreshExecTypes, Zenon DEF Claim
    <3> HIDE DEF e, a
    <3>2. QED BY <3>1, Shapes DEF HasRead
  <2>2. CASE Recover(r)
    BY <2>2 DEF Recover
  <2>3. QED BY <2>1, <2>2
<1>5. RowsOfBuilds'
  BY <1>1, <1>2, <1>3, <1>4, Shapes DEF Ownership, RowsOfBuilds
<1>6. ExpectedIsOwn'
  BY <1>1, <1>2, Shapes DEF Ownership, ExpectedIsOwn, Owns
<1>7. SeenIsOwn'
  BY <1>1, <1>4, Shapes DEF Ownership, SeenIsOwn, Owns
<1>8. ContentOfBuilds'
  BY <1>1 DEF Ownership, ContentOfBuilds
<1>9. QED BY <1>1, <1>5, <1>6, <1>7, <1>8 DEF Ownership

LEMMA InitOwned == Init => Ownership
<1> SUFFICES ASSUME Init PROVE Ownership
  OBVIOUS
<1>1. TypeOK
  BY InitTyped
<1>2. \A r \in Runs : r > 0 /\ ~ (r <= 0)
  BY ContentStageAssumption DEF Runs
<1>3. RowsOfBuilds /\ ExpectedIsOwn
  BY <1>2 DEF Init, RowsOfBuilds, ExpectedIsOwn, NoExec
<1>4. SeenIsOwn /\ ContentOfBuilds
  BY DEF Init, SeenIsOwn, ContentOfBuilds, NoExec
<1>5. QED BY <1>1, <1>3, <1>4 DEF Ownership

LEMMA StepKeepsOwnership ==
    ASSUME Ownership, [Next]_vars PROVE Ownership' /\ (sess' = sess \/ SessionMoves)
<1>1. CASE UNCHANGED vars
  BY <1>1
  DEF vars, Ownership, TypeOK, RowsOfBuilds, ExpectedIsOwn, SeenIsOwn, ContentOfBuilds, Owns
<1>2. ASSUME NEW r \in Runs, Start(r) \/ Revise(r) \/ Approve \/ Stop
      PROVE  Ownership' /\ SessionMoves
  BY <1>2, ApiKeepsOwnership, ApiWrites
<1>3. ASSUME NEW r \in Runs, Claim(r) \/ Recover(r)
      PROVE  Ownership' /\ sess' = sess
  BY <1>3, QueueKeepsOwnership
<1>4. ASSUME NEW r \in Runs, NEW n \in Attempts,
             Handler(r, n) \/ Timeout(r, n) \/ Crash(r, n)
      PROVE  Ownership' /\ (sess' = sess \/ SessionMoves)
  BY <1>4, HandlerKeepsOwnership, HandlerWrites
<1>5. 1 \in Runs
  BY ContentStageAssumption DEF Runs
<1>6. QED
  BY <1>1, <1>2, <1>3, <1>4, <1>5 DEF Next

LEMMA OwnershipHolds == Spec => []Ownership
<1>1. Ownership /\ [Next]_vars => Ownership'
  BY StepKeepsOwnership
<1>2. QED BY InitOwned, <1>1, PTL DEF Spec

-----------------------------------------------------------------------------
(* The stage's safety, from Ownership and what a write may do.              *)

\* What the user reviews or has approved is the output of the build the
\* session names, whatever executions of other builds are still under way.
THEOREM ReviewShowsTheCurrentBuild == Spec => []ReviewIsOfCurrentBuild
<1>1. Ownership => ReviewIsOfCurrentBuild
  BY DEF Ownership, ContentOfBuilds, ReviewIsOfCurrentBuild
<1>2. QED BY <1>1, OwnershipHolds, PTL

\* A build lands at most once: what enters review is newer than all content
\* the session carried before.
THEOREM ABuildLandsOnce == Spec => ReviewBringsNewContent
<1>1. Ownership /\ [Next]_vars =>
        [sess.status # "content_review" /\ sess'.status = "content_review"
           => sess'.content > sess.content]_sess
  <2> SUFFICES ASSUME Ownership, SessionMoves,
                      sess.status # "content_review", sess'.status = "content_review"
               PROVE  sess'.content > sess.content
    BY StepKeepsOwnership
  <2>1. Landed
    BY DEF SessionMoves, NewBuild, Landed, Ended, Approved, Rewritten
  <2>2. QED BY <2>1, Shapes DEF Ownership, ContentOfBuilds, Landed
<1>2. QED BY <1>1, OwnershipHolds, PTL DEF Spec, ReviewBringsNewContent

\* A build that was stopped, or has failed, is over: only a new one takes the
\* session out of needs_attention.
THEOREM AStoppedBuildIsOver == Spec => StoppedStaysStopped
<1>1. Ownership /\ [Next]_vars =>
        [sess.status = "needs_attention" /\ sess'.status # sess.status
           => sess'.current > sess.current]_sess
  <2> SUFFICES ASSUME Ownership, SessionMoves,
                      sess.status = "needs_attention", sess'.status # sess.status
               PROVE  sess'.current > sess.current
    BY StepKeepsOwnership
  <2>1. NewBuild
    BY DEF SessionMoves, NewBuild, Landed, Ended, Approved, Rewritten
  <2>2. QED BY <2>1, Shapes DEF NewBuild
<1>2. QED BY <1>1, OwnershipHolds, PTL DEF Spec, StoppedStaysStopped

\* Nothing that arrives late undoes an approval or replaces what was approved.
THEOREM ApprovalStands == Spec => ApprovalIsFinal
<1>1. Ownership /\ [Next]_vars =>
        [sess.status = "approved"
           => sess'.status = "approved" /\ sess'.content = sess.content]_sess
  <2> SUFFICES ASSUME SessionMoves, sess.status = "approved"
               PROVE  sess'.status = "approved" /\ sess'.content = sess.content
    BY StepKeepsOwnership
  <2>1. QED BY DEF SessionMoves, NewBuild, Landed, Ended, Approved, Rewritten
<1>2. QED BY <1>1, OwnershipHolds, PTL DEF Spec, ApprovalIsFinal

-----------------------------------------------------------------------------
(* The jobs of the stage.                                                   *)

\* What a step does to the job row of a build, in the terms of JobLifecycle.
JobMoves(q) ==
    /\ <<job[q].status, job'[q].status>> \in Lifecycle!Transitions
    /\ job'[q].status = "queued" => job'[q].attempt < MaxAttempts
    /\ \/ /\ job'[q].status = "running" /\ job'[q].attempt = job[q].attempt + 1
          /\ job'[q].attempt <= MaxAttempts
       \/ job'[q].status # "running" /\ job'[q].attempt = job[q].attempt

JobRests(q) == job'[q].status = job[q].status /\ job'[q].attempt = job[q].attempt

LEMMA StepMovesJobs ==
    ASSUME Ownership, [Next]_vars, NEW q \in Runs PROVE JobMoves(q) \/ JobRests(q)
<1>1. ASSUME NEW r \in Runs, Launch(r) PROVE JobMoves(q) \/ JobRests(q)
  <2>1. job[r].status = "absent" /\ job[r].attempt = 0
    BY <1>1, Shapes DEF Launch, Ownership, RowsOfBuilds
  <2>2. job'[r].status = "queued" /\ job'[r].attempt = 0 /\ \A p \in Runs \ {r} : job'[p] = job[p]
    BY <1>1, Shapes DEF Launch
  <2>3. QED BY <2>1, <2>2, Shapes DEF JobMoves, JobRests, Lifecycle!Transitions
<1>2. CASE Approve \/ UNCHANGED vars
  BY <1>2 DEF Approve, vars, JobRests
<1>3. CASE Stop
  <2>1. job'[q] = job[q] \/ (/\ job'[q].status = "cancelled" /\ job'[q].attempt = job[q].attempt
                             /\ job[q].status \in {"queued", "running"})
    BY <1>3, Shapes DEF Stop, CancelledJob, Job
  <2>2. QED BY <2>1 DEF JobMoves, JobRests, Lifecycle!Transitions
<1>4. ASSUME NEW r \in Runs, Claim(r) PROVE JobMoves(q) \/ JobRests(q)
  <2>1. /\ job[r].status = "queued" /\ job[r].attempt < MaxAttempts
        /\ job'[r].status = "running" /\ job'[r].attempt = job[r].attempt + 1
        /\ \A p \in Runs \ {r} : job'[p] = job[p]
    BY <1>4, Shapes DEF Claim, Claimable, Job
  <2>2. QED BY <2>1, Shapes DEF JobMoves, JobRests, Lifecycle!Transitions
<1>5. ASSUME NEW r \in Runs, Recover(r) PROVE JobMoves(q) \/ JobRests(q)
  <2>1. /\ job[r].status = "running" /\ job'[r].attempt = job[r].attempt
        /\ \/ job'[r].status = "queued" /\ job[r].attempt < MaxAttempts
           \/ job'[r].status = "failed"
        /\ \A p \in Runs \ {r} : job'[p] = job[p]
    BY <1>5, Shapes DEF Recover, Job
  <2>2. QED BY <2>1 DEF JobMoves, JobRests, Lifecycle!Transitions
<1>6. ASSUME NEW r \in Runs, NEW n \in Attempts, Settle(r, n) PROVE JobMoves(q) \/ JobRests(q)
  <2>1. CASE ~ Holds(r, n) \/ q # r
    BY <1>6, <2>1, Shapes DEF Settle, JobRests
  <2>2. CASE Holds(r, n) /\ q = r
    <3>1. job[r].status = "running" /\ job[r].attempt = n
      BY <2>2 DEF Holds
    <3>2. job'[r].status = Settled(r, n) /\ job'[r].attempt = n
      BY <1>6, <2>2, <3>1, Shapes DEF Settle, Job
    <3>3. \/ Settled(r, n) \in {"succeeded", "failed", "running"}
          \/ Settled(r, n) = "queued" /\ ~ (n >= MaxAttempts)
      BY <3>1 DEF Settled, Final
    <3>4. n \in Nat
      BY Shapes DEF Attempts
    <3>5. QED BY <2>2, <3>1, <3>2, <3>3, <3>4, Shapes DEF JobMoves, JobRests, Lifecycle!Transitions
  <2>3. QED BY <2>1, <2>2
<1>7. ASSUME NEW r \in Runs, NEW n \in Attempts,
             Handler(r, n) \/ Timeout(r, n) \/ Crash(r, n)
      PROVE  JobMoves(q) \/ JobRests(q)
  <2>1. job' = job \/ Settle(r, n)
    BY <1>7 DEF Handler, Open, Enter, Recheck, Call, Apply, Commit, Failing, Record, Timeout, Crash
  <2>2. QED BY <1>6, <2>1 DEF JobRests
<1>8. QED
  BY <1>1, <1>2, <1>3, <1>4, <1>5, <1>7 DEF Next, Start, Revise

LEMMA InitKeepsLifecycle == Init => Lifecycle!LifecycleInit
<1> SUFFICES ASSUME Init PROVE Lifecycle!LifecycleInit
  OBVIOUS
<1>1. \A r \in Runs : job[r].status = "absent" /\ job[r].attempt = 0
  BY DEF Init
<1>2. QED BY <1>1 DEF Lifecycle!LifecycleInit

LEMMA StepKeepsLifecycle ==
    ASSUME Ownership, Ownership', [Next]_vars
    PROVE  [Lifecycle!LifecycleNext]_(Lifecycle!lifecycleVars)
<1> DEFINE stage == [r \in Runs |-> job[r].status]
           starts == [r \in Runs |-> job[r].attempt]
<1>1. \A r \in Runs : job'[r].status \in Lifecycle!Stages /\ job'[r].attempt \in Nat
  BY ContentStageAssumption DEF Ownership, TypeOK, Job, JobStatus, Lifecycle!Stages
<1>2. stage' \in [Runs -> Lifecycle!Stages] /\ starts' \in [Runs -> Nat]
  BY <1>1
<1>3. ASSUME NEW r \in Runs PROVE Lifecycle!Moves(r) \/ Lifecycle!Rests(r)
  <2>1. JobMoves(r) \/ JobRests(r)
    BY StepMovesJobs
  <2>2. /\ stage[r] = job[r].status /\ stage'[r] = job'[r].status
        /\ starts[r] = job[r].attempt /\ starts'[r] = job'[r].attempt
    OBVIOUS
  <2>3. QED BY <2>1, <2>2 DEF JobMoves, JobRests, Lifecycle!Moves, Lifecycle!Rests
<1>4. Lifecycle!LifecycleNext
  BY <1>2, <1>3 DEF Lifecycle!LifecycleNext
<1>5. QED BY <1>4

\* The jobs of the stage live the life that the job queue implements: a
\* terminal job is final and its handler is started a bounded number of times.
THEOREM StageKeepsJobLifecycle == Spec => JobsKeepLifecycle
<1>1. Ownership /\ Ownership' /\ [Next]_vars
         => [Lifecycle!LifecycleNext]_(Lifecycle!lifecycleVars)
  BY StepKeepsLifecycle
<1>2. QED
  BY <1>1, InitKeepsLifecycle, OwnershipHolds, PTL
  DEF Spec, JobsKeepLifecycle, Lifecycle!LifecycleSpec

=============================================================================
