--------------------------- MODULE JobQueueProofs ---------------------------
(***************************************************************************)
(* Proofs about the durable job queue, for every set of jobs and workers,  *)
(* every attempt ceiling, lane limit and concurrency.                      *)
(***************************************************************************)
EXTENDS JobQueue, FiniteSetTheorems, TLAPS

-----------------------------------------------------------------------------
(* Type correctness.  A poll counts the worker's tasks, so the tasks have  *)
(* to be finitely many for its budget to be a number.                      *)

Typed == TypeOK /\ IsFiniteSet(execs)

\* What each statement writes into a row is a row.
LEMMA EnqueuedRowType ==
    NoRow \in Row /\ [NoRow EXCEPT !.status = "queued", !.due = TRUE] \in Row
  BY DEF NoRow, Row, Status

LEMMA WrittenRowTypes ==
    ASSUME NEW r \in Row
    PROVE  /\ CancelledRow(r) \in Row
           /\ TerminalizedRow(r) \in Row
           /\ RequeuedRow(r) \in Row
           /\ SucceededRow(r) \in Row
           /\ \A b \in BOOLEAN : /\ FailedRow(r, b) \in Row
                                /\ [r EXCEPT !.fresh = b] \in Row
                                /\ [r EXCEPT !.due = b] \in Row
<1> USE DEF Row, Status
<1>1. CancelledRow(r) \in Row /\ TerminalizedRow(r) \in Row /\ RequeuedRow(r) \in Row
  BY DEF CancelledRow, TerminalizedRow, RequeuedRow
<1>2. SucceededRow(r) \in Row
  BY DEF SucceededRow
<1>3. ASSUME NEW b \in BOOLEAN
      PROVE  FailedRow(r, b) \in Row /\ [r EXCEPT !.fresh = b] \in Row
                                     /\ [r EXCEPT !.due = b] \in Row
  BY DEF FailedRow
<1>4. QED BY <1>1, <1>2, <1>3

LEMMA ClaimedRowType ==
    ASSUME NEW r \in Row, NEW w \in Workers
    PROVE  /\ ClaimedRow(r, w) \in Row
           /\ ClaimedRow(r, w).status = "running"
           /\ ClaimedRow(r, w).attempt = r.attempt + 1
           /\ ClaimedRow(r, w).token = r.attempt + 1
<1> DEFINE n == r.attempt + 1
<1>1. n \in Nat
  BY DEF Row
<1>2. ClaimedRow(r, w) = [r EXCEPT !.status = "running", !.holder = w, !.fresh = TRUE,
                                   !.attempt = n, !.token = n]
  BY Zenon DEF ClaimedRow
<1> HIDE DEF n
<1> DEFINE c == [r EXCEPT !.status = "running", !.holder = w, !.fresh = TRUE,
                          !.attempt = n, !.token = n]
<1>3. c \in Row /\ c.status = "running" /\ c.attempt = n /\ c.token = n
  BY <1>1 DEF Row, Status
<1>4. QED BY <1>2, <1>3 DEF n

\* The slots a poll sees free are a number, and no more than there are slots.
LEMMA CapacityType ==
    ASSUME Typed, NEW w \in Workers, Capacity(w) > 0
    PROVE  Capacity(w) \in 1 .. Concurrency
<1>1. IsFiniteSet(Tasks(w))
  <2>1. Tasks(w) \subseteq execs
    BY DEF Tasks
  <2>2. QED BY <2>1, FS_Subset DEF Typed
<1>2. Cardinality(Tasks(w)) \in Nat
  BY <1>1, FS_CardinalityType
<1>3. QED BY <1>2, JobQueueAssumption DEF Capacity

\* A batch starts finitely many tasks, no more than it claims rows.
LEMMA StartedTasks ==
    ASSUME TypeOK, NEW w \in Workers, NEW S \in SUBSET Jobs,
           NEW New, New = {[job |-> j, worker |-> w, attempt |-> row[j].attempt + 1] : j \in S}
    PROVE  /\ New \subseteq Exec
           /\ IsFiniteSet(New)
           /\ Cardinality(New) <= Cardinality(S)
           /\ IsFiniteSet(S) /\ Cardinality(S) \in Nat /\ Cardinality(New) \in Nat
<1> DEFINE f == [j \in S |-> [job |-> j, worker |-> w, attempt |-> row[j].attempt + 1]]
<1>1. IsFiniteSet(S)
  BY JobQueueAssumption, FS_Subset
<1>2. f \in Surjection(S, New)
  BY DEF Surjection
<1>3. IsFiniteSet(New) /\ Cardinality(New) <= Cardinality(S)
  BY <1>1, <1>2, FS_Surjection
<1>4. ASSUME NEW j \in S PROVE row[j].attempt \in Nat
  BY DEF TypeOK, Row
<1>5. New \subseteq Exec
  BY <1>4 DEF Exec
<1>6. QED BY <1>1, <1>3, <1>5, FS_CardinalityType

LEMMA InitTyped == Init => Typed
  BY FS_EmptySet, JobQueueAssumption DEF Init, Typed, TypeOK, NoRow, Row, Status

\* Every operation of the API, the clock and the workers keeps the table, the
\* tasks and the poll state within their types.
LEMMA TypedStep == Typed /\ [Next]_vars => Typed'
<1> SUFFICES ASSUME Typed, [Next]_vars PROVE Typed'
  OBVIOUS
<1>0. /\ row \in [Jobs -> Row] /\ execs \in SUBSET Exec /\ IsFiniteSet(execs)
      /\ active \in [Workers -> SUBSET Jobs] /\ poll \in [Workers -> 0 .. Concurrency]
      /\ proc \in [Workers -> {"up", "draining", "down"}] /\ stops \in 0 .. MaxStops
      /\ MaxStops \in Nat /\ Concurrency \in Nat
  BY JobQueueAssumption DEF Typed, TypeOK
<1>1. ASSUME NEW j \in Jobs, Enqueue(j) PROVE Typed'
  BY <1>0, <1>1, EnqueuedRowType DEF Enqueue, Typed, TypeOK
<1>2. ASSUME NEW j \in Jobs, Cancel(j) PROVE Typed'
  <2>1. CancelledRow(row[j]) \in Row
    BY <1>0, WrittenRowTypes
  <2>2. QED BY <1>0, <1>2, <2>1 DEF Cancel, Typed, TypeOK
<1>3. ASSUME NEW j \in Jobs, Lapse(j) \/ BackoffElapses(j) PROVE Typed'
  <2>1. [row[j] EXCEPT !.fresh = FALSE] \in Row /\ [row[j] EXCEPT !.due = TRUE] \in Row
    BY <1>0, WrittenRowTypes
  <2>2. QED BY <1>0, <1>3, <2>1 DEF Lapse, BackoffElapses, Typed, TypeOK
<1>4. ASSUME NEW w \in Workers, NEW S \in SUBSET Jobs, Recover(w, S) PROVE Typed'
  <2>1. Capacity(w) \in 0 .. Concurrency
    BY <1>4, <1>0, CapacityType DEF Recover
  <2>2. \A j \in Jobs : row[j] \in Row /\ TerminalizedRow(row[j]) \in Row
                                     /\ RequeuedRow(row[j]) \in Row
    BY <1>0, WrittenRowTypes
  <2>3. row' \in [Jobs -> Row]
    BY <1>4, <2>2 DEF Recover
  <2>4. QED BY <1>0, <1>4, <2>1, <2>3 DEF Recover, Typed, TypeOK
<1>5. ASSUME NEW w \in Workers, NEW S \in SUBSET Jobs,
             Claim(w, S) \/ ClaimReplyLost(w, S)
      PROVE  Typed'
  <2>1. \A j \in Jobs : row[j] \in Row /\ ClaimedRow(row[j], w) \in Row
    BY <1>0, ClaimedRowType
  <2>2. row' \in [Jobs -> Row]
    BY <1>5, <2>1 DEF Claim, ClaimReplyLost, ClaimRows
  <2>3. execs' \in SUBSET Exec /\ IsFiniteSet(execs')
    <3> DEFINE New == {[job |-> j, worker |-> w, attempt |-> row[j].attempt + 1] : j \in S}
    <3>1. New \subseteq Exec /\ IsFiniteSet(New)
      BY StartedTasks DEF Typed
    <3>2. IsFiniteSet(execs \cup New)
      BY <1>0, <3>1, FS_Union
    <3>3. execs' = execs \/ execs' = execs \cup New
      BY <1>5 DEF Claim, ClaimReplyLost
    <3>4. QED BY <1>0, <3>1, <3>2, <3>3
  <2>4. active' \in [Workers -> SUBSET Jobs] /\ poll' \in [Workers -> 0 .. Concurrency]
    BY <1>0, <1>5 DEF Claim, ClaimReplyLost, ClaimRows
  <2>5. QED BY <1>0, <1>5, <2>2, <2>3, <2>4 DEF Claim, ClaimReplyLost, ClaimRows, Typed, TypeOK
<1>6. ASSUME NEW w \in Workers, Drain(w) \/ Stop(w) \/ Restart(w) PROVE Typed'
  <2>1. CASE Drain(w)
    BY <1>0, <2>1 DEF Drain, Typed, TypeOK
  <2>2. CASE Stop(w)
    <3>1. IsFiniteSet(execs \ Tasks(w))
      BY <1>0, FS_Difference
    <3>2. QED BY <1>0, <2>2, <3>1 DEF Stop, Typed, TypeOK
  <2>3. CASE Restart(w)
    BY <1>0, <2>3 DEF Restart, Typed, TypeOK
  <2>4. QED BY <1>6, <2>1, <2>2, <2>3
<1>7. ASSUME NEW e \in execs, RenewLease(e) PROVE Typed'
  <2>1. [row[e.job] EXCEPT !.fresh = TRUE] \in Row
    BY <1>0, WrittenRowTypes DEF Exec
  <2>2. QED BY <1>0, <1>7, <2>1 DEF RenewLease, Typed, TypeOK
<1>8. ASSUME NEW e \in execs, Outcome(e) PROVE Typed'
  <2>1. e.job \in Jobs /\ e.worker \in Workers
    BY <1>0 DEF Exec
  <2>2. row' \in [Jobs -> Row]
    <3>1. CASE Complete(e)
      BY <1>0, <2>1, <3>1, WrittenRowTypes DEF Complete
    <3>2. ASSUME NEW retryable \in BOOLEAN, Fail(e, retryable) PROVE row' \in [Jobs -> Row]
      BY <1>0, <2>1, <3>2, WrittenRowTypes DEF Fail, ShouldRetry
    <3>3. CASE EndsWithoutOutcome(e)
      BY <1>0, <3>3 DEF EndsWithoutOutcome
    <3>4. QED BY <1>8, <3>1, <3>2, <3>3 DEF Outcome
  <2>3. Ends(e)
    BY <1>8 DEF Outcome, Complete, Fail, EndsWithoutOutcome
  <2>4. IsFiniteSet(execs \ {e})
    BY <1>0, FS_Difference
  <2>5. QED BY <1>0, <2>1, <2>2, <2>3, <2>4 DEF Ends, Typed, TypeOK
<1>9. CASE UNCHANGED vars
  BY <1>9 DEF vars, Typed, TypeOK
<1>10. QED
  BY <1>1, <1>2, <1>3, <1>4, <1>5, <1>6, <1>7, <1>8, <1>9 DEF Next, Poll

\* The table, the tasks and the poll state stay within their types.
THEOREM TypeCorrect == Spec => []TypeOK
<1>1. Typed => TypeOK
  BY DEF Typed
<1>2. QED BY <1>1, InitTyped, TypedStep, PTL DEF Spec

-----------------------------------------------------------------------------
(* Leases.  That a lease implies a running row is not inductive: a retried  *)
(* row keeps its token, so the argument needs that no second task can       *)
(* present the same one.  Tokens name attempts, an attempt is claimed once, *)
(* and no task is ahead of the attempt its row has reached.                 *)

TasksNotAhead == \A e \in execs : e.attempt <= row[e.job].attempt

OneTaskPerAttempt ==
    \A e, f \in execs : e.job = f.job /\ e.attempt = f.attempt => e = f

AbsentUnclaimed == \A j \in Jobs : row[j].status = "absent" => row[j].attempt = 0

AttemptsWithinCeiling == \A j \in Jobs : row[j].attempt <= MaxAttempts[j]

LeaseInv ==
    /\ Typed
    /\ TasksNotAhead
    /\ OneTaskPerAttempt
    /\ AbsentUnclaimed
    /\ AttemptsWithinCeiling
    /\ LeaseImpliesRunning
    /\ QueuedHasAttemptLeft

\* The shape of what follows: outside a claim no task appears and no attempt
\* moves, and only the two properties themselves are left to show.
LEMMA NoClaimKeepsLeaseInv ==
    ASSUME LeaseInv, Typed', execs' \subseteq execs,
           \A j \in Jobs : row'[j].attempt = row[j].attempt,
           \A j \in Jobs : row'[j].status = "absent" => row[j].status = "absent",
           LeaseImpliesRunning', QueuedHasAttemptLeft'
    PROVE  LeaseInv'
<1>1. \A e \in execs' : e \in execs /\ e.job \in Jobs
  BY DEF LeaseInv, Typed, TypeOK, Exec
<1>2. TasksNotAhead'
  BY <1>1 DEF LeaseInv, TasksNotAhead
<1>3. OneTaskPerAttempt'
  BY <1>1 DEF LeaseInv, OneTaskPerAttempt
<1>4. AbsentUnclaimed' /\ AttemptsWithinCeiling'
  BY DEF LeaseInv, AbsentUnclaimed, AttemptsWithinCeiling
<1>5. QED BY <1>2, <1>3, <1>4 DEF LeaseInv

LEMMA InitLeaseInv == Init => LeaseInv
<1> SUFFICES ASSUME Init PROVE LeaseInv
  OBVIOUS
<1>1. execs = {} /\ row = [j \in Jobs |-> NoRow]
  BY DEF Init
<1>2. \A j \in Jobs : row[j].attempt = 0 /\ row[j].status = "absent"
  BY <1>1 DEF NoRow
<1>3. \A j \in Jobs : 0 <= MaxAttempts[j]
  BY JobQueueAssumption
<1>4. QED
  BY <1>1, <1>2, <1>3, InitTyped
     DEF LeaseInv, TasksNotAhead, OneTaskPerAttempt, AbsentUnclaimed,
         AttemptsWithinCeiling, LeaseImpliesRunning, QueuedHasAttemptLeft

\* A claim mints a token no task holds: every task of the row is of an earlier
\* attempt, and the tasks the claim starts hold rows it has just set running.
LEMMA ClaimKeepsLeaseInv ==
    ASSUME LeaseInv, Typed', NEW w \in Workers, NEW S \in SUBSET Jobs,
           Claim(w, S) \/ ClaimReplyLost(w, S)
    PROVE  LeaseInv'
<1>0. /\ row \in [Jobs -> Row] /\ \A j \in Jobs : row[j].attempt \in Nat
      /\ \A e \in execs : e.job \in Jobs /\ e.attempt \in Nat
  BY DEF LeaseInv, Typed, TypeOK, Row, Exec
<1> DEFINE New == {[job |-> j, worker |-> w, attempt |-> row[j].attempt + 1] : j \in S}
<1>1. execs' = execs \/ execs' = execs \cup New
  BY DEF Claim, ClaimReplyLost
<1>2. S \subseteq Claimable
  BY DEF Claim, ClaimReplyLost, ClaimRows
<1>3. \A j \in S : /\ row[j].attempt < MaxAttempts[j]
                   /\ row'[j].status = "running"
                   /\ row'[j].attempt = row[j].attempt + 1
                   /\ row'[j].token = row[j].attempt + 1
  <2> SUFFICES ASSUME NEW j \in S
               PROVE  /\ row[j].attempt < MaxAttempts[j]
                      /\ row'[j].status = "running"
                      /\ row'[j].attempt = row[j].attempt + 1
                      /\ row'[j].token = row[j].attempt + 1
    OBVIOUS
  <2>1. row[j].attempt < MaxAttempts[j]
    BY <1>2 DEF Claimable
  <2>2. row'[j] = ClaimedRow(row[j], w)
    BY DEF Claim, ClaimReplyLost, ClaimRows
  <2>3. QED BY <1>0, <2>1, <2>2, ClaimedRowType
<1>4. \A j \in Jobs \ S : row'[j] = row[j]
  BY DEF Claim, ClaimReplyLost, ClaimRows
<1>5. \A e \in New : /\ e.job \in S /\ e.attempt = row[e.job].attempt + 1
                     /\ e = [job |-> e.job, worker |-> w, attempt |-> row[e.job].attempt + 1]
  OBVIOUS
<1>6. \A e \in execs : e.attempt <= row[e.job].attempt
  BY DEF LeaseInv, TasksNotAhead
<1>7. TasksNotAhead'
  BY <1>0, <1>1, <1>3, <1>4, <1>5, <1>6 DEF TasksNotAhead
<1>8. OneTaskPerAttempt'
  <2> SUFFICES ASSUME NEW e \in execs', NEW f \in execs',
                      e.job = f.job, e.attempt = f.attempt
               PROVE  e = f
    BY DEF OneTaskPerAttempt
  <2>1. CASE e \in execs /\ f \in execs
    BY <2>1 DEF LeaseInv, OneTaskPerAttempt
  <2>2. CASE e \in New /\ f \in New
    BY <2>2, <1>5
  <2>3. CASE e \in execs /\ f \in New
    BY <2>3, <1>0, <1>5, <1>6
  <2>4. CASE e \in New /\ f \in execs
    BY <2>4, <1>0, <1>5, <1>6
  <2>5. QED BY <1>1, <2>1, <2>2, <2>3, <2>4
<1>9. AbsentUnclaimed' /\ AttemptsWithinCeiling'
  <2>1. \A j \in Jobs : MaxAttempts[j] \in Nat
    BY JobQueueAssumption
  <2>2. \A j \in Jobs : row'[j].attempt <= MaxAttempts[j]
    BY <1>0, <1>3, <1>4, <2>1 DEF LeaseInv, AttemptsWithinCeiling
  <2>3. \A j \in Jobs : row'[j].status = "absent" => row'[j].attempt = 0
    BY <1>3, <1>4 DEF LeaseInv, AbsentUnclaimed
  <2>4. QED BY <2>2, <2>3 DEF AbsentUnclaimed, AttemptsWithinCeiling
<1>10. LeaseImpliesRunning'
  <2> SUFFICES ASSUME NEW e \in execs', Holds(e)' PROVE row'[e.job].status = "running"
    BY DEF LeaseImpliesRunning
  <2>1. CASE e.job \in S
    BY <2>1, <1>3
  <2>2. CASE e.job \notin S
    <3>1. e \in execs /\ e.job \in Jobs /\ row'[e.job] = row[e.job]
      BY <2>2, <1>0, <1>1, <1>4, <1>5
    <3>2. Holds(e)
      BY <3>1 DEF Holds
    <3>3. QED BY <3>1, <3>2 DEF LeaseInv, LeaseImpliesRunning
  <2>3. QED BY <2>1, <2>2
<1>11. QueuedHasAttemptLeft'
  BY <1>3, <1>4 DEF LeaseInv, QueuedHasAttemptLeft
<1>12. QED BY <1>7, <1>8, <1>9, <1>10, <1>11 DEF LeaseInv

LEMMA LeaseInvStep == LeaseInv /\ [Next]_vars => LeaseInv'
<1> SUFFICES ASSUME LeaseInv, [Next]_vars PROVE LeaseInv'
  OBVIOUS
<1>0. /\ Typed' /\ row \in [Jobs -> Row]
      /\ \A j \in Jobs : row[j].attempt \in Nat /\ MaxAttempts[j] \in Nat \ {0}
      /\ \A e \in execs : e.job \in Jobs /\ e.worker \in Workers /\ e.attempt \in Nat \ {0}
  BY TypedStep, JobQueueAssumption DEF LeaseInv, Typed, TypeOK, Row, Exec
<1>1. ASSUME NEW j \in Jobs, Enqueue(j) PROVE LeaseInv'
  <2>1. execs' = execs /\ \A i \in Jobs \ {j} : row'[i] = row[i]
    BY <1>0, <1>1 DEF Enqueue
  <2>2. row[j].attempt = 0 /\ row[j].status = "absent"
    BY <1>1 DEF Enqueue, LeaseInv, AbsentUnclaimed
  <2>3. row'[j].status = "queued" /\ row'[j].attempt = 0 /\ row'[j].token = 0
    BY <1>0, <1>1 DEF Enqueue, NoRow
  <2>4. LeaseImpliesRunning'
    BY <1>0, <2>1, <2>3 DEF LeaseImpliesRunning, LeaseInv, Holds
  <2>5. QueuedHasAttemptLeft'
    BY <1>0, <2>1, <2>3 DEF QueuedHasAttemptLeft, LeaseInv
  <2>6. QED BY <1>0, <2>1, <2>2, <2>3, <2>4, <2>5, NoClaimKeepsLeaseInv
<1>2. ASSUME NEW j \in Jobs, Cancel(j) PROVE LeaseInv'
  <2>1. execs' = execs /\ \A i \in Jobs \ {j} : row'[i] = row[i]
    BY <1>0, <1>2 DEF Cancel
  <2>2. /\ row'[j].status = "cancelled" /\ row'[j].token = 0
        /\ row'[j].attempt = row[j].attempt
    BY <1>0, <1>2 DEF Cancel, CancelledRow, Row
  <2>3. LeaseImpliesRunning'
    BY <1>0, <2>1, <2>2 DEF LeaseImpliesRunning, LeaseInv, Holds
  <2>4. QueuedHasAttemptLeft'
    BY <2>1, <2>2 DEF QueuedHasAttemptLeft, LeaseInv
  <2>5. QED BY <1>0, <2>1, <2>2, <2>3, <2>4, NoClaimKeepsLeaseInv
<1>3. ASSUME NEW j \in Jobs, Lapse(j) \/ BackoffElapses(j) PROVE LeaseInv'
  <2>1. execs' = execs /\ \A i \in Jobs \ {j} : row'[i] = row[i]
    BY <1>0, <1>3 DEF Lapse, BackoffElapses
  <2>2. /\ row'[j].status = row[j].status /\ row'[j].attempt = row[j].attempt
        /\ row'[j].token = row[j].token /\ row'[j].holder = row[j].holder
    BY <1>0, <1>3 DEF Lapse, BackoffElapses, Row
  <2>3. LeaseImpliesRunning'
    BY <1>0, <2>1, <2>2 DEF LeaseImpliesRunning, LeaseInv, Holds
  <2>4. QueuedHasAttemptLeft'
    BY <2>1, <2>2 DEF QueuedHasAttemptLeft, LeaseInv
  <2>5. QED BY <1>0, <2>1, <2>2, <2>3, <2>4, NoClaimKeepsLeaseInv
<1>4. ASSUME NEW w \in Workers, NEW S \in SUBSET Jobs, Recover(w, S) PROVE LeaseInv'
  <2>1. execs' = execs
    BY <1>4 DEF Recover
  <2>2. ASSUME NEW j \in Jobs
        PROVE  \/ row'[j] = row[j]
               \/ /\ row'[j].token = 0 /\ row'[j].attempt = row[j].attempt
                  /\ \/ row'[j].status = "failed"
                     \/ row'[j].status = "queued" /\ row[j].attempt < MaxAttempts[j]
    <3>1. CASE j \in Exhausted
      <4>1. j \notin S
        BY <1>0, <1>4, <3>1 DEF Recover, Requeueable, Exhausted
      <4>2. row'[j] = TerminalizedRow(row[j])
        BY <1>4, <3>1, <4>1 DEF Recover
      <4>3. QED BY <1>0, <4>2 DEF TerminalizedRow, Row
    <3>2. CASE j \notin Exhausted /\ j \in S
      <4>1. row[j].attempt < MaxAttempts[j]
        BY <1>4, <3>2 DEF Recover, Requeueable
      <4>2. row'[j] = RequeuedRow(row[j])
        BY <1>4, <3>2 DEF Recover
      <4>3. QED BY <1>0, <4>1, <4>2 DEF RequeuedRow, Row
    <3>3. CASE j \notin Exhausted /\ j \notin S
      BY <1>4, <3>3 DEF Recover
    <3>4. QED BY <3>1, <3>2, <3>3
  <2>3. LeaseImpliesRunning'
    BY <1>0, <2>1, <2>2 DEF LeaseImpliesRunning, LeaseInv, Holds
  <2>4. QueuedHasAttemptLeft'
    BY <2>2 DEF QueuedHasAttemptLeft, LeaseInv
  <2>5. /\ \A j \in Jobs : row'[j].attempt = row[j].attempt
        /\ \A j \in Jobs : row'[j].status = "absent" => row[j].status = "absent"
    BY <2>2
  <2>6. QED BY <1>0, <2>1, <2>3, <2>4, <2>5, NoClaimKeepsLeaseInv
<1>5. ASSUME NEW w \in Workers, NEW S \in SUBSET Jobs,
             Claim(w, S) \/ ClaimReplyLost(w, S)
      PROVE  LeaseInv'
  BY <1>0, <1>5, ClaimKeepsLeaseInv
<1>6. ASSUME NEW w \in Workers, Drain(w) \/ Stop(w) \/ Restart(w) PROVE LeaseInv'
  <2>1. row' = row /\ execs' \subseteq execs
    BY <1>6 DEF Drain, Stop, Restart
  <2>2. LeaseImpliesRunning' /\ QueuedHasAttemptLeft'
    BY <2>1 DEF LeaseImpliesRunning, QueuedHasAttemptLeft, LeaseInv, Holds
  <2>3. QED BY <1>0, <2>1, <2>2, NoClaimKeepsLeaseInv
<1>7. ASSUME NEW e \in execs, RenewLease(e) PROVE LeaseInv'
  <2>1. execs' = execs /\ \A j \in Jobs \ {e.job} : row'[j] = row[j]
    BY <1>0, <1>7 DEF RenewLease
  <2>2. /\ row'[e.job].status = row[e.job].status
        /\ row'[e.job].attempt = row[e.job].attempt
        /\ row'[e.job].token = row[e.job].token /\ row'[e.job].holder = row[e.job].holder
    BY <1>0, <1>7 DEF RenewLease, Row
  <2>3. LeaseImpliesRunning'
    BY <1>0, <2>1, <2>2 DEF LeaseImpliesRunning, LeaseInv, Holds
  <2>4. QueuedHasAttemptLeft'
    BY <2>1, <2>2 DEF QueuedHasAttemptLeft, LeaseInv
  <2>5. QED BY <1>0, <2>1, <2>2, <2>3, <2>4, NoClaimKeepsLeaseInv
<1>8. ASSUME NEW e \in execs, Outcome(e) PROVE LeaseInv'
  <2>1. execs' = execs \ {e} /\ execs' \subseteq execs
    BY <1>8 DEF Outcome, Complete, Fail, EndsWithoutOutcome, Ends
  <2>2. \/ row' = row
        \/ /\ Holds(e)
           /\ \A j \in Jobs \ {e.job} : row'[j] = row[j]
           /\ row'[e.job].attempt = row[e.job].attempt
           /\ \/ row'[e.job].status \in {"succeeded", "failed"}
              \/ row'[e.job].status = "queued" /\ e.attempt < MaxAttempts[e.job]
    <3>1. CASE Complete(e)
      BY <1>0, <3>1 DEF Complete, SucceededRow, Row
    <3>2. ASSUME NEW retryable \in BOOLEAN, Fail(e, retryable)
          PROVE  <2>2!1 \/ <2>2!2
      BY <1>0, <3>2 DEF Fail, FailedRow, ShouldRetry, Row
    <3>3. CASE EndsWithoutOutcome(e)
      BY <3>3 DEF EndsWithoutOutcome
    <3>4. QED BY <1>8, <3>1, <3>2, <3>3 DEF Outcome
  <2>3. /\ \A j \in Jobs : row'[j].attempt = row[j].attempt
        /\ \A j \in Jobs : row'[j].status = "absent" => row[j].status = "absent"
    BY <2>2
  <2>4. LeaseImpliesRunning'
    <3> SUFFICES ASSUME NEW f \in execs', Holds(f)' PROVE row'[f.job].status = "running"
      BY DEF LeaseImpliesRunning
    <3>1. f \in execs /\ f # e /\ f.job \in Jobs
      BY <1>0, <2>1
    <3>2. CASE row'[f.job] = row[f.job]
      BY <3>1, <3>2 DEF LeaseInv, LeaseImpliesRunning, Holds
    <3>3. CASE f.job = e.job /\ Holds(e)
      <4>1. f.attempt = e.attempt
        BY <1>0, <2>3, <3>1, <3>3 DEF Holds
      <4>2. QED BY <3>1, <3>3, <4>1 DEF LeaseInv, OneTaskPerAttempt
    <3>4. QED BY <2>2, <3>1, <3>2, <3>3
  <2>5. QueuedHasAttemptLeft'
    BY <1>0, <2>2 DEF QueuedHasAttemptLeft, LeaseInv, Holds
  <2>6. QED BY <1>0, <2>1, <2>3, <2>4, <2>5, NoClaimKeepsLeaseInv
<1>9. CASE UNCHANGED vars
  <2>1. LeaseImpliesRunning' /\ QueuedHasAttemptLeft' /\ row' = row /\ execs' = execs
    BY <1>9 DEF vars, LeaseImpliesRunning, QueuedHasAttemptLeft, LeaseInv, Holds
  <2>2. QED BY <1>0, <2>1, NoClaimKeepsLeaseInv
<1>10. QED
  BY <1>1, <1>2, <1>3, <1>4, <1>5, <1>6, <1>7, <1>8, <1>9 DEF Next, Poll

LEMMA LeaseInvHolds == Spec => []LeaseInv
  BY InitLeaseInv, LeaseInvStep, PTL DEF Spec

\* Whoever still presents a lease finds its row running: no write of a late
\* worker lands on a row that was cancelled, requeued, retried or terminalized.
THEOREM LeaseFencesLateWorkers == Spec => []LeaseImpliesRunning
<1>1. LeaseInv => LeaseImpliesRunning
  BY DEF LeaseInv
<1>2. QED BY <1>1, LeaseInvHolds, PTL

\* No row waits in the queue that a claim would never take.
THEOREM QueuedRowsAreClaimable == Spec => []QueuedHasAttemptLeft
<1>1. LeaseInv => QueuedHasAttemptLeft
  BY DEF LeaseInv
<1>2. QED BY <1>1, LeaseInvHolds, PTL

-----------------------------------------------------------------------------
(* The queue implements the job lifecycle.                                  *)

\* What a step may do to one job, said of the rows.
JobMoves(j) ==
    /\ <<row[j].status, row'[j].status>> \in Lifecycle!Transitions
    /\ row'[j].status = "queued" => row'[j].attempt < MaxAttempts[j]
    /\ \/ /\ row'[j].status = "running" /\ row'[j].attempt = row[j].attempt + 1
          /\ row'[j].attempt <= MaxAttempts[j]
       \/ row'[j].status # "running" /\ row'[j].attempt = row[j].attempt

JobRests(j) == row'[j].status = row[j].status /\ row'[j].attempt = row[j].attempt

LEMMA StepMovesJobs ==
    ASSUME LeaseInv, [Next]_vars, NEW j \in Jobs PROVE JobMoves(j) \/ JobRests(j)
<1>0. /\ row \in [Jobs -> Row]
      /\ \A i \in Jobs : row[i].attempt \in Nat /\ MaxAttempts[i] \in Nat \ {0}
      /\ \A e \in execs : e.job \in Jobs /\ e.worker \in Workers /\ e.attempt \in Nat \ {0}
  BY JobQueueAssumption DEF LeaseInv, Typed, TypeOK, Row, Exec
<1> USE DEF JobMoves, JobRests
<1>1. ASSUME NEW i \in Jobs, Enqueue(i) PROVE JobMoves(j) \/ JobRests(j)
  <2>1. row[i].attempt = 0 /\ row[i].status = "absent"
    BY <1>1 DEF Enqueue, LeaseInv, AbsentUnclaimed
  <2>2. /\ row'[i].status = "queued" /\ row'[i].attempt = 0
        /\ \A k \in Jobs \ {i} : row'[k] = row[k]
    BY <1>0, <1>1 DEF Enqueue, NoRow
  <2>3. QED BY <1>0, <2>1, <2>2 DEF Lifecycle!Transitions
<1>2. ASSUME NEW i \in Jobs, Cancel(i) PROVE JobMoves(j) \/ JobRests(j)
  <2>1. /\ row'[i].status = "cancelled" /\ row'[i].attempt = row[i].attempt
        /\ row[i].status \in {"queued", "running"}
        /\ \A k \in Jobs \ {i} : row'[k] = row[k]
    BY <1>0, <1>2 DEF Cancel, CancelledRow, Row
  <2>2. QED BY <2>1 DEF Lifecycle!Transitions
<1>3. ASSUME NEW i \in Jobs, Lapse(i) \/ BackoffElapses(i) PROVE JobMoves(j) \/ JobRests(j)
  BY <1>0, <1>3 DEF Lapse, BackoffElapses, Row
<1>4. ASSUME NEW w \in Workers, NEW S \in SUBSET Jobs, Recover(w, S)
      PROVE  JobMoves(j) \/ JobRests(j)
  <2>1. CASE j \in Exhausted
    <3>1. row[j].status = "running"
      BY <2>1 DEF Exhausted, Stale
    <3>2. j \notin S
      BY <1>0, <1>4, <2>1 DEF Recover, Requeueable, Exhausted
    <3>3. row'[j] = TerminalizedRow(row[j])
      BY <1>4, <2>1, <3>2 DEF Recover
    <3>4. row'[j].status = "failed" /\ row'[j].attempt = row[j].attempt
      BY <1>0, <3>3 DEF TerminalizedRow, Row
    <3>5. QED BY <3>1, <3>4 DEF Lifecycle!Transitions
  <2>2. CASE j \notin Exhausted /\ j \in S
    <3>1. row[j].status = "running" /\ row[j].attempt < MaxAttempts[j]
      BY <1>4, <2>2 DEF Recover, Requeueable, Stale
    <3>2. row'[j] = RequeuedRow(row[j])
      BY <1>4, <2>2 DEF Recover
    <3>3. row'[j].status = "queued" /\ row'[j].attempt = row[j].attempt
      BY <1>0, <3>2 DEF RequeuedRow, Row
    <3>4. QED BY <3>1, <3>3 DEF Lifecycle!Transitions
  <2>3. CASE j \notin Exhausted /\ j \notin S
    BY <1>4, <2>3 DEF Recover
  <2>4. QED BY <2>1, <2>2, <2>3
<1>5. ASSUME NEW w \in Workers, NEW S \in SUBSET Jobs,
             Claim(w, S) \/ ClaimReplyLost(w, S)
      PROVE  JobMoves(j) \/ JobRests(j)
  <2>1. CASE j \in S
    <3>1. row[j].status = "queued" /\ row[j].attempt < MaxAttempts[j]
      BY <1>5, <2>1 DEF Claim, ClaimReplyLost, ClaimRows, Claimable, DueIn
    <3>2. row'[j] = ClaimedRow(row[j], w)
      BY <1>5, <2>1 DEF Claim, ClaimReplyLost, ClaimRows
    <3>3. row'[j].status = "running" /\ row'[j].attempt = row[j].attempt + 1
      BY <1>0, <3>2, ClaimedRowType
    <3>4. QED BY <1>0, <3>1, <3>3 DEF Lifecycle!Transitions
  <2>2. CASE j \notin S
    BY <1>5, <2>2 DEF Claim, ClaimReplyLost, ClaimRows
  <2>3. QED BY <2>1, <2>2
<1>6. ASSUME NEW w \in Workers, Drain(w) \/ Stop(w) \/ Restart(w)
      PROVE  JobMoves(j) \/ JobRests(j)
  BY <1>6 DEF Drain, Stop, Restart
<1>7. ASSUME NEW e \in execs, RenewLease(e) PROVE JobMoves(j) \/ JobRests(j)
  BY <1>0, <1>7 DEF RenewLease, Row
<1>8. ASSUME NEW e \in execs, Outcome(e) PROVE JobMoves(j) \/ JobRests(j)
  <2>1. CASE row' = row
    BY <2>1
  <2>2. CASE Holds(e) /\ row' # row
    <3>1. row[e.job].status = "running" /\ row[e.job].attempt = e.attempt
      BY <2>2 DEF LeaseInv, LeaseImpliesRunning, Holds
    <3>2. /\ \A k \in Jobs \ {e.job} : row'[k] = row[k]
          /\ row'[e.job].attempt = row[e.job].attempt
          /\ \/ row'[e.job].status \in {"succeeded", "failed"}
             \/ row'[e.job].status = "queued" /\ e.attempt < MaxAttempts[e.job]
      <4>1. CASE Complete(e)
        BY <1>0, <2>2, <4>1 DEF Complete, SucceededRow, Row
      <4>2. ASSUME NEW retryable \in BOOLEAN, Fail(e, retryable) PROVE <3>2!1 /\ <3>2!2 /\ <3>2!3
        BY <1>0, <2>2, <4>2 DEF Fail, FailedRow, ShouldRetry, Row
      <4>3. QED BY <1>8, <2>2, <4>1, <4>2 DEF Outcome, EndsWithoutOutcome
    <3>3. QED BY <1>0, <3>1, <3>2 DEF Lifecycle!Transitions
  <2>3. QED BY <1>8, <2>1, <2>2 DEF Outcome, Complete, Fail, EndsWithoutOutcome
<1>9. CASE UNCHANGED vars
  BY <1>9 DEF vars
<1>10. QED
  BY <1>1, <1>2, <1>3, <1>4, <1>5, <1>6, <1>7, <1>8, <1>9 DEF Next, Poll

LEMMA InitImplementsLifecycle == Init => Lifecycle!LifecycleInit
<1> SUFFICES ASSUME Init PROVE Lifecycle!LifecycleInit
  OBVIOUS
<1>1. \A j \in Jobs : row[j].status = "absent" /\ row[j].attempt = 0
  BY DEF Init, NoRow
<1>2. QED BY <1>1 DEF Lifecycle!LifecycleInit

LEMMA StepImplementsLifecycle ==
    ASSUME LeaseInv, LeaseInv', [Next]_vars
    PROVE  [Lifecycle!LifecycleNext]_(Lifecycle!lifecycleVars)
<1> DEFINE stage == [j \in Jobs |-> row[j].status]
           starts == [j \in Jobs |-> row[j].attempt]
<1>1. \A j \in Jobs : row'[j].status \in Lifecycle!Stages /\ row'[j].attempt \in Nat
  BY DEF LeaseInv, Typed, TypeOK, Row, Status, Lifecycle!Stages
<1>2. stage' \in [Jobs -> Lifecycle!Stages] /\ starts' \in [Jobs -> Nat]
  BY <1>1
<1>3. ASSUME NEW j \in Jobs PROVE Lifecycle!Moves(j) \/ Lifecycle!Rests(j)
  <2>1. JobMoves(j) \/ JobRests(j)
    BY StepMovesJobs
  <2>2. /\ stage[j] = row[j].status /\ stage'[j] = row'[j].status
        /\ starts[j] = row[j].attempt /\ starts'[j] = row'[j].attempt
    OBVIOUS
  <2>3. QED BY <2>1, <2>2 DEF JobMoves, JobRests, Lifecycle!Moves, Lifecycle!Rests
<1>4. Lifecycle!LifecycleNext
  BY <1>2, <1>3 DEF Lifecycle!LifecycleNext
<1>5. QED BY <1>4

\* Seen from outside, the queue with its workers, leases and crashes is the
\* job lifecycle: terminal rows are final and starts are bounded.
THEOREM QueueImplementsLifecycle == Spec => ImplementsLifecycle
<1>1. Init => Lifecycle!LifecycleInit
  BY InitImplementsLifecycle
<1>2. LeaseInv /\ LeaseInv' /\ [Next]_vars
         => [Lifecycle!LifecycleNext]_(Lifecycle!lifecycleVars)
  BY StepImplementsLifecycle
<1>3. QED
  BY <1>1, <1>2, LeaseInvHolds, PTL DEF Spec, ImplementsLifecycle, Lifecycle!LifecycleSpec

-----------------------------------------------------------------------------
(* Worker slots.  A poll books its budget when it recovers and spends it    *)
(* when it claims; in between tasks only end, so the budget stays covered.  *)

BudgetInv == \A w \in Workers : Cardinality(Tasks(w)) + poll[w] <= Concurrency

LEMMA UnionCount ==
    ASSUME NEW A, NEW B, IsFiniteSet(A), IsFiniteSet(B)
    PROVE  /\ IsFiniteSet(A \cup B) /\ Cardinality(A \cup B) \in Nat
           /\ Cardinality(A \cup B) <= Cardinality(A) + Cardinality(B)
<1>1. IsFiniteSet(A \cup B) /\ IsFiniteSet(A \cap B)
  BY FS_Union, FS_Intersection
<1>2. /\ Cardinality(A) \in Nat /\ Cardinality(B) \in Nat
      /\ Cardinality(A \cup B) \in Nat /\ Cardinality(A \cap B) \in Nat
  BY <1>1, FS_CardinalityType
<1>3. Cardinality(A \cup B) = Cardinality(A) + Cardinality(B) - Cardinality(A \cap B)
  BY FS_Union
<1>4. QED BY <1>1, <1>2, <1>3

LEMMA TaskCount ==
    ASSUME Typed, NEW w \in Workers
    PROVE  IsFiniteSet(Tasks(w)) /\ Cardinality(Tasks(w)) \in Nat
<1>1. Tasks(w) \subseteq execs
  BY DEF Tasks
<1>2. IsFiniteSet(Tasks(w))
  BY <1>1, FS_Subset DEF Typed
<1>3. QED BY <1>2, FS_CardinalityType

\* Where tasks only end and no budget grows, nothing is overdrawn.
LEMMA FewerTasks ==
    ASSUME Typed, Typed', BudgetInv, NEW w \in Workers,
           execs' \subseteq execs, poll'[w] <= poll[w]
    PROVE  Cardinality(Tasks(w)') + poll'[w] <= Concurrency
<1>1. Tasks(w)' \subseteq Tasks(w)
  BY DEF Tasks
<1>2. /\ IsFiniteSet(Tasks(w)) /\ Cardinality(Tasks(w)) \in Nat
  BY TaskCount
<1>3. IsFiniteSet(Tasks(w)') /\ Cardinality(Tasks(w)') <= Cardinality(Tasks(w))
  BY <1>1, <1>2, FS_Subset
<1>4. Cardinality(Tasks(w)') \in Nat
  BY <1>3, FS_CardinalityType
<1>5. poll[w] \in Nat /\ poll'[w] \in Nat /\ Concurrency \in Nat
  BY JobQueueAssumption DEF Typed, TypeOK
<1>6. QED BY <1>2, <1>3, <1>4, <1>5 DEF BudgetInv

LEMMA BudgetStep ==
    ASSUME Typed, Typed', BudgetInv, [Next]_vars PROVE BudgetInv'
<1> SUFFICES ASSUME NEW w \in Workers
             PROVE  Cardinality(Tasks(w)') + poll'[w] <= Concurrency
  BY DEF BudgetInv
<1>0. /\ \A u \in Workers : poll[u] \in Nat /\ poll'[u] \in Nat
      /\ poll \in [Workers -> 0 .. Concurrency] /\ Concurrency \in Nat
  BY JobQueueAssumption DEF Typed, TypeOK
<1>1. ASSUME NEW u \in Workers, NEW S \in SUBSET Jobs, Recover(u, S)
      PROVE  Cardinality(Tasks(w)') + poll'[w] <= Concurrency
  <2>1. execs' = execs /\ Tasks(w)' = Tasks(w)
    BY <1>1 DEF Recover, Tasks
  <2>2. CASE u = w
    <3>1. poll'[w] = Concurrency - Cardinality(Tasks(w))
      BY <1>0, <1>1, <2>2 DEF Recover, Capacity
    <3>2. QED BY <1>0, <2>1, <3>1, TaskCount
  <2>3. CASE u # w
    BY <1>0, <1>1, <2>1, <2>3, FewerTasks DEF Recover
  <2>4. QED BY <2>2, <2>3
<1>2. ASSUME NEW u \in Workers, NEW S \in SUBSET Jobs, Claim(u, S)
      PROVE  Cardinality(Tasks(w)') + poll'[w] <= Concurrency
  <2> DEFINE New == {[job |-> j, worker |-> u, attempt |-> row[j].attempt + 1] : j \in S}
  <2>1. execs' = execs \cup New /\ poll' = [poll EXCEPT ![u] = 0]
        /\ Cardinality(S) <= LowerOf(poll[u], ClaimBatch)
    BY <1>2 DEF Claim, ClaimRows
  <2>2. /\ IsFiniteSet(New) /\ Cardinality(New) <= Cardinality(S)
        /\ Cardinality(S) \in Nat /\ Cardinality(New) \in Nat
    BY StartedTasks DEF Typed
  <2>3. Cardinality(S) <= poll[u]
    BY <1>0, <2>1, <2>2, JobQueueAssumption DEF LowerOf
  <2>4. CASE u = w
    <3>1. Tasks(w)' = Tasks(w) \cup New
      BY <2>1, <2>4 DEF Tasks
    <3>2. Cardinality(Tasks(w) \cup New) <= Cardinality(Tasks(w)) + Cardinality(New)
      BY <2>2, TaskCount, UnionCount
    <3>3. Cardinality(Tasks(w) \cup New) \in Nat
      BY <2>2, TaskCount, FS_Union, FS_CardinalityType
    <3>4. poll'[w] = 0 /\ Cardinality(Tasks(w)) + poll[w] <= Concurrency
      BY <1>0, <2>1, <2>4 DEF BudgetInv
    <3>5. QED BY <1>0, <2>2, <2>3, <2>4, <3>1, <3>2, <3>3, <3>4, TaskCount
  <2>5. CASE u # w
    <3>1. Tasks(w)' = Tasks(w) /\ poll'[w] = poll[w]
      BY <1>0, <2>1, <2>5 DEF Tasks
    <3>2. QED BY <3>1 DEF BudgetInv
  <2>6. QED BY <2>4, <2>5
<1>3. ASSUME NEW u \in Workers, NEW S \in SUBSET Jobs, ClaimReplyLost(u, S)
      PROVE  Cardinality(Tasks(w)') + poll'[w] <= Concurrency
  BY <1>0, <1>3, FewerTasks DEF ClaimReplyLost, ClaimRows
<1>4. ASSUME NEW j \in Jobs, Enqueue(j) \/ Cancel(j) \/ Lapse(j) \/ BackoffElapses(j)
      PROVE  Cardinality(Tasks(w)') + poll'[w] <= Concurrency
  BY <1>0, <1>4, FewerTasks DEF Enqueue, Cancel, Lapse, BackoffElapses
<1>5. ASSUME NEW u \in Workers, Drain(u) \/ Stop(u) \/ Restart(u)
      PROVE  Cardinality(Tasks(w)') + poll'[w] <= Concurrency
  BY <1>0, <1>5, FewerTasks DEF Drain, Stop, Restart
<1>6. ASSUME NEW e \in execs, RenewLease(e) \/ Outcome(e)
      PROVE  Cardinality(Tasks(w)') + poll'[w] <= Concurrency
  BY <1>0, <1>6, FewerTasks
     DEF RenewLease, Outcome, Complete, Fail, EndsWithoutOutcome, Ends
<1>7. CASE UNCHANGED vars
  BY <1>0, <1>7, FewerTasks DEF vars
<1>8. QED
  BY <1>1, <1>2, <1>3, <1>4, <1>5, <1>6, <1>7 DEF Next, Poll

LEMMA InitBudget == Init => BudgetInv
  BY FS_EmptySet, JobQueueAssumption DEF Init, BudgetInv, Tasks

\* No worker process ever executes more tasks than it has slots.
THEOREM SlotsAreNeverOverdrawn == Spec => []WorkerWithinConcurrency
<1>1. Typed /\ BudgetInv => WorkerWithinConcurrency
  <2> SUFFICES ASSUME Typed, BudgetInv, NEW w \in Workers
               PROVE  Cardinality(Tasks(w)) <= Concurrency
    BY DEF WorkerWithinConcurrency
  <2>1. poll[w] \in Nat /\ Concurrency \in Nat
    BY JobQueueAssumption DEF Typed, TypeOK
  <2>2. QED BY <2>1, TaskCount DEF BudgetInv
<1>2. Typed /\ BudgetInv /\ [Next]_vars => Typed' /\ BudgetInv'
  BY TypedStep, BudgetStep
<1>3. Init => Typed /\ BudgetInv
  BY InitTyped, InitBudget
<1>4. QED BY <1>1, <1>2, <1>3, PTL DEF Spec

-----------------------------------------------------------------------------
(* The model-generation lane.  A batch is counted by the last lane row it   *)
(* takes: that row was claimable only because it, and every due lane row    *)
(* ahead of it, fitted beside those that ran.                               *)

LEMMA LastElement ==
    ASSUME NEW A, IsFiniteSet(A), A \subseteq Nat, A # {}
    PROVE  \E m \in A : \A i \in A : i <= m
<1> DEFINE Above(j) == {i \in A : i > j}
           Family == {Above(j) : j \in A}
<1>1. Family \subseteq FiniteSubsetsOf(A) /\ Family # {}
  <2>1. \A j \in A : Above(j) \in SUBSET A
    OBVIOUS
  <2>2. \A j \in A : IsFiniteSet(Above(j))
    BY <2>1, FS_Subset
  <2>3. QED BY <2>1, <2>2 DEF FiniteSubsetsOf
<1>2. PICK X \in Family : \A Y \in Family : ~ (<<Y, X>> \in StrictSubsetOrdering(A))
  BY <1>1, FS_StrictSubsetOrderingWellFounded, WFMin, Zenon
<1>3. PICK m \in A : X = Above(m)
  OBVIOUS
<1>4. ASSUME NEW i \in A, ~ (i <= m) PROVE FALSE
  <2>0. m \in Nat /\ i \in Nat /\ i > m /\ \A k \in A : k \in Nat
    BY <1>4
  <2>1. Above(i) \subseteq Above(m) /\ i \in Above(m) /\ i \notin Above(i)
    <3>1. \A k \in A : k > i => k > m
      BY <2>0
    <3>2. ~ (i > i)
      BY <2>0
    <3>3. QED BY <2>0, <3>1, <3>2
  <2>2. <<Above(i), X>> \in StrictSubsetOrdering(A)
    BY <2>1, <1>3 DEF StrictSubsetOrdering
  <2>3. QED BY <1>2, <2>2
<1>5. QED BY <1>4

LEMMA LaneFinite ==
    /\ IsFiniteSet(LaneLoad) /\ Cardinality(LaneLoad) \in Nat
    /\ \A A \in SUBSET Jobs : IsFiniteSet(A) /\ Cardinality(A) \in Nat
<1>1. \A A \in SUBSET Jobs : IsFiniteSet(A)
  BY JobQueueAssumption, FS_Subset
<1>2. LaneLoad \in SUBSET Jobs
  BY JobQueueAssumption DEF LaneLoad
<1>3. QED BY <1>1, <1>2, FS_CardinalityType

\* The lane rows of a batch fit beside those that run.
LEMMA BatchFits ==
    ASSUME LaneWithinLimit, NEW S \in SUBSET Claimable
    PROVE  Cardinality(LaneLoad \cup (S \cap LaneJobs)) <= LaneLimit
<1> DEFINE L == S \cap LaneJobs
<1>0. L \subseteq Jobs /\ L \subseteq Nat /\ L \subseteq DueIn /\ LaneLimit \in Nat
  BY JobQueueAssumption DEF Claimable, DueIn
<1>1. CASE L = {}
  BY <1>1 DEF LaneWithinLimit
<1>2. CASE L # {}
  <2>1. PICK m \in L : \A i \in L : i <= m
    BY <1>0, <1>2, LaneFinite, LastElement
  <2> DEFINE Ahead == {i \in DueIn \cap LaneJobs : i < m}
  <2>2. Cardinality(LaneLoad) + Cardinality(Ahead) < LaneLimit
    BY <2>1 DEF Claimable
  <2>3. L \ {m} \subseteq Ahead
    BY <1>0, <2>1
  <2>4. IsFiniteSet(Ahead) /\ Cardinality(Ahead) \in Nat
    BY LaneFinite DEF DueIn
  <2>5. Cardinality(L \ {m}) <= Cardinality(Ahead)
    BY <2>3, <2>4, FS_Subset
  <2>6. Cardinality(L \ {m}) = Cardinality(L) - 1 /\ Cardinality(L) \in Nat
    BY <1>0, <2>1, LaneFinite, FS_RemoveElement, ZenonT(20)
  <2>7. Cardinality(LaneLoad \cup L) <= Cardinality(LaneLoad) + Cardinality(L)
    BY <1>0, LaneFinite, UnionCount
  <2>8. Cardinality(LaneLoad \cup L) \in Nat
    BY <1>0, LaneFinite, UnionCount
  <2> HIDE DEF L, Ahead
  <2>9. Cardinality(LaneLoad \cup L) <= LaneLimit
    BY <1>0, <2>2, <2>4, <2>5, <2>6, <2>7, <2>8, LaneFinite
  <2>10. QED BY <2>9 DEF L
<1>3. QED BY <1>1, <1>2

\* Whatever runs after a step that claims nothing ran before it.
LEMMA NoClaimAddsNoLoad ==
    ASSUME LaneWithinLimit, \A j \in Jobs : row'[j].status = "running" => row[j].status = "running"
    PROVE  LaneWithinLimit'
<1>1. LaneLoad' \subseteq LaneLoad
  BY JobQueueAssumption DEF LaneLoad
<1>2. Cardinality(LaneLoad') <= Cardinality(LaneLoad) /\ Cardinality(LaneLoad') \in Nat
  BY <1>1, LaneFinite, FS_Subset, FS_CardinalityType
<1>3. QED BY <1>2, LaneFinite, JobQueueAssumption DEF LaneWithinLimit

LEMMA LaneStep ==
    ASSUME LeaseInv, LaneWithinLimit, [Next]_vars PROVE LaneWithinLimit'
<1>0. /\ row \in [Jobs -> Row]
      /\ \A e \in execs : e.job \in Jobs
  BY DEF LeaseInv, Typed, TypeOK, Exec
<1>1. ASSUME NEW w \in Workers, NEW S \in SUBSET Jobs,
             Claim(w, S) \/ ClaimReplyLost(w, S)
      PROVE  LaneWithinLimit'
  <2>1. S \in SUBSET Claimable
    BY <1>1 DEF Claim, ClaimReplyLost, ClaimRows
  <2>2. \A j \in Jobs : /\ j \in S => row'[j].status = "running"
                        /\ j \notin S => row'[j] = row[j]
    <3>1. \A j \in S : row'[j] = ClaimedRow(row[j], w)
      BY <1>1 DEF Claim, ClaimReplyLost, ClaimRows
    <3>2. \A j \in Jobs \ S : row'[j] = row[j]
      BY <1>1 DEF Claim, ClaimReplyLost, ClaimRows
    <3>3. QED BY <1>0, <3>1, <3>2, ClaimedRowType
  <2>3. LaneLoad' = LaneLoad \cup (S \cap LaneJobs)
    <3>1. LaneJobs \subseteq Jobs
      BY JobQueueAssumption
    <3>2. LaneLoad' = {j \in LaneJobs : row'[j].status = "running"}
      BY DEF LaneLoad
    <3>3. LaneLoad = {j \in LaneJobs : row[j].status = "running"}
      BY DEF LaneLoad
    <3>4. QED BY <2>2, <3>1, <3>2, <3>3
  <2>4. QED BY <2>1, <2>3, BatchFits DEF LaneWithinLimit
<1>2. ASSUME NEW j \in Jobs, Enqueue(j) \/ Cancel(j) \/ Lapse(j) \/ BackoffElapses(j)
      PROVE  LaneWithinLimit'
  <2>1. \A i \in Jobs : row'[i].status = "running" => row[i].status = "running"
    <3>1. CASE Enqueue(j)
      BY <1>0, <3>1 DEF Enqueue, NoRow
    <3>2. CASE Cancel(j)
      BY <1>0, <3>2 DEF Cancel, CancelledRow, Row
    <3>3. CASE Lapse(j) \/ BackoffElapses(j)
      BY <1>0, <3>3 DEF Lapse, BackoffElapses, Row
    <3>4. QED BY <1>2, <3>1, <3>2, <3>3
  <2>2. QED BY <2>1, NoClaimAddsNoLoad
<1>3. ASSUME NEW w \in Workers, NEW S \in SUBSET Jobs, Recover(w, S) PROVE LaneWithinLimit'
  <2>1. ASSUME NEW j \in Jobs, j \in Exhausted \/ j \in S PROVE row[j].status = "running"
    BY <1>3, <2>1 DEF Recover, Requeueable, Exhausted, Stale
  <2>2. ASSUME NEW j \in Jobs, j \notin Exhausted, j \notin S PROVE row'[j] = row[j]
    BY <1>3, <2>2 DEF Recover
  <2>3. QED BY <2>1, <2>2, NoClaimAddsNoLoad
<1>4. ASSUME NEW w \in Workers, Drain(w) \/ Stop(w) \/ Restart(w) PROVE LaneWithinLimit'
  BY <1>4, NoClaimAddsNoLoad DEF Drain, Stop, Restart
<1>5. ASSUME NEW e \in execs, RenewLease(e) \/ Outcome(e) PROVE LaneWithinLimit'
  <2>1. \A i \in Jobs : row'[i].status = "running" => row[i].status = "running"
    <3>1. CASE RenewLease(e)
      BY <1>0, <3>1 DEF RenewLease, Row
    <3>2. CASE Complete(e)
      BY <1>0, <3>2 DEF Complete, SucceededRow, Row
    <3>3. ASSUME NEW retryable \in BOOLEAN, Fail(e, retryable) PROVE <2>1
      BY <1>0, <3>3 DEF Fail, FailedRow, Row
    <3>4. CASE EndsWithoutOutcome(e)
      BY <3>4 DEF EndsWithoutOutcome
    <3>5. QED BY <1>5, <3>1, <3>2, <3>3, <3>4 DEF Outcome
  <2>2. QED BY <2>1, NoClaimAddsNoLoad
<1>6. CASE UNCHANGED vars
  BY <1>6, NoClaimAddsNoLoad DEF vars
<1>7. QED
  BY <1>1, <1>2, <1>3, <1>4, <1>5, <1>6 DEF Next, Poll

LEMMA InitLane == Init => LaneWithinLimit
<1> SUFFICES ASSUME Init PROVE LaneWithinLimit
  OBVIOUS
<1>1. \A j \in Jobs : row[j].status # "running"
  BY DEF Init, NoRow
<1>2. LaneLoad = {}
  BY <1>1, JobQueueAssumption DEF LaneLoad
<1>3. QED BY <1>2, FS_EmptySet, JobQueueAssumption DEF LaneWithinLimit

\* The lane limit holds across every worker, batch, retry and recovery.
THEOREM LaneIsNeverOverbooked == Spec => []LaneWithinLimit
<1>1. LeaseInv /\ LaneWithinLimit /\ [Next]_vars => LaneWithinLimit'
  BY LaneStep
<1>2. QED BY <1>1, InitLane, LeaseInvHolds, PTL DEF Spec

\* Both limits hold together, for any lane, slots, workers and jobs.
THEOREM LimitsHold == Spec => []WithinLimits
<1>1. LaneWithinLimit /\ WorkerWithinConcurrency => WithinLimits
  BY DEF WithinLimits
<1>2. QED BY <1>1, SlotsAreNeverOverdrawn, LaneIsNeverOverbooked, PTL

=============================================================================
