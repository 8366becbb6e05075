--------------------------- MODULE DiscoveryProofs ---------------------------
(***************************************************************************)
(* What holds of Discovery for every number of runs, attempts, edits and   *)
(* events.  The invariant has two halves.  The first holds whatever fails: *)
(* what the session names exists (Named, NewSession), the run it waits for *)
(* was given what the session has (Awaiting, Reviewed), and an execution   *)
(* whose read of the session is still current is the one it waits for      *)
(* (ReadSound).  The second holds until the first fault (Calm): a run has  *)
(* one execution, the queued or running one is the one the session waits   *)
(* for, and nothing but that execution writes a session that waits.  A     *)
(* reset that found the session new purges what a start has added since    *)
(* (ResetSound), so the run that is waited for may be a purged one.        *)
(***************************************************************************)
EXTENDS Discovery, TLAPS

Asking == {"questions_queued", "questions_running"}
Awaits(s, r) ==
    (s.status = "brief_running" /\ s.brief = r) \/ (s.status \in Asking /\ s.op = r)

\* A run and its job.
RunSound(a, j, xs) ==
    /\ a.status \in {"none", "purged"} <=> j.status = "absent"
    /\ a.status = "none" => \A n \in Attempts : xs[n].pc = "none"
    /\ j.status = "running" => j.attempt # 0

\* The session and the runs it names.
Named(s, ru) == \A r \in {s.op, s.brief, s.text} \ {0} : ru[r].status # "none"
NewSession(s, jo) ==
    /\ s.status = "not_started" => /\ s = [EmptyState EXCEPT !.active = s.active]
                                   /\ \A r \in Runs : jo[r].status = "absent"
    /\ s.status # "not_started" => s.op # 0
    /\ s.status = "brief_running" => s.brief # 0
Given(s, a) == a.key.intake = s.intake /\ a.key.answers = s.answers
Awaiting(s, ru) ==
    \A r \in Runs : Awaits(s, r) =>
        \/ ru[r].status = "purged"
        \/ /\ ru[r].status \in {"pending", "running", "failed", "cancelled"}
           /\ ru[r].key.operation = IF s.status = "brief_running" THEN Brief ELSE Questions
           /\ s.status = "brief_running" => Given(s, ru[r])
Reviewed(s, ru) ==
    s.status \in {"brief_review", "approved"} =>
        s.text # 0 /\ s.text = s.brief /\ Given(s, ru[s.text])

\* A reset under way has fenced the session off; one that found it empty leaves
\* what is written before its end, which is no brief.
ResetSound(s, rs) ==
    /\ rs # "none" => ~ s.active
    /\ rs = "empty" => s.text = 0

\* What an execution read of the session is what the session is, and it read it
\* while the session was not fenced off and its run was there.
ReadSound(s, a, r, x) ==
    ~ x.stale =>
        /\ x.pc \in Reading => s.active /\ a.status # "purged"
        /\ x.pc \in {"start", "commit"} => Awaits(s, r)
        /\ x.pc = "record" => s.status # "not_started"

\* The follow-up's key is taken.
FollowUpTaken(s, ru) ==
    /\ s.status \in Asking
    /\ \E m \in {s.memory, s.op} : \E q \in Runs :
          ru[q].key = KeyOf([s EXCEPT !.memory = m], Brief, 0, Count(0))

\* An execution that works for its run, or whose run will be queued again.
Engaged(n, x) ==
    \/ x.pc \in {"open", "start", "call", "commit", "record"}
    \/ x.pc = "settle" /\ x.out = "retryable" /\ n < MaxAttempts
Has(j, n) == j.status = "running" /\ j.attempt = n
CalmExec(s, ru, r, n, j, x) ==
    /\ x.pc # "none" => j.status = "absent" \/ (j.status # "queued" /\ j.attempt = n)
    /\ Has(j, n) => x.pc # "none"
    /\ Has(j, n) /\ Engaged(n, x) => Awaits(s, r)
    /\ Has(j, n) /\ s.active /\ x.pc \in Reading => ~ x.stale
    /\ x.pc = "record" /\ ~ x.stale => Awaits(s, r)
    /\ Has(j, n) /\ s.active /\ x.pc = "settle" /\ Awaits(s, r) =>
          Engaged(n, x) \/ FollowUpTaken(s, ru)
    /\ x.pc \in {"record", "settle"} /\ x.out = "cancelled" => ~ Has(j, n)
CalmJob(s, ru, r, j) ==
    /\ j.status = "queued" => Awaits(s, r)
    /\ s.active /\ Awaits(s, r) =>
          j.status \in {"queued", "running"} \/ ru[r].status = "purged" \/ FollowUpTaken(s, ru)
Calm(s, ru, jo, ex) ==
    \A r \in Runs : /\ CalmJob(s, ru, r, jo[r])
                    /\ \A n \in Attempts : CalmExec(s, ru, r, n, jo[r], ex[r][n])

IInv ==
    /\ TypeOK
    /\ \A r \in Runs : RunSound(run[r], job[r], exec[r])
    /\ Named(sess, run) /\ NewSession(sess, job) /\ Awaiting(sess, run) /\ Reviewed(sess, run)
    /\ ResetSound(sess, reset)
    /\ \A r \in Runs, n \in Attempts : ReadSound(sess, run[r], r, exec[r][n])
    /\ ~ faulty => Calm(sess, run, job, exec)

-----------------------------------------------------------------------------
(* Types.                                                                  *)

LEMMA ConstFacts ==
    /\ Runs \subseteq RunOrNone /\ 0 \in RunOrNone /\ 0 \notin Runs
    /\ Attempts \subseteq 0 .. MaxAttempts /\ 0 \in 0 .. MaxAttempts /\ 0 \notin Attempts
    /\ 0 \in Edits
    /\ \A i \in Edits \ {0} : i \in Edits
  BY DiscoveryAssumption DEF Runs, RunOrNone, Attempts, Edits

LEMMA NonceTyped ==
    /\ \A r \in RunOrNone : RetryOf(r) \in Nonce
    /\ \A n \in 0 .. MaxAttempts + 1 : Count(n) \in Nonce
    /\ \A n \in 0 .. MaxAttempts : Count(n) \in Nonce /\ Count(n + 1) \in Nonce
<1>1. 0 \in RunOrNone /\ 0 \in 0 .. MaxAttempts + 1
  BY ConstFacts, DiscoveryAssumption
<1>2. \A n \in 0 .. MaxAttempts : n \in 0 .. MaxAttempts + 1 /\ n + 1 \in 0 .. MaxAttempts + 1
  BY DiscoveryAssumption
<1>3. QED BY <1>1, <1>2 DEF RetryOf, Count, Nonce

LEMMA KeyTyped ==
    ASSUME NEW s \in Session, NEW operation \in {Questions, Brief}, NEW request \in Edits,
           NEW nonce \in Nonce
    PROVE  KeyOf(s, operation, request, nonce) \in Key
  BY ConstFacts DEF KeyOf, Key, Session

LEMMA KeyFields ==
    ASSUME NEW s, NEW operation, NEW request, NEW nonce
    PROVE  LET k == KeyOf(s, operation, request, nonce)
           IN  /\ k.operation = operation /\ k.intake = s.intake
               /\ operation = Brief => k.answers = s.answers
  BY DEF KeyOf, Questions, Brief

LEMMA NoExecTyped == NoExec \in Exec /\ NoExec.pc = "none" /\ ~ NoExec.stale
  BY DEF NoExec, Exec

LEMMA StateTypes ==
    ASSUME IInv
    PROVE  /\ sess \in Session /\ run \in [Runs -> Run] /\ job \in [Runs -> Job]
           /\ exec \in [Runs -> [Attempts -> Exec]]
           /\ events \in 0 .. MaxEvents /\ faulty \in BOOLEAN
           /\ reset \in {"none", "empty", "used"}
           /\ \A r \in Runs : run[r] \in Run /\ job[r] \in Job /\ run[r].key \in Key
           /\ \A r \in Runs, n \in Attempts : exec[r][n] \in Exec
  BY DEF IInv, TypeOK, Run

\* One execution's entry, and all of them after a write of the session.
Execs(e) == e \in [Runs -> [Attempts -> Exec]]
Put(e, r, n, y) == [e EXCEPT ![r][n] = y]
Seen(x) == IF x.pc \in Reading THEN [x EXCEPT !.stale = TRUE] ELSE x

LEMMA PutFacts ==
    ASSUME NEW e, Execs(e), NEW r \in Runs, NEW n \in Attempts, NEW y \in Exec,
           NEW e2, e2 = Put(e, r, n, y)
    PROVE  /\ Execs(e2) /\ e2[r][n] = y
           /\ \A q \in Runs, m \in Attempts : q # r \/ m # n => e2[q][m] = e[q][m]
  BY DEF Execs, Put

LEMMA SeenFacts ==
    ASSUME NEW x \in Exec
    PROVE  /\ Seen(x) \in Exec /\ Seen(x).pc = x.pc /\ Seen(x).out = x.out
           /\ Seen(x).late = x.late /\ (x.pc \in Reading => Seen(x).stale)
  BY DEF Seen, Exec

LEMMA MovedFacts ==
    ASSUME NEW e, Execs(e)
    PROVE  /\ Execs(Moved(e))
           /\ \A r \in Runs, n \in Attempts : Moved(e)[r][n] = Seen(e[r][n])
<1>1. \A r \in Runs, n \in Attempts : Moved(e)[r][n] = Seen(e[r][n])
  BY DEF Moved, Seen
<1>2. \A r \in Runs, n \in Attempts : Seen(e[r][n]) \in Exec
  BY SeenFacts DEF Execs
<1>3. Moved(e) = [r \in Runs |-> [n \in Attempts |-> Seen(e[r][n])]]
  BY DEF Moved, Seen
<1>4. QED BY <1>1, <1>2, <1>3 DEF Execs

\* An execution that saw the session's write has nothing left to claim of it.
LEMMA SeenReadSound ==
    ASSUME NEW s, NEW a, NEW r, NEW x \in Exec PROVE ReadSound(s, a, r, Seen(x))
  BY SeenFacts DEF ReadSound, Reading

-----------------------------------------------------------------------------
(* What a session waits for.                                               *)

LEMMA AwaitsFacts ==
    ASSUME IInv
    PROVE  /\ Waiting => Awaited \in Runs /\ Awaits(sess, Awaited)
           /\ \A r \in Runs : Awaits(sess, r) <=> (Waiting /\ Awaited = r)
           /\ \A r \in Runs : job[r].status # "absent" => (Owns(r) <=> Awaits(sess, r))
           /\ \A r \in Runs : Awaits(sess, r) =>
                                job[r].status # "absent" \/ run[r].status = "purged"
           /\ \A r, q \in Runs : Awaits(sess, r) /\ Awaits(sess, q) => r = q
<1>1. sess \in Session
  BY StateTypes
<1>2. Waiting => Awaited \in Runs
  <2>1. sess.op \in RunOrNone /\ sess.brief \in RunOrNone
    BY <1>1 DEF Session
  <2>2. \A x \in RunOrNone : x # 0 => x \in Runs
    BY DiscoveryAssumption DEF Runs, RunOrNone
  <2>3. Waiting => Awaited # 0
    BY DEF IInv, NewSession, Waiting, InQuestions, Awaited
  <2>4. QED BY <2>1, <2>2, <2>3 DEF Awaited
<1>3. \A r \in Runs : Awaits(sess, r) <=> (Waiting /\ Awaited = r)
  BY DEF Awaits, Asking, Waiting, InQuestions, Awaited
<1>4. \A r \in Runs : job[r].status # "absent" => (Owns(r) <=> Awaits(sess, r))
  BY DEF IInv, Awaiting, RunSound, Owns, Awaits, Asking, InQuestions, OperationOf, Questions,
         Brief
<1>5. \A r \in Runs : Awaits(sess, r) => job[r].status # "absent" \/ run[r].status = "purged"
  BY DEF IInv, Awaiting, RunSound
<1>6. QED BY <1>2, <1>3, <1>4, <1>5

\* An operation that may replace the awaited run.
LEMMA RecoveredFacts ==
    ASSUME IInv, Recovered \notin {"questions_queued", "questions_running", "brief_running"},
           NEW r \in Runs, Awaits(sess, r)
    PROVE  job[r].status \in {"failed", "cancelled"} /\ Recovered = "needs_attention"
  BY DEF Recovered, Awaits, Asking, InQuestions

-----------------------------------------------------------------------------
(* The executions while no fault has occurred.                             *)

LEMMA CalmNone ==
    ASSUME NEW s, NEW ru, NEW r, NEW n, NEW j, NEW x, x.pc = "none", ~ Has(j, n)
    PROVE  CalmExec(s, ru, r, n, j, x)
  BY DEF CalmExec, Reading

\* What a write of the session leaves of an execution that is not at work.
SameJob(j, j2) ==
    \/ j2 = j
    \/ j2.attempt = j.attempt /\ j.status # "absent" /\ j2.status \in {"failed", "cancelled"}
LEMMA CalmSeen ==
    ASSUME NEW s, NEW ru, NEW r, NEW n, NEW j, NEW x \in Exec, CalmExec(s, ru, r, n, j, x),
           NEW j2, SameJob(j, j2), ~ (Has(j2, n) /\ Engaged(n, x)),
           NEW s2, NEW ru2, ~ Awaits(s2, r)
    PROVE  CalmExec(s2, ru2, r, n, j2, Seen(x))
<1>1. /\ Seen(x).pc = x.pc /\ Seen(x).out = x.out /\ (x.pc \in Reading => Seen(x).stale)
  BY SeenFacts
<1>2. Engaged(n, Seen(x)) <=> Engaged(n, x)
  BY <1>1 DEF Engaged
<1>3. x.pc \in Reading => Engaged(n, x)
  BY DEF Reading, Engaged
<1>4. Has(j2, n) => Has(j, n)
  BY DEF SameJob, Has
<1>5. x.pc = "record" => x.pc \in Reading
  BY DEF Reading
<1>6. x.pc # "none" => j2.status = "absent" \/ (j2.status # "queued" /\ j2.attempt = n)
  BY DEF CalmExec, SameJob
<1>7. QED BY <1>1, <1>2, <1>3, <1>4, <1>5, <1>6 DEF CalmExec

-----------------------------------------------------------------------------
(* The API.                                                                *)

LEMMA ExecSeen ==
    ASSUME IInv, exec' = Moved(exec)
    PROVE  /\ exec' \in [Runs -> [Attempts -> Exec]]
           /\ \A r \in Runs, n \in Attempts :
                 exec'[r][n] = Seen(exec[r][n]) /\ exec'[r][n].pc = exec[r][n].pc
  BY StateTypes, MovedFacts, SeenFacts DEF Execs

\* While no fault has occurred: an execution at work is of the awaited run.
LEMMA AtWork ==
    ASSUME IInv, ~ faulty, NEW r \in Runs
    PROVE  /\ CalmJob(sess, run, r, job[r])
           /\ \A n \in Attempts :
                 /\ CalmExec(sess, run, r, n, job[r], exec[r][n])
                 /\ Has(job[r], n) /\ Engaged(n, exec[r][n]) => Awaits(sess, r)
  BY DEF IInv, Calm, CalmExec

\* A run is created, and the session waits for it.
LEMMA LaunchKeeps ==
    ASSUME IInv, NEW r \in Runs, NEW key \in Key, NEW s2 \in Session, Launch(r, key, s2),
           s2.status \in {"questions_queued", "brief_running"},
           key.operation = IF s2.status = "brief_running" THEN Brief ELSE Questions,
           s2.status = "brief_running" =>
              s2.brief = r /\ key.intake = s2.intake /\ key.answers = s2.answers,
           s2.status = "questions_queued" => s2.op = r,
           s2.op # 0, s2.op \in {r, sess.op}, s2.brief \in {r, sess.brief}, s2.text = sess.text,
           s2.active = sess.active,
           \A q \in Runs : Awaits(sess, q) => job[q].status \in {"failed", "cancelled"}
    PROVE  IInv'
<1>1. /\ run[r].status = "none" /\ run' = [run EXCEPT ![r] = Inserted(key)]
      /\ job' = [job EXCEPT ![r] = Enqueued] /\ sess' = s2 /\ exec' = Moved(exec)
      /\ UNCHANGED <<reset, events, faulty>>
  BY DEF Launch, Insertable
<1>2. /\ Inserted(key) \in Run /\ Inserted(key).status = "pending" /\ Inserted(key).key = key
      /\ Enqueued \in Job /\ Enqueued.status = "queued"
  BY ConstFacts DEF Inserted, Enqueued, Run, Job
<1>3. /\ run' \in [Runs -> Run] /\ run'[r] = Inserted(key)
      /\ \A q \in Runs : q # r => run'[q] = run[q]
      /\ job' \in [Runs -> Job] /\ job'[r] = Enqueued
      /\ \A q \in Runs : q # r => job'[q] = job[q]
  BY <1>1, <1>2, StateTypes
<1>4. job[r].status = "absent" /\ \A n \in Attempts : exec[r][n].pc = "none"
  BY <1>1 DEF IInv, RunSound
<1>5. /\ exec' \in [Runs -> [Attempts -> Exec]]
      /\ \A q \in Runs, n \in Attempts :
            exec'[q][n] = Seen(exec[q][n]) /\ exec'[q][n].pc = exec[q][n].pc
  BY <1>1, ExecSeen
<1>6. TypeOK'
  BY <1>1, <1>3, <1>5, StateTypes DEF TypeOK
<1>7. \A q \in Runs : RunSound(run'[q], job'[q], exec'[q])
  <2>1. RunSound(run'[r], job'[r], exec'[r])
    BY <1>2, <1>3 DEF RunSound
  <2>2. ASSUME NEW q \in Runs, q # r PROVE RunSound(run'[q], job'[q], exec'[q])
    <3>1. RunSound(run[q], job[q], exec[q]) /\ run'[q] = run[q] /\ job'[q] = job[q]
      BY <1>3, <2>2 DEF IInv
    <3>2. \A n \in Attempts : exec'[q][n].pc = exec[q][n].pc
      BY <1>5
    <3>3. QED BY <3>1, <3>2 DEF RunSound
  <2>3. QED BY <2>1, <2>2
<1>8. Named(sess', run')
  <2>1. ASSUME NEW q \in {s2.op, s2.brief, s2.text} \ {0}
        PROVE  run'[q].status # "none"
    <3>1. CASE q = r
      BY <1>2, <1>3, <3>1
    <3>2. CASE q # r
      <4>1. q \in {sess.op, sess.brief, sess.text} \ {0}
        BY <2>1, <3>2
      <4>2. q \in Runs
        BY <4>1, StateTypes, DiscoveryAssumption, SMTT(20) DEF Session, RunOrNone, Runs
      <4>3. QED BY <1>3, <3>2, <4>1, <4>2 DEF IInv, Named
    <3>3. QED BY <3>1, <3>2
  <2>2. QED BY <1>1, <2>1 DEF Named
<1>9. NewSession(sess', job')
  BY <1>1, ConstFacts DEF NewSession
<1>10. \A q \in Runs : Awaits(s2, q) <=> q = r
  BY DEF Awaits, Asking
<1>11. Awaiting(sess', run')
  BY <1>1, <1>2, <1>3, <1>10 DEF Awaiting, Given
<1>12. Reviewed(sess', run')
  BY <1>1 DEF Reviewed
<1>13. \A q \in Runs, n \in Attempts : ReadSound(sess', run'[q], q, exec'[q][n])
  BY <1>5, StateTypes, SeenReadSound
<1>14. ASSUME ~ faulty PROVE Calm(sess', run', job', exec')
  <2>1. ASSUME NEW q \in Runs PROVE CalmJob(s2, run', q, job'[q])
    <3>1. CASE q = r
      BY <1>2, <1>3, <1>10, <3>1 DEF CalmJob
    <3>2. CASE q # r
      <4>1. job[q].status # "queued"
        BY <1>14, AtWork DEF CalmJob
      <4>2. QED BY <1>3, <1>10, <3>2, <4>1 DEF CalmJob
    <3>3. QED BY <3>1, <3>2
  <2>2. ASSUME NEW q \in Runs, NEW n \in Attempts
        PROVE  CalmExec(s2, run', q, n, job'[q], exec'[q][n])
    <3>1. CASE q = r
      <4>1. exec'[q][n].pc = "none" /\ ~ Has(job'[q], n)
        BY <1>2, <1>3, <1>4, <1>5, <3>1 DEF Has
      <4>2. QED BY <4>1, CalmNone
    <3>2. CASE q # r
      <4>1. ~ (Has(job[q], n) /\ Engaged(n, exec[q][n]))
        BY <1>14, AtWork DEF Has
      <4>2. CalmExec(sess, run, q, n, job[q], exec[q][n]) /\ exec[q][n] \in Exec
        BY <1>14, AtWork, StateTypes
      <4>3. SameJob(job[q], job'[q]) /\ job'[q] = job[q]
        BY <1>3, <3>2 DEF SameJob
      <4>4. QED BY <1>5, <1>10, <3>2, <4>1, <4>2, <4>3, CalmSeen
    <3>3. QED BY <3>1, <3>2
  <2>3. QED BY <1>1, <2>1, <2>2 DEF Calm
<1>15. ResetSound(sess', reset')
  BY <1>1 DEF IInv, ResetSound
<1>16. QED BY <1>1, <1>6, <1>7, <1>8, <1>9, <1>11, <1>12, <1>13, <1>14, <1>15 DEF IInv

\* A session that stops waiting, or that did not wait; runs and jobs may end.
LEMMA SessionKeeps ==
    ASSUME IInv, NEW s2 \in Session, sess' = s2, exec' = Moved(exec),
           UNCHANGED <<reset, events, faulty>>, s2.active = sess.active,
           \A q \in Runs : ~ Awaits(s2, q),
           s2.status \notin {"not_started", "brief_running"}, s2.op # 0,
           s2.op = sess.op, s2.brief = sess.brief, s2.text = sess.text,
           Reviewed(s2, run),
           run' \in [Runs -> Run], job' \in [Runs -> Job],
           \A q \in Runs : /\ run'[q].key = run[q].key /\ SameJob(job[q], job'[q])
                           /\ run'[q] = run[q] \/ (/\ run[q].status \in {"pending", "running"}
                                                   /\ run'[q].status = "cancelled"),
           \A q \in Runs : Awaits(sess, q) => job'[q].status \notin {"queued", "running"}
    PROVE  IInv'
<1>1. /\ exec' \in [Runs -> [Attempts -> Exec]]
      /\ \A q \in Runs, n \in Attempts :
            exec'[q][n] = Seen(exec[q][n]) /\ exec'[q][n].pc = exec[q][n].pc
  BY ExecSeen
<1>2. TypeOK'
  BY <1>1, StateTypes DEF TypeOK
<1>3. \A q \in Runs : RunSound(run'[q], job'[q], exec'[q])
  <2>1. ASSUME NEW q \in Runs PROVE RunSound(run'[q], job'[q], exec'[q])
    <3>1. RunSound(run[q], job[q], exec[q])
      BY DEF IInv
    <3>2. \A n \in Attempts : exec'[q][n].pc = exec[q][n].pc
      BY <1>1
    <3>3. /\ SameJob(job[q], job'[q])
          /\ run'[q] = run[q] \/ (/\ run[q].status \in {"pending", "running"}
                                 /\ run'[q].status = "cancelled")
      OBVIOUS
    <3>4. QED BY <3>1, <3>2, <3>3 DEF RunSound, SameJob
  <2>2. QED BY <2>1
<1>4. Named(sess', run')
  <2>1. ASSUME NEW q \in {sess.op, sess.brief, sess.text} \ {0}
        PROVE  run'[q].status # "none"
    <3>1. q \in Runs
      BY <2>1, StateTypes, DiscoveryAssumption DEF Session, RunOrNone, Runs
    <3>2. QED BY <2>1, <3>1 DEF IInv, Named
  <2>2. QED BY <2>1 DEF Named
<1>5. NewSession(sess', job')
  BY DEF NewSession
<1>6. Awaiting(sess', run')
  BY DEF Awaiting
<1>7. Reviewed(sess', run')
  <2>1. s2.text # 0 => s2.text \in Runs
    BY DiscoveryAssumption DEF Session, RunOrNone, Runs
  <2>2. QED BY <2>1 DEF Reviewed, Given
<1>8. \A q \in Runs, n \in Attempts : ReadSound(sess', run'[q], q, exec'[q][n])
  BY <1>1, StateTypes, SeenReadSound
<1>9. ASSUME ~ faulty PROVE Calm(sess', run', job', exec')
  <2>1. ASSUME NEW q \in Runs PROVE CalmJob(s2, run', q, job'[q])
    BY <1>9, AtWork DEF CalmJob, SameJob
  <2>2. ASSUME NEW q \in Runs, NEW n \in Attempts
        PROVE  CalmExec(s2, run', q, n, job'[q], exec'[q][n])
    <3>1. ~ (Has(job'[q], n) /\ Engaged(n, exec[q][n]))
      <4>1. Has(job'[q], n) => Has(job[q], n)
        BY DEF SameJob, Has
      <4>2. QED BY <1>9, <4>1, AtWork DEF Has
    <3>2. CalmExec(sess, run, q, n, job[q], exec[q][n]) /\ exec[q][n] \in Exec
      BY <1>9, AtWork, StateTypes
    <3>3. SameJob(job[q], job'[q]) /\ ~ Awaits(s2, q)
      OBVIOUS
    <3>4. QED BY <1>1, <3>1, <3>2, <3>3, CalmSeen
  <2>3. QED BY <2>1, <2>2 DEF Calm
<1>10. ResetSound(sess', reset')
  BY DEF IInv, ResetSound
<1>11. QED BY <1>2, <1>3, <1>4, <1>5, <1>6, <1>7, <1>8, <1>9, <1>10 DEF IInv

\* The runs an operation may retry, and the nonces of the keys.
LEMMA SessionFields ==
    ASSUME IInv
    PROVE  /\ sess.op \in RunOrNone /\ sess.brief \in RunOrNone /\ sess.text \in RunOrNone
           /\ sess.memory \in RunOrNone /\ sess.attempt \in 0 .. MaxAttempts
           /\ sess.request \in Edits /\ sess.intake \in Edits /\ sess.answers \in Edits
           /\ sess.active \in BOOLEAN /\ sess.status \in DiscoveryStatus
  BY StateTypes DEF Session

LEMMA NoncesTyped ==
    ASSUME IInv PROVE StartNonce \in Nonce /\ AnswersNonce \in Nonce
<1>1. Count(0) \in Nonce /\ Count(sess.attempt + 1) \in Nonce /\ Count(sess.attempt) \in Nonce
  BY SessionFields, NonceTyped, ConstFacts
<1>2. RetryOf(sess.op) \in Nonce /\ RetryOf(sess.brief) \in Nonce
  BY SessionFields, NonceTyped
<1>3. StartNonce \in Nonce
  BY <1>1, <1>2 DEF StartNonce
<1>4. AnswersNonce \in Nonce
  BY <1>1, <1>2 DEF AnswersNonce
<1>5. QED BY <1>3, <1>4

LEMMA StartKeeps ==
    ASSUME IInv, NEW r \in Runs, Start(r) PROVE IInv'
<1>1. PICK i \in Edits \ {0} :
        LET s == [ApplyStart(sess, r) EXCEPT !.intake = i]
        IN  Launch(r, KeyOf(s, Questions, 0, StartNonce), s)
  BY DEF Start
<1> DEFINE s == [ApplyStart(sess, r) EXCEPT !.intake = i]
<1> DEFINE key == KeyOf(s, Questions, 0, StartNonce)
<1>2. /\ s \in Session /\ s.status = "questions_queued" /\ s.op = r /\ s.brief = sess.brief
      /\ s.text = sess.text /\ s.active = sess.active
  <2>1. r \in RunOrNone /\ i \in Edits /\ 0 \in 0 .. MaxAttempts
    BY ConstFacts
  <2>2. "questions_queued" \in DiscoveryStatus
    BY DEF DiscoveryStatus
  <2>3. QED BY <2>1, <2>2, StateTypes DEF ApplyStart, Session
<1>3. Launch(r, key, s)
  BY <1>1
<1> HIDE DEF s
<1>4. key \in Key /\ key.operation = Questions
  BY <1>2, NoncesTyped, KeyTyped, KeyFields, ConstFacts
<1> HIDE DEF key
<1>5. r # 0
  BY ConstFacts
<1>6. \A q \in Runs : Awaits(sess, q) => job[q].status \in {"failed", "cancelled"}
  BY RecoveredFacts DEF Start
<1>7. QED BY <1>2, <1>3, <1>4, <1>5, <1>6, LaunchKeeps

LEMMA AnswerableFacts ==
    ASSUME IInv, Answerable
    PROVE  /\ \A q \in Runs : Awaits(sess, q) => job[q].status \in {"failed", "cancelled"}
           /\ sess.op # 0 /\ sess.status # "brief_running"
<1>1. Recovered \notin {"questions_queued", "questions_running", "brief_running"}
  BY DEF Answerable
<1>2. sess.status \notin {"not_started", "brief_running"}
  BY DEF Answerable, Recovered, InQuestions
<1>3. QED BY <1>1, <1>2, RecoveredFacts DEF IInv, NewSession

LEMMA CompleteAnswersKeeps ==
    ASSUME IInv, NEW r \in Runs, CompleteAnswers(r) PROVE IInv'
<1> DEFINE request == IF Recovered = "needs_attention" /\ sess.text # 0
                      THEN sess.request ELSE 0
<1>1. PICK a \in Edits :
        LET s == [ApplyBriefRunning(sess, r) EXCEPT !.answers = a, !.attempt = 0]
        IN  Launch(r, KeyOf(s, Brief, request, AnswersNonce), s)
  BY DEF CompleteAnswers
<1> DEFINE s == [ApplyBriefRunning(sess, r) EXCEPT !.answers = a, !.attempt = 0]
<1> DEFINE key == KeyOf(s, Brief, request, AnswersNonce)
<1>2. /\ s \in Session /\ s.status = "brief_running" /\ s.brief = r /\ s.op = sess.op
      /\ s.text = sess.text /\ s.active = sess.active
  <2>1. r \in RunOrNone /\ 0 \in 0 .. MaxAttempts
    BY ConstFacts
  <2>2. "brief_running" \in DiscoveryStatus
    BY DEF DiscoveryStatus
  <2>3. QED BY <2>1, <2>2, StateTypes DEF ApplyBriefRunning, Session
<1>3. Launch(r, key, s)
  BY <1>1
<1>4. request \in Edits
  BY SessionFields, ConstFacts
<1> HIDE DEF s, request
<1>5. key \in Key /\ key.operation = Brief /\ key.intake = s.intake /\ key.answers = s.answers
  BY <1>2, <1>4, NoncesTyped, KeyTyped, KeyFields
<1> HIDE DEF key
<1>6. QED BY <1>2, <1>3, <1>5, AnswerableFacts, LaunchKeeps DEF CompleteAnswers

LEMMA ReviseKeeps ==
    ASSUME IInv, NEW r \in Runs, Revise(r) PROVE IInv'
<1>1. PICK q \in Edits \ {0} :
        Launch(r, ReviseKey(q), [ApplyBriefRunning(sess, r) EXCEPT !.request = q, !.attempt = 0])
  BY DEF Revise
<1> DEFINE s == [ApplyBriefRunning(sess, r) EXCEPT !.request = q, !.attempt = 0]
<1> DEFINE key == ReviseKey(q)
<1>2. /\ s \in Session /\ s.status = "brief_running" /\ s.brief = r /\ s.op = sess.op
      /\ s.text = sess.text /\ s.intake = sess.intake /\ s.answers = sess.answers
      /\ s.active = sess.active
  <2>1. r \in RunOrNone /\ 0 \in 0 .. MaxAttempts /\ q \in Edits
    BY ConstFacts
  <2>2. "brief_running" \in DiscoveryStatus
    BY DEF DiscoveryStatus
  <2>3. QED BY <2>1, <2>2, StateTypes DEF ApplyBriefRunning, Session
<1>3. Launch(r, key, s)
  BY <1>1
<1> HIDE DEF s
<1>4. key \in Key /\ key.operation = Brief /\ key.intake = sess.intake
      /\ key.answers = sess.answers
  <2>1. Count(sess.attempt) \in Nonce
    BY SessionFields, NonceTyped
  <2>2. QED BY <2>1, StateTypes, KeyTyped, KeyFields DEF ReviseKey
<1> HIDE DEF key
<1>5. sess.op # 0 /\ \A p \in Runs : ~ Awaits(sess, p)
  BY DEF Revise, IInv, NewSession, Awaits, Asking
<1>6. QED BY <1>2, <1>3, <1>4, <1>5, LaunchKeeps

LEMMA SaveAnswersKeeps ==
    ASSUME IInv, SaveAnswers PROVE IInv'
<1>1. PICK a \in Edits : Save([sess EXCEPT !.status = "answers_in_progress", !.answers = a])
  BY DEF SaveAnswers
<1> DEFINE s == [sess EXCEPT !.status = "answers_in_progress", !.answers = a]
<1>2. /\ s \in Session /\ s.status = "answers_in_progress" /\ s.brief = sess.brief
      /\ s.op = sess.op /\ s.text = sess.text /\ s.active = sess.active
  BY StateTypes DEF Session, DiscoveryStatus
<1>3. sess' = s /\ exec' = Moved(exec) /\ UNCHANGED <<run, job, reset, events, faulty>>
  BY <1>1 DEF Save
<1> HIDE DEF s
<1>4. \A q \in Runs : ~ Awaits(s, q)
  BY <1>2 DEF Awaits, Asking
<1>5. Reviewed(s, run)
  BY <1>2 DEF Reviewed
<1>6. run' \in [Runs -> Run] /\ job' \in [Runs -> Job] /\ run' = run /\ job' = job
  BY <1>3, StateTypes
<1>7. QED BY <1>2, <1>3, <1>4, <1>5, <1>6, AnswerableFacts, SessionKeeps DEF SaveAnswers, SameJob

LEMMA ApproveKeeps ==
    ASSUME IInv, Approve PROVE IInv'
<1> DEFINE s == ApplyApproval(sess)
<1>1. /\ s \in Session /\ s.status = "approved" /\ s.brief = sess.brief
      /\ s.op = sess.op /\ s.text = sess.text /\ s.intake = sess.intake
      /\ s.answers = sess.answers /\ s.active = sess.active
  BY StateTypes DEF Session, DiscoveryStatus, ApplyApproval
<1>2. sess' = s /\ exec' = Moved(exec) /\ UNCHANGED <<run, job, reset, events, faulty>>
      /\ sess.status = "brief_review"
  BY DEF Approve, Save
<1> HIDE DEF s
<1>3. \A q \in Runs : ~ Awaits(s, q) /\ ~ Awaits(sess, q)
  BY <1>1, <1>2 DEF Awaits, Asking
<1>4. Reviewed(s, run)
  BY <1>1, <1>2 DEF IInv, Reviewed, Given
<1>5. run' \in [Runs -> Run] /\ job' \in [Runs -> Job] /\ run' = run /\ job' = job
  BY <1>2, StateTypes
<1>6. s.op # 0
  BY <1>1, <1>2 DEF IInv, NewSession
<1>7. QED BY <1>1, <1>2, <1>3, <1>4, <1>5, <1>6, SessionKeeps DEF SameJob

LEMMA StopKeeps ==
    ASSUME IInv, Stop PROVE IInv'
<1> DEFINE s == [sess EXCEPT !.status = "needs_attention"]
<1> DEFINE r == Awaited
<1>1. /\ s \in Session /\ s.status = "needs_attention" /\ s.brief = sess.brief
      /\ s.op = sess.op /\ s.text = sess.text /\ s.active = sess.active
  BY StateTypes DEF Session, DiscoveryStatus
<1>2. /\ sess' = s /\ exec' = Moved(exec) /\ UNCHANGED <<reset, events, faulty>>
      /\ job' = [job EXCEPT ![r] = CancelledJob(@)]
      /\ run' = [run EXCEPT ![r] = CancelledRun(@)]
  BY DEF Stop
<1>3. r \in Runs /\ \A q \in Runs : Awaits(sess, q) <=> q = r
  BY AwaitsFacts DEF Stop
<1> HIDE DEF s, r
<1>4. /\ CancelledJob(job[r]) \in Job /\ CancelledRun(run[r]) \in Run
      /\ SameJob(job[r], CancelledJob(job[r]))
      /\ CancelledJob(job[r]).status \notin {"queued", "running"}
      /\ CancelledRun(run[r]).key = run[r].key
      /\ \/ CancelledRun(run[r]) = run[r]
         \/ /\ run[r].status \in {"pending", "running"}
            /\ CancelledRun(run[r]).status = "cancelled"
  BY <1>3, StateTypes DEF CancelledJob, CancelledRun, Job, Run, SameJob
<1>5. /\ run' \in [Runs -> Run] /\ job' \in [Runs -> Job]
      /\ run'[r] = CancelledRun(run[r]) /\ job'[r] = CancelledJob(job[r])
      /\ \A q \in Runs : q # r => run'[q] = run[q] /\ job'[q] = job[q]
  BY <1>2, <1>3, <1>4, StateTypes
<1>6. \A q \in Runs : ~ Awaits(s, q)
  BY <1>1 DEF Awaits, Asking
<1>7. Reviewed(s, run)
  BY <1>1 DEF Reviewed
<1>8. s.op # 0
  BY <1>1 DEF IInv, NewSession, Stop, Waiting, InQuestions
<1>9. \A q \in Runs : /\ run'[q].key = run[q].key /\ SameJob(job[q], job'[q])
                      /\ run'[q] = run[q] \/ (/\ run[q].status \in {"pending", "running"}
                                              /\ run'[q].status = "cancelled")
  <2>1. ASSUME NEW q \in Runs, q = r
        PROVE  /\ run'[q].key = run[q].key /\ SameJob(job[q], job'[q])
               /\ run'[q] = run[q] \/ (/\ run[q].status \in {"pending", "running"}
                                       /\ run'[q].status = "cancelled")
    BY <1>4, <1>5, <2>1
  <2>2. ASSUME NEW q \in Runs, q # r
        PROVE  run'[q] = run[q] /\ SameJob(job[q], job'[q])
    BY <1>5, <2>2 DEF SameJob
  <2>3. QED BY <2>1, <2>2
<1>10. \A q \in Runs : Awaits(sess, q) => job'[q].status \notin {"queued", "running"}
  BY <1>3, <1>4, <1>5
<1>11. QED BY <1>1, <1>2, <1>5, <1>6, <1>7, <1>8, <1>9, <1>10, SessionKeeps

-----------------------------------------------------------------------------
(* The reset.                                                              *)

LEMMA FenceKeeps ==
    ASSUME IInv, ResetFence PROVE IInv'
<1> DEFINE s == [sess EXCEPT !.active = FALSE]
<1> DEFINE jo == [r \in Runs |-> IF job[r].status = "queued"
                                THEN [job[r] EXCEPT !.status = "failed"] ELSE job[r]]
<1>1. /\ sess' = s /\ exec' = Moved(exec) /\ job' = jo /\ UNCHANGED <<run, events, faulty>>
  BY DEF ResetFence
<1>2. /\ s \in Session /\ ~ s.active /\ s.status = sess.status /\ s.op = sess.op
      /\ s.brief = sess.brief /\ s.text = sess.text /\ s.intake = sess.intake
      /\ s.answers = sess.answers /\ s = [sess EXCEPT !.active = s.active]
  BY StateTypes DEF Session
<1>3. ASSUME NEW q \in Runs
      PROVE  jo[q] \in Job /\ SameJob(job[q], jo[q]) /\ jo[q].status # "queued"
  BY StateTypes DEF Job, SameJob
<1>4. jo \in [Runs -> Job]
  BY <1>3
<1> HIDE DEF s, jo
<1>5. /\ exec' \in [Runs -> [Attempts -> Exec]]
      /\ \A q \in Runs, n \in Attempts :
            exec'[q][n] = Seen(exec[q][n]) /\ exec'[q][n].pc = exec[q][n].pc
  BY <1>1, ExecSeen
<1>6. \A q \in Runs : Awaits(s, q) <=> Awaits(sess, q)
  BY <1>2 DEF Awaits
<1>7. TypeOK'
  <2>1. reset' \in {"none", "empty", "used"}
    BY DEF ResetFence
  <2>2. QED BY <1>1, <1>2, <1>4, <1>5, <2>1, StateTypes DEF TypeOK
<1>8. \A q \in Runs : RunSound(run'[q], job'[q], exec'[q])
  <2>1. ASSUME NEW q \in Runs PROVE RunSound(run'[q], job'[q], exec'[q])
    <3>1. RunSound(run[q], job[q], exec[q]) /\ run'[q] = run[q] /\ SameJob(job[q], job'[q])
      BY <1>1, <1>3 DEF IInv
    <3>2. \A n \in Attempts : exec'[q][n].pc = exec[q][n].pc
      BY <1>5
    <3>3. QED BY <3>1, <3>2 DEF RunSound, SameJob
  <2>2. QED BY <2>1
<1>9. Named(sess', run')
  BY <1>1, <1>2 DEF IInv, Named
<1>10. NewSession(sess', job')
  <2>1. ASSUME s.status = "not_started" PROVE s = [EmptyState EXCEPT !.active = s.active]
    <3>1. sess = [EmptyState EXCEPT !.active = sess.active]
      BY <1>2, <2>1 DEF IInv, NewSession
    <3>2. QED BY <3>1, <1>2 DEF EmptyState
  <2>2. ASSUME s.status = "not_started", NEW q \in Runs PROVE job'[q].status = "absent"
    BY <1>1, <1>2, <1>3, <2>2 DEF IInv, NewSession, SameJob
  <2>3. QED BY <1>1, <1>2, <2>1, <2>2 DEF IInv, NewSession
<1>11. Awaiting(sess', run')
  BY <1>1, <1>2, <1>6 DEF IInv, Awaiting, Given
<1>12. Reviewed(sess', run')
  BY <1>1, <1>2 DEF IInv, Reviewed, Given
<1>13. \A q \in Runs, n \in Attempts : ReadSound(sess', run'[q], q, exec'[q][n])
  BY <1>5, StateTypes, SeenReadSound
<1>14. ASSUME ~ faulty PROVE Calm(sess', run', job', exec')
  <2>1. ASSUME NEW q \in Runs PROVE CalmJob(s, run', q, job'[q])
    BY <1>1, <1>2, <1>3 DEF CalmJob
  <2>2. ASSUME NEW q \in Runs, NEW n \in Attempts
        PROVE  CalmExec(s, run', q, n, job'[q], exec'[q][n])
    <3> DEFINE x == exec[q][n]
    <3>1. CalmExec(sess, run, q, n, job[q], x) /\ x \in Exec
      BY <1>14, AtWork, StateTypes
    <3>2. SameJob(job[q], job'[q]) /\ (Has(job'[q], n) => Has(job[q], n))
      BY <1>1, <1>3 DEF SameJob, Has
    <3>3. exec'[q][n] = Seen(x)
      BY <1>5
    <3> HIDE DEF x
    <3>4. /\ Seen(x).pc = x.pc /\ Seen(x).out = x.out /\ (x.pc \in Reading => Seen(x).stale)
      BY <3>1, SeenFacts
    <3>5. Engaged(n, Seen(x)) <=> Engaged(n, x)
      BY <3>4 DEF Engaged
    <3>6. x.pc # "none" => job'[q].status = "absent"
                           \/ (job'[q].status # "queued" /\ job'[q].attempt = n)
      BY <1>1, <1>3, <3>1, <3>2 DEF CalmExec, SameJob
    <3>7. x.pc = "record" => Seen(x).stale
      BY <3>4 DEF Reading
    <3>8. Awaits(s, q) <=> Awaits(sess, q)
      BY <1>6
    <3>9. CalmExec(s, run', q, n, job'[q], Seen(x))
      BY <1>2, <3>1, <3>2, <3>4, <3>5, <3>6, <3>7, <3>8 DEF CalmExec
    <3>10. QED BY <3>3, <3>9
  <2>3. QED BY <1>1, <2>1, <2>2 DEF Calm
<1>15. ResetSound(sess', reset')
  <2>1. reset' = "empty" => sess.status = "not_started"
    BY DEF ResetFence
  <2>2. sess.status = "not_started" => sess.text = 0
    BY DEF IInv, NewSession, EmptyState
  <2>3. QED BY <1>1, <1>2, <2>1, <2>2 DEF ResetSound
<1>16. QED BY <1>1, <1>7, <1>8, <1>9, <1>10, <1>11, <1>12, <1>13, <1>14, <1>15 DEF IInv

LEMMA PurgeKeeps ==
    ASSUME IInv, Purge PROVE IInv'
<1> DEFINE gone == [status |-> "purged", key |-> NoKey]
<1> DEFINE absent == [status |-> "absent", attempt |-> 0]
<1> DEFINE s == IF reset = "empty" THEN [sess EXCEPT !.active = TRUE] ELSE EmptyState
<1>1. /\ sess' = s /\ exec' = Moved(exec) /\ UNCHANGED <<events, faulty>>
      /\ run' = [r \in Runs |-> IF run[r].status = "none" THEN run[r] ELSE gone]
      /\ job' = [r \in Runs |-> absent]
      /\ reset' = "none"
  BY DEF Purge
<1>2. /\ s \in Session
      /\ s.status = "not_started" => s = [EmptyState EXCEPT !.active = s.active]
      /\ s.op \in {0, sess.op} /\ s.brief \in {0, sess.brief} /\ s.text = 0
      /\ s.status = "not_started" \/ (s.status = sess.status /\ s.op = sess.op
                                       /\ s.brief = sess.brief /\ sess.text = 0)
  <2>1. /\ EmptyState \in Session /\ EmptyState.status = "not_started" /\ EmptyState.op = 0
        /\ EmptyState.brief = 0 /\ EmptyState.text = 0
        /\ EmptyState = [EmptyState EXCEPT !.active = EmptyState.active]
    BY ConstFacts DEF EmptyState, Session, DiscoveryStatus
  <2>2. CASE reset = "empty"
    <3> DEFINE u == [sess EXCEPT !.active = TRUE]
    <3>1. /\ u \in Session /\ u.status = sess.status /\ u.op = sess.op
          /\ u.brief = sess.brief /\ u.text = sess.text /\ u.active = TRUE
      BY StateTypes DEF Session
    <3>2. sess.text = 0
      BY <2>2 DEF IInv, ResetSound
    <3>3. ASSUME sess.status = "not_started" PROVE u = [EmptyState EXCEPT !.active = u.active]
      <4>1. sess = [EmptyState EXCEPT !.active = sess.active]
        BY <3>3 DEF IInv, NewSession
      <4>2. QED BY <4>1 DEF EmptyState
    <3>4. s = u
      BY <2>2
    <3> HIDE DEF u
    <3>5. QED BY <3>1, <3>2, <3>3, <3>4
  <2>3. CASE reset # "empty"
    BY <2>1, <2>3
  <2>4. QED BY <2>2, <2>3
<1> HIDE DEF s
<1>3. gone \in Run /\ gone.status = "purged" /\ absent \in Job /\ absent.status = "absent"
  <2>1. NoKey \in Key
    BY ConstFacts, NonceTyped, DiscoveryAssumption DEF NoKey, Key
  <2>2. QED BY <2>1, ConstFacts DEF Run, Job
<1> HIDE DEF gone, absent
<1>4. /\ run' \in [Runs -> Run] /\ job' \in [Runs -> Job]
      /\ \A q \in Runs : /\ job'[q] = absent
                         /\ run'[q] = IF run[q].status = "none" THEN run[q] ELSE gone
  BY <1>1, <1>3, StateTypes
<1>5. /\ exec' \in [Runs -> [Attempts -> Exec]]
      /\ \A q \in Runs, n \in Attempts :
            exec'[q][n] = Seen(exec[q][n]) /\ exec'[q][n].pc = exec[q][n].pc
  BY <1>1, ExecSeen
<1>6. TypeOK'
  BY <1>1, <1>2, <1>4, <1>5, StateTypes DEF TypeOK
<1>7. \A q \in Runs : RunSound(run'[q], job'[q], exec'[q])
  <2>1. ASSUME NEW q \in Runs PROVE RunSound(run'[q], job'[q], exec'[q])
    <3>1. RunSound(run[q], job[q], exec[q])
      BY DEF IInv
    <3>2. \A n \in Attempts : exec'[q][n].pc = exec[q][n].pc
      BY <1>5
    <3>3. QED BY <1>3, <1>4, <3>1, <3>2 DEF RunSound
  <2>2. QED BY <2>1
<1>8. \A q \in Runs : Awaits(s, q) => run'[q].status = "purged"
  <2>1. ASSUME NEW q \in Runs, Awaits(s, q) PROVE run'[q].status = "purged"
    <3>1. Awaits(sess, q)
      BY <1>2, <2>1 DEF Awaits, Asking
    <3>2. run[q].status # "none"
      BY <3>1 DEF IInv, Awaiting
    <3>3. QED BY <1>3, <1>4, <3>2
  <2>2. QED BY <2>1
<1>9. Named(sess', run') /\ NewSession(sess', job') /\ Awaiting(sess', run')
      /\ Reviewed(sess', run') /\ ResetSound(sess', reset')
  <2>1. Named(s, run')
    <3>1. ASSUME NEW q \in {s.op, s.brief, s.text} \ {0} PROVE run'[q].status # "none"
      <4>1. q \in {sess.op, sess.brief, sess.text} \ {0}
        BY <1>2, <3>1
      <4>2. q \in Runs
        BY <4>1, StateTypes, DiscoveryAssumption, SMTT(20) DEF Session, RunOrNone, Runs
      <4>3. run[q].status # "none"
        BY <4>1 DEF IInv, Named
      <4>4. QED BY <1>3, <1>4, <4>2, <4>3
    <3>2. QED BY <3>1 DEF Named
  <2>2. NewSession(s, job')
    BY <1>2, <1>3, <1>4 DEF IInv, NewSession
  <2>3. Awaiting(s, run')
    BY <1>8 DEF Awaiting
  <2>4. Reviewed(s, run')
    BY <1>2 DEF IInv, Reviewed
  <2>5. ResetSound(s, reset')
    BY <1>1 DEF ResetSound
  <2>6. QED BY <1>1, <2>1, <2>2, <2>3, <2>4, <2>5
<1>10. \A q \in Runs, n \in Attempts : ReadSound(sess', run'[q], q, exec'[q][n])
  BY <1>5, StateTypes, SeenReadSound
<1>11. Calm(sess', run', job', exec')
  <2>1. ASSUME NEW q \in Runs PROVE CalmJob(sess', run', q, job'[q])
    BY <1>1, <1>3, <1>4, <1>8 DEF CalmJob
  <2>2. ASSUME NEW q \in Runs, NEW n \in Attempts
        PROVE  CalmExec(sess', run', q, n, job'[q], exec'[q][n])
    <3>1. ~ Has(job'[q], n) /\ job'[q].status = "absent"
      BY <1>3, <1>4 DEF Has
    <3>2. exec[q][n].pc = "record" => Seen(exec[q][n]).stale
      BY StateTypes, SeenFacts DEF Reading
    <3>3. exec'[q][n].pc = "record" => exec'[q][n].stale
      BY <1>5, <3>2
    <3>4. QED BY <3>1, <3>3 DEF CalmExec
  <2>3. QED BY <2>1, <2>2 DEF Calm
<1>12. QED BY <1>6, <1>7, <1>9, <1>10, <1>11 DEF IInv

-----------------------------------------------------------------------------
(* Steps of one execution that leave the session, the runs and the jobs.   *)

LEMMA ResetFailsKeeps == IInv /\ ResetFails => IInv'
<1>1. SUFFICES ASSUME IInv, ResetFails PROVE IInv'
  OBVIOUS
<1>2. UNCHANGED <<sess, run, job, exec, events, faulty>> /\ reset' = "none"
  BY <1>1 DEF ResetFails
<1>3. TypeOK' /\ ResetSound(sess', reset')
  BY <1>1, <1>2 DEF IInv, TypeOK, ResetSound
<1>4. QED BY <1>1, <1>2, <1>3 DEF IInv, Calm

LEMMA ExecKeeps ==
    ASSUME IInv, NEW r \in Runs, NEW n \in Attempts, exec[r][n].pc # "none",
           NEW y \in Exec, exec' = Put(exec, r, n, y), UNCHANGED <<sess, run, job, reset>>,
           events' \in 0 .. MaxEvents, faulty' \in BOOLEAN, ~ faulty' => ~ faulty,
           ReadSound(sess, run[r], r, y),
           ~ faulty' => CalmExec(sess, run, r, n, job[r], y)
    PROVE  IInv'
<1>1. /\ exec' \in [Runs -> [Attempts -> Exec]] /\ exec'[r][n] = y
      /\ \A q \in Runs, m \in Attempts : q # r \/ m # n => exec'[q][m] = exec[q][m]
  BY StateTypes, PutFacts, SMTT(20) DEF Execs
<1>2. TypeOK'
  BY <1>1, StateTypes DEF TypeOK
<1>3. \A q \in Runs : RunSound(run'[q], job'[q], exec'[q])
  <2>1. ASSUME NEW q \in Runs PROVE RunSound(run'[q], job'[q], exec'[q])
    <3>1. RunSound(run[q], job[q], exec[q])
      BY DEF IInv
    <3>2. run[q].status = "none" => \A m \in Attempts : exec'[q][m].pc = exec[q][m].pc
      BY <1>1, <3>1 DEF RunSound
    <3>3. QED BY <3>1, <3>2 DEF RunSound
  <2>2. QED BY <2>1
<1>4. \A q \in Runs, m \in Attempts : ReadSound(sess', run'[q], q, exec'[q][m])
  BY <1>1 DEF IInv
<1>5. ASSUME ~ faulty' PROVE Calm(sess', run', job', exec')
  <2>1. \A q \in Runs : CalmJob(sess, run, q, job[q])
    BY <1>5, AtWork
  <2>2. ASSUME NEW q \in Runs, NEW m \in Attempts
        PROVE  CalmExec(sess, run, q, m, job[q], exec'[q][m])
    BY <1>1, <1>5, AtWork
  <2>3. QED BY <2>1, <2>2 DEF Calm
<1>6. ResetSound(sess', reset')
  BY DEF IInv
<1>7. QED BY <1>2, <1>3, <1>4, <1>5, <1>6 DEF IInv

LEMMA EndedFacts ==
    ASSUME NEW x \in Exec, NEW out \in {"succeeded", "cancelled", "permanent"}
    PROVE  /\ Ended(x, out) \in Exec /\ Ended(x, out).pc = "settle" /\ Ended(x, out).out = out
           /\ ~ Ended(x, out).stale
  BY DEF Ended, Exec

LEMMA HoldsHas == \A r, n : Holds(r, n) <=> Has(job[r], n)
  BY DEF Holds, Has

\* An execution that gives up.
LEMMA ReturnKeeps ==
    ASSUME IInv, NEW r \in Runs, NEW n \in Attempts, exec[r][n].pc # "none",
           NEW out \in {"cancelled", "permanent"}, Returns(r, n, out), Quiet,
           ~ faulty => /\ out = "cancelled" => ~ Has(job[r], n)
                       /\ Has(job[r], n) /\ sess.active => FollowUpTaken(sess, run)
    PROVE  IInv'
<1> DEFINE x == exec[r][n]
<1> DEFINE y == Ended(x, out)
<1>1. y \in Exec /\ y.pc = "settle" /\ y.out = out /\ ~ y.stale
  BY StateTypes, EndedFacts
<1>2. exec' = Put(exec, r, n, y)
  BY StateTypes DEF Returns, Put
<1> HIDE DEF y
<1>3. ReadSound(sess, run[r], r, y)
  BY <1>1 DEF ReadSound, Reading
<1>4. ASSUME ~ faulty PROVE CalmExec(sess, run, r, n, job[r], y)
  <2>1. CalmExec(sess, run, r, n, job[r], x)
    BY <1>4, AtWork
  <2>2. ~ Engaged(n, y)
    BY <1>1 DEF Engaged
  <2>3. QED BY <1>1, <1>4, <2>1, <2>2 DEF CalmExec, Reading
<1>5. /\ UNCHANGED <<sess, run, job, reset>> /\ events' \in 0 .. MaxEvents
      /\ faulty' = faulty /\ faulty' \in BOOLEAN
  BY StateTypes DEF Quiet
<1>6. QED BY <1>1, <1>2, <1>3, <1>4, <1>5, ExecKeeps

\* The beginning of a transaction of the handler.
LEMMA EntersKeeps ==
    ASSUME IInv, NEW r \in Runs, NEW n \in Attempts, exec[r][n].pc \in {"open", "call"},
           NEW pc \in {"start", "commit"}, Enters(r, n, pc), Quiet
    PROVE  IInv'
<1> DEFINE x == exec[r][n]
<1>1. x.pc # "none" /\ Engaged(n, x) /\ x \in Exec
  BY StateTypes DEF Engaged
<1>2. CASE CancelledOrGone(r) /\ Returns(r, n, "cancelled")
  BY <1>1, <1>2, ReturnKeeps DEF CancelledOrGone, Has
<1>3. CASE ~ CancelledOrGone(r) /\ ~ Fence(r, n) /\ Returns(r, n, "permanent")
  BY <1>1, <1>3, HoldsHas, ReturnKeeps DEF Fence
<1>4. CASE ~ CancelledOrGone(r) /\ Fence(r, n) /\ ~ Owns(r) /\ Returns(r, n, "cancelled")
  <2>1. ~ faulty => ~ Has(job[r], n)
    BY <1>1, <1>4, AtWork, AwaitsFacts DEF CancelledOrGone
  <2>2. QED BY <1>1, <1>4, <2>1, ReturnKeeps
<1>5. CASE ~ CancelledOrGone(r) /\ Fence(r, n) /\ Owns(r) /\ Goes(r, n, pc)
  <2> DEFINE y == [x EXCEPT !.pc = pc, !.stale = FALSE]
  <2>1. y \in Exec /\ y.pc = pc /\ ~ y.stale
    BY <1>1 DEF Exec
  <2>2. exec' = Put(exec, r, n, y)
    BY <1>5, StateTypes DEF Goes, Put
  <2> HIDE DEF y
  <2>3. Awaits(sess, r)
    BY <1>5, AwaitsFacts DEF CancelledOrGone
  <2>4. ReadSound(sess, run[r], r, y)
    <3>1. sess.active /\ run[r].status # "purged"
      BY <1>5 DEF CancelledOrGone, Fence, IInv, RunSound
    <3>2. QED BY <2>1, <2>3, <3>1 DEF ReadSound
  <2>5. ASSUME ~ faulty PROVE CalmExec(sess, run, r, n, job[r], y)
    <3>1. CalmExec(sess, run, r, n, job[r], x)
      BY <2>5, AtWork
    <3>2. QED BY <1>1, <2>1, <2>3, <3>1 DEF CalmExec
  <2>6. /\ UNCHANGED <<sess, run, job, reset>> /\ events' \in 0 .. MaxEvents
        /\ faulty' = faulty /\ faulty' \in BOOLEAN
    BY StateTypes DEF Quiet
  <2>7. QED BY <1>1, <2>1, <2>2, <2>4, <2>5, <2>6, ExecKeeps
<1>6. QED BY <1>2, <1>3, <1>4, <1>5 DEF Enters

\* A failure, on its way to be recorded.
LEMMA FailsKeeps ==
    ASSUME IInv, NEW r \in Runs, NEW n \in Attempts, exec[r][n].pc # "none",
           NEW out \in {"retryable", "permanent"}, NEW late \in BOOLEAN, Fails(r, n, out, late),
           UNCHANGED <<sess, run, job, reset>>, events' \in 0 .. MaxEvents, faulty' \in BOOLEAN,
           ~ faulty' => ~ faulty /\ exec[r][n].pc # "settle"
    PROVE  IInv'
<1> DEFINE x == exec[r][n]
<1> DEFINE recorded == [pc |-> "record", out |-> out, stale |-> FALSE, late |-> late]
<1> DEFINE out2 == IF late THEN out ELSE "permanent"
<1> DEFINE settled == [pc |-> "settle", out |-> out2, stale |-> FALSE, late |-> late]
<1>1. x \in Exec /\ (~ faulty' => Engaged(n, x))
  BY StateTypes DEF Engaged, Exec
<1>2. out2 \in {"retryable", "permanent"}
  OBVIOUS
<1> HIDE DEF out2
<1>3. /\ recorded \in Exec /\ recorded.pc = "record" /\ ~ recorded.stale
      /\ recorded.out = out
      /\ settled \in Exec /\ settled.pc = "settle" /\ settled.out = out2 /\ ~ settled.stale
  BY <1>2 DEF Exec
<1>4. exec' = Put(exec, r, n, IF Fence(r, n) THEN recorded ELSE settled)
  BY DEF Fails, Put, out2
<1> HIDE DEF recorded, settled
<1>5. ASSUME ~ faulty' PROVE /\ CalmExec(sess, run, r, n, job[r], x)
                             /\ Has(job[r], n) => Awaits(sess, r)
  BY <1>1, <1>5, AtWork
<1>6. CASE Fence(r, n)
  <2>1. Has(job[r], n) /\ sess.status # "not_started"
    BY <1>6, HoldsHas DEF Fence, Has, IInv, NewSession
  <2>2. ReadSound(sess, run[r], r, recorded)
    <3>1. sess.active /\ run[r].status # "purged"
      BY <1>6, <2>1 DEF Fence, Has, IInv, RunSound
    <3>2. QED BY <1>3, <2>1, <3>1 DEF ReadSound
  <2>3. ~ faulty' => CalmExec(sess, run, r, n, job[r], recorded)
    BY <1>3, <1>5, <2>1 DEF CalmExec, Has
  <2>4. QED BY <1>3, <1>4, <1>6, <2>2, <2>3, ExecKeeps
<1>7. CASE ~ Fence(r, n)
  <2>1. ~ (Has(job[r], n) /\ sess.active)
    BY <1>7, HoldsHas DEF Fence
  <2>2. ReadSound(sess, run[r], r, settled)
    BY <1>3 DEF ReadSound, Reading
  <2>3. ~ faulty' => CalmExec(sess, run, r, n, job[r], settled)
    BY <1>2, <1>3, <1>5, <2>1 DEF CalmExec, Reading
  <2>4. QED BY <1>3, <1>4, <1>7, <2>2, <2>3, ExecKeeps
<1>8. QED BY <1>6, <1>7

LEMMA OpenKeeps ==
    ASSUME IInv, NEW r \in Runs, NEW n \in Attempts, Open(r, n) PROVE IInv'
  BY EntersKeeps DEF Open

LEMMA CallKeeps ==
    ASSUME IInv, NEW r \in Runs, NEW n \in Attempts, Call(r, n) PROVE IInv'
<1>1. exec[r][n].pc = "call" /\ Quiet
  BY DEF Call
<1>2. CASE CancelledOrGone(r) /\ Returns(r, n, "cancelled")
  BY <1>1, <1>2, ReturnKeeps DEF CancelledOrGone, Has
<1>3. CASE Enters(r, n, "commit")
  BY <1>1, <1>3, EntersKeeps
<1>4. ASSUME NEW out \in {"retryable", "permanent"}, Fails(r, n, out, FALSE) PROVE IInv'
  <2>1. /\ UNCHANGED <<sess, run, job, reset>> /\ events' \in 0 .. MaxEvents
        /\ faulty' = faulty /\ faulty' \in BOOLEAN
    BY <1>1, StateTypes DEF Quiet
  <2>2. QED BY <1>1, <1>4, <2>1, FailsKeeps
<1>5. QED BY <1>2, <1>3, <1>4 DEF Call

LEMMA ConflictKeeps ==
    ASSUME IInv, NEW r \in Runs, NEW n \in Attempts, Conflict(r, n) PROVE IInv'
<1>1. exec[r][n].pc = "commit" /\ Quiet
  BY DEF Conflict
<1>2. CASE StaleWrite(r, n) /\ Returns(r, n, IF CancelledOrGone(r) THEN "cancelled"
                                             ELSE "permanent")
  <2> DEFINE out == IF CancelledOrGone(r) THEN "cancelled" ELSE "permanent"
  <2>1. out \in {"cancelled", "permanent"} /\ (out = "cancelled" => ~ Has(job[r], n))
    BY DEF CancelledOrGone, Has
  <2>2. ~ faulty => ~ (Has(job[r], n) /\ sess.active)
    BY <1>1, <1>2, AtWork DEF StaleWrite, CalmExec, Reading
  <2>3. Returns(r, n, out)
    BY <1>2
  <2> HIDE DEF out
  <2>4. QED BY <1>1, <2>1, <2>2, <2>3, ReturnKeeps
<1>3. CASE /\ ~ StaleWrite(r, n) /\ OperationOf(r) = Questions
           /\ \E m \in {sess.memory, r} :
                 Taken(KeyOf([sess EXCEPT !.memory = m], Brief, 0, Count(0)))
           /\ Returns(r, n, "permanent")
  <2>1. Awaits(sess, r) /\ run[r].status # "purged"
    BY <1>1, <1>3 DEF StaleWrite, IInv, ReadSound, Reading
  <2>2. sess.status \in Asking /\ sess.op = r
    BY <1>3, <2>1 DEF OperationOf, IInv, Awaiting, Awaits, Questions, Brief
  <2>3. FollowUpTaken(sess, run)
    BY <1>3, <2>2 DEF FollowUpTaken, Taken
  <2>4. QED BY <1>1, <1>3, <2>3, ReturnKeeps
<1>4. QED BY <1>2, <1>3 DEF Conflict

LEMMA EventCounted ==
    ASSUME IInv, Event PROVE events' \in 0 .. MaxEvents
  BY StateTypes, DiscoveryAssumption DEF Event

LEMMA TimeoutKeeps ==
    ASSUME IInv, NEW r \in Runs, NEW n \in Attempts, Timeout(r, n) PROVE IInv'
<1>1. faulty' \in BOOLEAN /\ (~ faulty' => ~ faulty /\ exec[r][n].pc # "settle")
  BY StateTypes DEF Timeout
<1>2. events' \in 0 .. MaxEvents
  BY EventCounted DEF Timeout
<1>3. QED BY <1>1, <1>2, FailsKeeps DEF Timeout

LEMMA CrashKeeps ==
    ASSUME IInv, NEW r \in Runs, NEW n \in Attempts, Crash(r, n) PROVE IInv'
<1>1. /\ exec[r][n].pc # "none" /\ exec' = Put(exec, r, n, NoExec) /\ faulty'
      /\ faulty' \in BOOLEAN /\ events' \in 0 .. MaxEvents /\ UNCHANGED <<sess, run, job, reset>>
  BY EventCounted DEF Crash, Fault, Put
<1>2. ReadSound(sess, run[r], r, NoExec)
  BY NoExecTyped DEF ReadSound, Reading
<1>3. QED BY <1>1, <1>2, NoExecTyped, ExecKeeps

-----------------------------------------------------------------------------
(* The writes of the awaited execution.                                    *)

\* The awaited run has this execution only, and no other run is at work.
LEMMA OthersIdle ==
    ASSUME IInv, ~ faulty, NEW r \in Runs, NEW n \in Attempts, Awaits(sess, r), run[r].status # "purged",
           exec[r][n].pc # "none", NEW q \in Runs, NEW m \in Attempts, q # r \/ m # n
    PROVE  /\ ~ (Has(job[q], m) /\ Engaged(m, exec[q][m]))
           /\ q = r => exec[q][m].pc = "none" /\ ~ Has(job[q], m)
<1>1. CASE q = r
  <2>1. job[r].status # "absent" /\ job[r].attempt = n
    BY AtWork, AwaitsFacts DEF CalmExec
  <2>2. exec[r][m].pc = "none"
    BY <1>1, <2>1, AtWork DEF CalmExec
  <2>3. QED BY <1>1, <2>1, <2>2 DEF Has
<1>2. CASE q # r
  BY <1>2, AtWork, AwaitsFacts
<1>3. QED BY <1>1, <1>2

LEMMA WriteCalm ==
    ASSUME IInv, ~ faulty, NEW r \in Runs, NEW n \in Attempts, Awaits(sess, r), run[r].status # "purged",
           exec[r][n].pc # "none", NEW q \in Runs, NEW m \in Attempts, q # r \/ m # n,
           NEW s2, q # r => ~ Awaits(s2, q), NEW ru2
    PROVE  CalmExec(s2, ru2, q, m, job[q], Seen(exec[q][m]))
<1>1. exec[q][m] \in Exec /\ CalmExec(sess, run, q, m, job[q], exec[q][m])
  BY StateTypes, AtWork
<1>2. CASE q = r
  <2>1. Seen(exec[q][m]).pc = "none" /\ ~ Has(job[q], m)
    BY <1>1, <1>2, OthersIdle, SeenFacts
  <2>2. QED BY <2>1, CalmNone
<1>3. CASE q # r
  <2>1. ~ (Has(job[q], m) /\ Engaged(m, exec[q][m]))
    BY OthersIdle
  <2>2. QED BY <1>1, <1>3, <2>1, CalmSeen DEF SameJob
<1>4. QED BY <1>2, <1>3

\* The executions after such a write.
LEMMA WrittenFacts ==
    ASSUME IInv, NEW r \in Runs, NEW n \in Attempts, NEW y \in Exec,
           exec' = Put(Moved(exec), r, n, y)
    PROVE  /\ exec' \in [Runs -> [Attempts -> Exec]] /\ exec'[r][n] = y
           /\ \A q \in Runs, m \in Attempts :
                 q # r \/ m # n => /\ exec'[q][m] = Seen(exec[q][m])
                                   /\ exec'[q][m].pc = exec[q][m].pc
<1>1. Execs(exec) /\ Execs(Moved(exec))
        /\ \A q \in Runs, m \in Attempts : Moved(exec)[q][m] = Seen(exec[q][m])
  BY StateTypes, MovedFacts DEF Execs
<1>2. /\ Execs(exec') /\ exec'[r][n] = y
      /\ \A q \in Runs, m \in Attempts : q # r \/ m # n => exec'[q][m] = Moved(exec)[q][m]
  BY <1>1, PutFacts
<1>3. \A q \in Runs, m \in Attempts : Seen(exec[q][m]).pc = exec[q][m].pc
  BY StateTypes, SeenFacts
<1>4. QED BY <1>1, <1>2, <1>3 DEF Execs

LEMMA WrittenReads ==
    ASSUME IInv, NEW r \in Runs, NEW n \in Attempts, NEW y \in Exec,
           exec' = Put(Moved(exec), r, n, y), ReadSound(sess', run'[r], r, y)
    PROVE  \A q \in Runs, m \in Attempts : ReadSound(sess', run'[q], q, exec'[q][m])
<1>1. ASSUME NEW q \in Runs, NEW m \in Attempts, q # r \/ m # n
      PROVE  ReadSound(sess', run'[q], q, exec'[q][m])
  <2>1. exec'[q][m] = Seen(exec[q][m]) /\ exec[q][m] \in Exec
    BY <1>1, WrittenFacts, StateTypes
  <2>2. QED BY <2>1, SeenReadSound
<1>2. exec'[r][n] = y
  BY WrittenFacts
<1>3. QED BY <1>1, <1>2

\* A write that leaves each run and each job in or out of the session.
LEMMA WrittenSound ==
    ASSUME IInv, NEW r \in Runs, NEW n \in Attempts, NEW y \in Exec, exec[r][n].pc # "none",
           exec' = Put(Moved(exec), r, n, y), NEW q \in Runs, job'[q] = job[q],
           run'[q] = run[q] \/ (q = r /\ run[q].status \notin {"none", "purged"}
                                      /\ run'[q].status \notin {"none", "purged"})
    PROVE  RunSound(run'[q], job'[q], exec'[q])
<1>1. RunSound(run[q], job[q], exec[q])
  BY DEF IInv
<1>2. run[q].status = "none" => q # r
  BY DEF IInv, RunSound
<1>3. run[q].status = "none" => \A m \in Attempts : exec'[q][m].pc = exec[q][m].pc
  BY <1>2, WrittenFacts
<1>4. QED BY <1>1, <1>3 DEF RunSound

LEMMA FollowUpKept ==
    ASSUME NEW s \in Session, NEW s2 \in Session, NEW ru, NEW ru2, FollowUpTaken(s, ru),
           s2.status \in Asking, s2.op = s.op, s2.memory = s.memory, s2.intake = s.intake,
           s2.answers = s.answers, s2.text = s.text,
           \A q \in Runs : ru2[q].key = ru[q].key
    PROVE  FollowUpTaken(s2, ru2)
<1>1. \A m : KeyOf([s2 EXCEPT !.memory = m], Brief, 0, Count(0))
             = KeyOf([s EXCEPT !.memory = m], Brief, 0, Count(0))
  BY DEF KeyOf, Session
<1>2. QED BY <1>1 DEF FollowUpTaken

LEMMA BeginKeeps ==
    ASSUME IInv, NEW r \in Runs, NEW n \in Attempts, Begin(r, n) PROVE IInv'
<1>1. exec[r][n].pc = "start" /\ UNCHANGED <<job, reset, events, faulty>>
  BY DEF Begin
<1>2. CASE exec[r][n].stale
  <2>1. Returns(r, n, "permanent") /\ Quiet
    BY <1>1, <1>2 DEF Begin, Quiet
  <2>2. ~ faulty => ~ (Has(job[r], n) /\ sess.active)
    BY <1>1, <1>2, AtWork DEF CalmExec, Reading
  <2>3. QED BY <1>1, <2>1, <2>2, ReturnKeeps
<1>3. CASE ~ exec[r][n].stale
  <2> DEFINE s == [RunningState(sess) EXCEPT !.attempt = n]
  <2> DEFINE y == [Moved(exec)[r][n] EXCEPT !.pc = "call", !.stale = FALSE]
  <2>1. Awaits(sess, r) /\ sess.active /\ run[r].status # "purged"
    BY <1>1, <1>3 DEF IInv, ReadSound, Reading
  <2>2. sess' = s /\ exec' = [Moved(exec) EXCEPT ![r][n].pc = "call", ![r][n].stale = FALSE]
        /\ run' = IF run[r].status \in {"succeeded", "cancelled"}
                  THEN run ELSE [run EXCEPT ![r].status = "running"]
    BY <1>3 DEF Begin
  <2>3. /\ s \in Session /\ s.op = sess.op /\ s.brief = sess.brief /\ s.text = sess.text
        /\ s.intake = sess.intake /\ s.answers = sess.answers /\ s.memory = sess.memory
        /\ s.active = sess.active
        /\ s.status = IF sess.status = "questions_queued" THEN "questions_running"
                      ELSE sess.status
    <3>1. n \in 0 .. MaxAttempts /\ "questions_running" \in DiscoveryStatus
      BY ConstFacts DEF DiscoveryStatus
    <3>2. QED BY <3>1, StateTypes DEF RunningState, Session
  <2>4. Moved(exec)[r][n] \in Exec /\ Execs(Moved(exec))
    BY StateTypes, MovedFacts, SeenFacts DEF Execs
  <2>5. y \in Exec /\ y.pc = "call"
    BY <2>4 DEF Exec
  <2>6. exec' = Put(Moved(exec), r, n, y)
    BY <2>2, <2>4 DEF Put, Execs
  <2> HIDE DEF s, y
  <2>7. /\ exec' \in [Runs -> [Attempts -> Exec]] /\ exec'[r][n] = y
        /\ \A q \in Runs, m \in Attempts :
              q # r \/ m # n => /\ exec'[q][m] = Seen(exec[q][m])
                                /\ exec'[q][m].pc = exec[q][m].pc
    BY <2>5, <2>6, WrittenFacts
  <2>8. /\ run' \in [Runs -> Run] /\ \A q \in Runs : run'[q].key = run[q].key
        /\ \A q \in Runs : q # r => run'[q] = run[q]
        /\ run[r].status \in {"pending", "running", "failed", "cancelled"}
        /\ run'[r].status \in {"running", "cancelled"}
    <3>1. run[r].status \in {"pending", "running", "failed", "cancelled"}
      BY <2>1 DEF IInv, Awaiting
    <3>2. CASE run[r].status = "cancelled"
      BY <2>2, <3>1, <3>2, StateTypes
    <3>3. CASE run[r].status # "cancelled"
      <4>1. run' = [run EXCEPT ![r].status = "running"]
        BY <2>2, <3>1, <3>3
      <4>2. run'[r] = [run[r] EXCEPT !.status = "running"]
        BY <4>1, StateTypes
      <4>3. run'[r] \in Run /\ run'[r].status = "running" /\ run'[r].key = run[r].key
        BY <4>2, StateTypes DEF Run
      <4>4. QED BY <3>1, <4>1, <4>3, StateTypes
    <3>4. QED BY <3>2, <3>3
  <2>9. \A q \in Runs : Awaits(s, q) <=> Awaits(sess, q)
    BY <2>3 DEF Awaits, Asking
  <2>10. \A q \in Runs : Awaits(sess, q) <=> q = r
    BY <2>1, AwaitsFacts
  <2>11. TypeOK'
    BY <1>1, <2>2, <2>3, <2>7, <2>8, StateTypes DEF TypeOK
  <2>12. \A q \in Runs : RunSound(run'[q], job'[q], exec'[q])
    BY <1>1, <2>5, <2>6, <2>8, WrittenSound
  <2>13. Named(sess', run')
    <3>1. ASSUME NEW q \in {sess.op, sess.brief, sess.text} \ {0}
          PROVE  run'[q].status # "none"
      <4>1. q \in Runs
        BY <3>1, SessionFields, DiscoveryAssumption DEF RunOrNone, Runs
      <4>2. QED BY <2>8, <3>1, <4>1 DEF IInv, Named
    <3>2. QED BY <2>2, <2>3, <3>1 DEF Named
  <2>14. sess.status \in {"questions_queued", "questions_running", "brief_running"}
    BY <2>1 DEF Awaits, Asking
  <2>15. NewSession(sess', job')
    BY <1>1, <2>2, <2>3, <2>14 DEF IInv, NewSession
  <2>16. Awaiting(sess', run')
    BY <2>1, <2>2, <2>3, <2>8, <2>9, <2>10, <2>14 DEF IInv, Awaiting, Given
  <2>17. Reviewed(sess', run')
    BY <2>2, <2>3, <2>14 DEF Reviewed
  <2>18. \A q \in Runs, m \in Attempts : ReadSound(sess', run'[q], q, exec'[q][m])
    BY <2>5, <2>6, WrittenReads DEF ReadSound, Reading
  <2>19. ASSUME ~ faulty PROVE Calm(sess', run', job', exec')
    <3>1. ASSUME NEW q \in Runs PROVE CalmJob(s, run', q, job[q])
      <4>1. CalmJob(sess, run, q, job[q])
        BY <2>19, AtWork
      <4>2. FollowUpTaken(sess, run) => FollowUpTaken(s, run')
        <5>1. FollowUpTaken(sess, run) => s.status \in Asking
          BY <2>3 DEF FollowUpTaken, Asking
        <5>2. sess \in Session
          BY StateTypes
        <5>3. QED BY <2>3, <2>8, <5>1, <5>2, FollowUpKept
      <4>3. run[q].status = "purged" => run'[q].status = "purged"
        BY <2>1, <2>8
      <4>4. QED BY <2>3, <2>9, <4>1, <4>2, <4>3 DEF CalmJob
    <3>2. ASSUME NEW q \in Runs, NEW m \in Attempts, q # r \/ m # n
          PROVE  CalmExec(s, run', q, m, job[q], exec'[q][m])
      BY <1>1, <2>1, <2>7, <2>9, <2>10, <2>19, <3>2, WriteCalm
    <3>3. CalmExec(s, run', r, n, job[r], y)
      <4>1. CalmExec(sess, run, r, n, job[r], exec[r][n])
        BY <2>19, AtWork
      <4>2. QED BY <1>1, <2>1, <2>5, <2>9, <4>1 DEF CalmExec, Reading
    <3>4. \A q \in Runs, m \in Attempts : CalmExec(s, run', q, m, job[q], exec'[q][m])
      BY <2>7, <3>2, <3>3
    <3>5. QED BY <1>1, <2>2, <3>1, <3>4 DEF Calm
  <2>20. ResetSound(sess', reset')
    BY <1>1, <2>1, <2>2, <2>3 DEF IInv, ResetSound
  <2>21. QED BY <1>1, <2>11, <2>12, <2>13, <2>15, <2>16, <2>17, <2>18, <2>19, <2>20 DEF IInv
<1>4. QED BY <1>2, <1>3

\* The run of a failed execution is marked, unless a reset deleted it.
LEMMA FailedRuns ==
    ASSUME IInv, NEW r \in Runs, NEW n \in Attempts, exec[r][n].pc # "none",
           run' = IF run[r].status = "purged" THEN run ELSE [run EXCEPT ![r].status = "failed"]
    PROVE  /\ run' \in [Runs -> Run] /\ \A q \in Runs : run'[q].key = run[q].key
           /\ \A q \in Runs : q # r => run'[q] = run[q]
           /\ run[r].status # "none"
           /\ IF run[r].status = "purged" THEN run'[r] = run[r]
              ELSE run'[r].status = "failed"
           /\ \A q \in Runs : run[q].status # "none" => run'[q].status # "none"
<1>1. run[r].status # "none"
  BY DEF IInv, RunSound
<1>2. CASE run[r].status = "purged"
  BY <1>1, <1>2, StateTypes
<1>3. CASE run[r].status # "purged"
  <2>1. run' = [run EXCEPT ![r].status = "failed"]
    BY <1>3
  <2>2. run'[r] = [run[r] EXCEPT !.status = "failed"]
    BY <2>1, StateTypes
  <2>3. run'[r] \in Run /\ run'[r].status = "failed" /\ run'[r].key = run[r].key
    BY <2>2, StateTypes DEF Run
  <2>4. QED BY <1>1, <1>3, <2>1, <2>3, StateTypes
<1>4. QED BY <1>2, <1>3

LEMMA FailedNamed ==
    ASSUME IInv, NEW s2, s2.op = sess.op, s2.brief = sess.brief, s2.text = sess.text,
           \A q \in Runs : run[q].status # "none" => run'[q].status # "none"
    PROVE  Named(s2, run')
<1>1. ASSUME NEW q \in {sess.op, sess.brief, sess.text} \ {0}
      PROVE  run'[q].status # "none"
  <2>1. q \in Runs
    BY <1>1, SessionFields, DiscoveryAssumption DEF RunOrNone, Runs
  <2>2. QED BY <1>1, <2>1 DEF IInv, Named
<1>2. QED BY <1>1 DEF Named

\* The write of a failure that was not recorded, the session having moved.
LEMMA RecordStale ==
    ASSUME IInv, NEW r \in Runs, NEW n \in Attempts, Record(r, n), exec[r][n].stale
    PROVE  IInv'
<1> DEFINE x == exec[r][n]
<1> DEFINE y == [x EXCEPT !.pc = "settle", !.stale = FALSE]
<1>1. /\ x.pc = "record" /\ UNCHANGED <<sess, job, reset, events, faulty>> /\ Goes(r, n, "settle")
      /\ run' = IF run[r].status = "purged" THEN run ELSE [run EXCEPT ![r].status = "failed"]
  BY DEF Record, StaleWrite
<1>2. x \in Exec /\ y \in Exec /\ y.pc = "settle" /\ y.out = x.out /\ ~ y.stale
  BY StateTypes DEF Exec
<1>3. exec' = Put(exec, r, n, y)
  BY <1>1, StateTypes DEF Goes, Put
<1> HIDE DEF y
<1>4. /\ exec' \in [Runs -> [Attempts -> Exec]] /\ exec'[r][n] = y
      /\ \A q \in Runs, m \in Attempts : q # r \/ m # n => exec'[q][m] = exec[q][m]
  <2>1. Execs(exec)
    BY StateTypes DEF Execs
  <2>2. QED BY <1>2, <1>3, <2>1, PutFacts DEF Execs
<1>5. /\ run' \in [Runs -> Run] /\ \A q \in Runs : run'[q].key = run[q].key
      /\ \A q \in Runs : q # r => run'[q] = run[q]
      /\ run[r].status # "none"
      /\ IF run[r].status = "purged" THEN run'[r] = run[r] ELSE run'[r].status = "failed"
      /\ \A q \in Runs : run[q].status # "none" => run'[q].status # "none"
  BY <1>1, FailedRuns
<1>6. TypeOK'
  BY <1>1, <1>4, <1>5, StateTypes DEF TypeOK
<1>7. ASSUME NEW q \in Runs PROVE RunSound(run'[q], job'[q], exec'[q])
  <2>1. RunSound(run[q], job[q], exec[q])
    BY DEF IInv
  <2>2. run[q].status = "none" => \A m \in Attempts : exec'[q][m].pc = exec[q][m].pc
    BY <1>4, <1>5
  <2>3. QED BY <1>1, <1>5, <2>1, <2>2 DEF RunSound
<1>8. Named(sess', run') /\ NewSession(sess', job')
  BY <1>1, <1>5, FailedNamed DEF IInv, NewSession
<1>9. Awaiting(sess', run')
  <2>1. ASSUME NEW q \in Runs, Awaits(sess, q)
        PROVE  run'[q].status \in {"pending", "running", "failed", "cancelled", "purged"}
               /\ (run'[q].status = "purged" <=> run[q].status = "purged")
    BY <1>5, <2>1 DEF IInv, Awaiting
  <2>2. QED BY <1>1, <1>5, <2>1 DEF IInv, Awaiting, Given
<1>10. Reviewed(sess', run')
  <2>1. sess.text # 0 => sess.text \in Runs
    BY SessionFields, DiscoveryAssumption DEF RunOrNone, Runs
  <2>2. QED BY <1>1, <1>5, <2>1 DEF IInv, Reviewed, Given
<1>11. \A q \in Runs, m \in Attempts : ReadSound(sess', run'[q], q, exec'[q][m])
  BY <1>1, <1>2, <1>4, <1>5 DEF IInv, ReadSound, Reading
<1>12. ASSUME ~ faulty PROVE Calm(sess', run', job', exec')
  <2>1. FollowUpTaken(sess, run') <=> FollowUpTaken(sess, run)
    BY <1>5 DEF FollowUpTaken
  <2>2. ASSUME NEW q \in Runs PROVE CalmJob(sess, run', q, job[q])
    <3>1. run[q].status = "purged" => run'[q].status = "purged"
      BY <1>5
    <3>2. CalmJob(sess, run, q, job[q])
      BY <1>12, AtWork
    <3>3. QED BY <2>1, <3>1, <3>2 DEF CalmJob
  <2>3. ASSUME NEW q \in Runs, NEW m \in Attempts, q # r \/ m # n
        PROVE  CalmExec(sess, run', q, m, job[q], exec'[q][m])
    <3>1. exec'[q][m] = exec[q][m] /\ CalmExec(sess, run, q, m, job[q], exec[q][m])
      BY <1>4, <1>12, <2>3, AtWork
    <3>2. QED BY <2>1, <3>1 DEF CalmExec
  <2>4. CalmExec(sess, run', r, n, job[r], y)
    <3>1. CalmExec(sess, run, r, n, job[r], x)
      BY <1>12, AtWork
    <3>2. ~ (Has(job[r], n) /\ sess.active) /\ (Has(job[r], n) => Awaits(sess, r))
      BY <1>1, <3>1 DEF CalmExec, Reading, Engaged
    <3>3. QED BY <1>1, <1>2, <3>1, <3>2 DEF CalmExec, Reading
  <2>5. \A q \in Runs, m \in Attempts : CalmExec(sess, run', q, m, job[q], exec'[q][m])
    BY <1>4, <2>3, <2>4
  <2>6. QED BY <1>1, <2>2, <2>5 DEF Calm
<1>13. ResetSound(sess', reset')
  BY <1>1 DEF IInv
<1>14. QED BY <1>1, <1>6, <1>7, <1>8, <1>9, <1>10, <1>11, <1>12, <1>13 DEF IInv

LEMMA RecordCurrent ==
    ASSUME IInv, NEW r \in Runs, NEW n \in Attempts, Record(r, n), ~ exec[r][n].stale
    PROVE  IInv'
<1> DEFINE x == exec[r][n]
<1> DEFINE y == [Moved(exec)[r][n] EXCEPT !.pc = "settle", !.stale = FALSE]
<1> DEFINE s == [sess EXCEPT !.status = IF Final(r, n) THEN AttentionFrom(@) ELSE @,
                             !.attempt = n]
<1>1. /\ x.pc = "record" /\ UNCHANGED <<job, reset, events, faulty>> /\ sess' = s
      /\ exec' = [Moved(exec) EXCEPT ![r][n].pc = "settle", ![r][n].stale = FALSE]
      /\ run' = IF run[r].status = "purged" THEN run ELSE [run EXCEPT ![r].status = "failed"]
  BY DEF Record, StaleWrite
<1>2. /\ s \in Session /\ s.op = sess.op /\ s.brief = sess.brief /\ s.text = sess.text
      /\ s.intake = sess.intake /\ s.answers = sess.answers /\ s.memory = sess.memory
      /\ s.active = sess.active
      /\ s.status = IF Final(r, n) /\ sess.status # "approved" THEN "needs_attention"
                    ELSE sess.status
  <2>1. n \in 0 .. MaxAttempts /\ "needs_attention" \in DiscoveryStatus
    BY ConstFacts DEF DiscoveryStatus
  <2>2. QED BY <2>1, StateTypes DEF AttentionFrom, Session
<1>3. /\ Moved(exec)[r][n] \in Exec /\ Execs(Moved(exec)) /\ x \in Exec
      /\ Moved(exec)[r][n].out = x.out
  BY StateTypes, MovedFacts, SeenFacts DEF Execs
<1>4. y \in Exec /\ y.pc = "settle" /\ y.out = x.out /\ ~ y.stale
  BY <1>3 DEF Exec
<1>5. exec' = Put(Moved(exec), r, n, y)
  BY <1>1, <1>3 DEF Put, Execs
<1> HIDE DEF s, y
<1>6. /\ exec' \in [Runs -> [Attempts -> Exec]] /\ exec'[r][n] = y
      /\ \A q \in Runs, m \in Attempts :
            q # r \/ m # n => /\ exec'[q][m] = Seen(exec[q][m])
                              /\ exec'[q][m].pc = exec[q][m].pc
  BY <1>4, <1>5, WrittenFacts
<1>7. /\ run' \in [Runs -> Run] /\ \A q \in Runs : run'[q].key = run[q].key
      /\ \A q \in Runs : q # r => run'[q] = run[q]
      /\ run[r].status # "none"
      /\ IF run[r].status = "purged" THEN run'[r] = run[r] ELSE run'[r].status = "failed"
      /\ \A q \in Runs : run[q].status # "none" => run'[q].status # "none"
  BY <1>1, FailedRuns
<1>8. sess.status # "not_started" /\ sess.active /\ run[r].status # "purged"
  BY <1>1 DEF IInv, ReadSound, Reading
<1>9. \A q \in Runs : Awaits(s, q) => /\ Awaits(sess, q) /\ s.status = sess.status
                                      /\ ~ Final(r, n)
  BY <1>2 DEF Awaits, Asking
<1>10. TypeOK'
  BY <1>1, <1>2, <1>6, <1>7, StateTypes DEF TypeOK
<1>11. ASSUME NEW q \in Runs PROVE RunSound(run'[q], job'[q], exec'[q])
  <2>1. run'[q] = run[q] \/ (q = r /\ run[q].status \notin {"none", "purged"}
                                   /\ run'[q].status \notin {"none", "purged"})
    BY <1>7, <1>8
  <2>2. job'[q] = job[q] /\ exec[r][n].pc # "none"
    BY <1>1
  <2>3. QED BY <1>4, <1>5, <2>1, <2>2, WrittenSound
<1>12. Named(sess', run')
  BY <1>1, <1>2, <1>7, FailedNamed
<1>13. NewSession(sess', job')
  BY <1>1, <1>2, <1>8 DEF IInv, NewSession
<1>14. Awaiting(sess', run')
  <2>1. ASSUME NEW q \in Runs, Awaits(sess, q)
        PROVE  run'[q].status \in {"pending", "running", "failed", "cancelled", "purged"}
               /\ (run'[q].status = "purged" <=> run[q].status = "purged")
    BY <1>7, <1>8, <2>1 DEF IInv, Awaiting
  <2>2. QED BY <1>1, <1>2, <1>7, <1>9, <2>1 DEF IInv, Awaiting, Given
<1>15. Reviewed(sess', run')
  <2>1. sess.text # 0 => sess.text \in Runs
    BY SessionFields, DiscoveryAssumption DEF RunOrNone, Runs
  <2>2. s.status \in {"brief_review", "approved"} => s.status = sess.status
    BY <1>2
  <2>3. QED BY <1>1, <1>2, <1>7, <2>1, <2>2 DEF IInv, Reviewed, Given
<1>16. \A q \in Runs, m \in Attempts : ReadSound(sess', run'[q], q, exec'[q][m])
  <2>1. ReadSound(sess', run'[r], r, y)
    BY <1>4 DEF ReadSound, Reading
  <2>2. QED BY <1>4, <1>5, <2>1, WrittenReads
<1>17. ASSUME ~ faulty PROVE Calm(sess', run', job', exec')
  <2>1. CalmExec(sess, run, r, n, job[r], x)
    BY <1>17, AtWork
  <2>2. Awaits(sess, r)
    BY <1>1, <2>1 DEF CalmExec
  <2>3. \A q \in Runs : Awaits(sess, q) <=> q = r
    BY <2>2, AwaitsFacts
  <2>4. ASSUME NEW q \in Runs PROVE CalmJob(s, run', q, job[q])
    <3>1. CalmJob(sess, run, q, job[q])
      BY <1>17, AtWork
    <3>2. job[q].status # "queued"
      <4>1. job[r].status # "queued"
        BY <1>1, <1>8, <2>1, <2>2, AwaitsFacts DEF CalmExec
      <4>2. QED BY <2>3, <3>1, <4>1 DEF CalmJob
    <3>3. Awaits(s, q) /\ FollowUpTaken(sess, run) => FollowUpTaken(s, run')
      <4>1. Awaits(s, q) /\ FollowUpTaken(sess, run) => s.status \in Asking
        BY <1>9 DEF FollowUpTaken
      <4>2. QED BY <1>2, <1>7, <4>1, StateTypes, FollowUpKept
    <3>4. QED BY <1>2, <1>7, <1>9, <3>1, <3>2, <3>3 DEF CalmJob
  <2>5. ASSUME NEW q \in Runs, NEW m \in Attempts, q # r \/ m # n
        PROVE  CalmExec(s, run', q, m, job[q], exec'[q][m])
    <3>1. q # r => ~ Awaits(s, q)
      BY <1>9, <2>3
    <3>2. exec[r][n].pc # "none" /\ exec'[q][m] = Seen(exec[q][m])
      BY <1>1, <1>6, <2>5
    <3>3. QED BY <1>8, <1>17, <2>2, <2>5, <3>1, <3>2, WriteCalm
  <2>6. CalmExec(s, run', r, n, job[r], y)
    <3>1. Final(r, n) <=> ~ Engaged(n, y)
      <4>1. n \in Nat /\ MaxAttempts \in Nat
        BY DiscoveryAssumption DEF Attempts
      <4>2. QED BY <1>4, <4>1 DEF Final, Engaged
    <3>2. ~ Final(r, n) => Awaits(s, r)
      BY <1>2, <2>2 DEF Awaits, Asking
    <3>3. QED BY <1>1, <1>4, <1>9, <2>1, <3>1, <3>2 DEF CalmExec, Reading
  <2>7. \A q \in Runs, m \in Attempts : CalmExec(s, run', q, m, job[q], exec'[q][m])
    BY <1>6, <2>5, <2>6
  <2>8. QED BY <1>1, <2>4, <2>7 DEF Calm
<1>18. ResetSound(sess', reset')
  BY <1>1, <1>2 DEF IInv, ResetSound
<1>19. QED BY <1>1, <1>10, <1>11, <1>12, <1>13, <1>14, <1>15, <1>16, <1>17, <1>18 DEF IInv

LEMMA RecordKeeps ==
    ASSUME IInv, NEW r \in Runs, NEW n \in Attempts, Record(r, n) PROVE IInv'
  BY RecordStale, RecordCurrent

-----------------------------------------------------------------------------
(* The writes of a result.                                                 *)

LEMMA CommitFacts ==
    ASSUME IInv, NEW r \in Runs, NEW n \in Attempts, exec[r][n].pc = "commit",
           ~ StaleWrite(r, n)
    PROVE  /\ Awaits(sess, r) /\ \A q \in Runs : Awaits(sess, q) <=> q = r
           /\ sess.status \in {"questions_queued", "questions_running", "brief_running"}
           /\ sess.op # 0 /\ sess.active /\ reset = "none"
           /\ run[r].status \in {"pending", "running", "failed", "cancelled"}
           /\ run[r].key.operation = IF sess.status = "brief_running" THEN Brief ELSE Questions
           /\ job[r].status # "absent"
           /\ Succeeded(run[r]) \in Run /\ Succeeded(run[r]).key = run[r].key
           /\ Succeeded(run[r]).status \in {"succeeded", "cancelled"}
           /\ ~ faulty => job[r].status # "queued" /\ job[r].attempt = n
<1>1. Awaits(sess, r) /\ sess.active /\ run[r].status # "purged" /\ reset = "none"
  BY DEF StaleWrite, IInv, ReadSound, Reading, ResetSound
<1>2. \A q \in Runs : Awaits(sess, q) <=> q = r
  BY <1>1, AwaitsFacts
<1>3. /\ run[r].status \in {"pending", "running", "failed", "cancelled"}
      /\ run[r].key.operation = IF sess.status = "brief_running" THEN Brief ELSE Questions
  BY <1>1 DEF IInv, Awaiting
<1>4. /\ Succeeded(run[r]) \in Run /\ Succeeded(run[r]).key = run[r].key
      /\ Succeeded(run[r]).status \in {"succeeded", "cancelled"}
  BY StateTypes DEF Succeeded, Run
<1>5. sess.status \in {"questions_queued", "questions_running", "brief_running"}
  BY <1>1 DEF Awaits, Asking
<1>6. sess.op # 0
  BY <1>5 DEF IInv, NewSession
<1>7. ~ faulty => CalmExec(sess, run, r, n, job[r], exec[r][n])
  BY AtWork
<1>8. QED BY <1>1, <1>2, <1>3, <1>4, <1>5, <1>6, <1>7, AwaitsFacts DEF CalmExec

LEMMA AppliedPut ==
    ASSUME IInv, NEW r \in Runs, NEW n \in Attempts, NEW s2, Applied(r, n, s2)
    PROVE  \E y \in Exec : /\ exec' = Put(Moved(exec), r, n, y)
                           /\ y.pc = "settle" /\ y.out = "succeeded" /\ ~ y.stale
<1> DEFINE y == Ended(Moved(exec)[r][n], "succeeded")
<1>1. Moved(exec)[r][n] \in Exec /\ Execs(Moved(exec))
  BY StateTypes, MovedFacts, SeenFacts DEF Execs
<1>2. y \in Exec /\ y.pc = "settle" /\ y.out = "succeeded" /\ ~ y.stale
  BY <1>1, EndedFacts
<1>3. exec' = Put(Moved(exec), r, n, y)
  BY <1>1 DEF Applied, Put, Execs
<1>4. QED BY <1>2, <1>3

LEMMA ResultKeeps ==
    ASSUME IInv, NEW r \in Runs, NEW n \in Attempts, exec[r][n].pc = "commit",
           ~ StaleWrite(r, n), NEW s, Applied(r, n, s), UNCHANGED job,
           run' = [run EXCEPT ![r] = Succeeded(@)],
           NEW s2 \in Session, sess' = s2,
           s2.status \in {"questions_ready", "needs_input", "brief_review"},
           s2.op = sess.op, s2.brief = sess.brief, s2.text \in {sess.text, r},
           s2.status = "brief_review" =>
              /\ sess.status = "brief_running" /\ s2.text = r
              /\ s2.intake = sess.intake /\ s2.answers = sess.answers
    PROVE  IInv'
<1>1. PICK y \in Exec : /\ exec' = Put(Moved(exec), r, n, y)
                        /\ y.pc = "settle" /\ y.out = "succeeded" /\ ~ y.stale
  BY AppliedPut
<1>2. /\ Awaits(sess, r) /\ \A q \in Runs : Awaits(sess, q) <=> q = r
      /\ sess.op # 0 /\ reset = "none"
      /\ run[r].status \in {"pending", "running", "failed", "cancelled"}
      /\ Succeeded(run[r]) \in Run /\ Succeeded(run[r]).key = run[r].key
      /\ Succeeded(run[r]).status \in {"succeeded", "cancelled"}
      /\ ~ faulty => job[r].status # "queued"
  BY CommitFacts
<1>3. UNCHANGED <<job, reset, events, faulty>>
  BY DEF Applied
<1>4. /\ exec' \in [Runs -> [Attempts -> Exec]] /\ exec'[r][n] = y
      /\ \A q \in Runs, m \in Attempts :
            q # r \/ m # n => /\ exec'[q][m] = Seen(exec[q][m])
                              /\ exec'[q][m].pc = exec[q][m].pc
  BY <1>1, WrittenFacts
<1>5. /\ run' \in [Runs -> Run] /\ \A q \in Runs : run'[q].key = run[q].key
      /\ \A q \in Runs : q # r => run'[q] = run[q]
      /\ run'[r] = Succeeded(run[r])
  BY <1>2, StateTypes
<1>6. \A q \in Runs : ~ Awaits(s2, q)
  BY DEF Awaits, Asking
<1>7. TypeOK'
  BY <1>3, <1>4, <1>5, StateTypes DEF TypeOK
<1>8. ASSUME NEW q \in Runs PROVE RunSound(run'[q], job'[q], exec'[q])
  <2>1. run'[q] = run[q] \/ (q = r /\ run[q].status \notin {"none", "purged"}
                                   /\ run'[q].status \notin {"none", "purged"})
    BY <1>2, <1>5
  <2>2. job'[q] = job[q] /\ exec[r][n].pc # "none"
    BY <1>3
  <2>3. QED BY <1>1, <2>1, <2>2, WrittenSound
<1>9. Named(sess', run')
  <2>1. ASSUME NEW q \in {s2.op, s2.brief, s2.text} \ {0}
        PROVE  run'[q].status # "none"
    <3>1. CASE q = r
      BY <1>2, <1>5, <3>1
    <3>2. CASE q # r
      <4>1. q \in {sess.op, sess.brief, sess.text} \ {0}
        BY <2>1, <3>2
      <4>2. q \in Runs
        BY <4>1, SessionFields, DiscoveryAssumption DEF RunOrNone, Runs
      <4>3. QED BY <1>5, <3>2, <4>1, <4>2 DEF IInv, Named
    <3>3. QED BY <3>1, <3>2
  <2>2. QED BY <2>1 DEF Named
<1>10. NewSession(sess', job')
  BY <1>2 DEF NewSession
<1>11. Awaiting(sess', run')
  BY <1>6 DEF Awaiting
<1>12. Reviewed(sess', run')
  <2>1. s2.status = "brief_review" => sess.brief = r /\ Given(sess, run[r]) /\ r # 0
    BY <1>2, ConstFacts DEF IInv, Awaiting, Awaits, Asking
  <2>2. QED BY <1>5, <2>1 DEF Reviewed, Given
<1>13. \A q \in Runs, m \in Attempts : ReadSound(sess', run'[q], q, exec'[q][m])
  <2>1. ReadSound(sess', run'[r], r, y)
    BY <1>1 DEF ReadSound, Reading
  <2>2. QED BY <1>1, <2>1, WrittenReads
<1>14. ASSUME ~ faulty PROVE Calm(sess', run', job', exec')
  <2>1. ASSUME NEW q \in Runs PROVE CalmJob(s2, run', q, job[q])
    <3>1. job[q].status # "queued"
      BY <1>2, <1>14, AtWork DEF CalmJob
    <3>2. QED BY <1>6, <3>1 DEF CalmJob
  <2>2. ASSUME NEW q \in Runs, NEW m \in Attempts, q # r \/ m # n
        PROVE  CalmExec(s2, run', q, m, job[q], exec'[q][m])
    BY <1>2, <1>4, <1>6, <1>14, <2>2, WriteCalm
  <2>3. CalmExec(s2, run', r, n, job[r], y)
    <3>1. CalmExec(sess, run, r, n, job[r], exec[r][n])
      BY <1>14, AtWork
    <3>2. QED BY <1>1, <1>6, <3>1 DEF CalmExec, Reading, Engaged
  <2>4. \A q \in Runs, m \in Attempts : CalmExec(s2, run', q, m, job[q], exec'[q][m])
    BY <1>4, <2>2, <2>3
  <2>5. QED BY <1>3, <2>1, <2>4 DEF Calm
<1>15. ResetSound(sess', reset')
  BY <1>2, <1>3 DEF ResetSound
<1>16. QED BY <1>3, <1>7, <1>8, <1>9, <1>10, <1>11, <1>12, <1>13, <1>14, <1>15 DEF IInv

LEMMA QuestionsReadyKeeps ==
    ASSUME IInv, NEW r \in Runs, NEW n \in Attempts, QuestionsReady(r, n) PROVE IInv'
<1>1. PICK s \in ApplyQuestionsReady(sess, r) : Applied(r, n, s)
  BY DEF QuestionsReady
<1>2. /\ s \in Session /\ s.status \in {"questions_ready", "needs_input"}
      /\ s.op = sess.op /\ s.brief = sess.brief /\ s.text = sess.text
  <2>1. r \in RunOrNone /\ sess.memory \in RunOrNone
        /\ {"questions_ready", "needs_input"} \subseteq DiscoveryStatus
    BY ConstFacts, SessionFields DEF DiscoveryStatus
  <2>2. QED BY <2>1, StateTypes DEF ApplyQuestionsReady, Session
<1> DEFINE s2 == [s EXCEPT !.attempt = n]
<1>3. /\ s2 \in Session /\ s2.status = s.status /\ s2.op = s.op /\ s2.brief = s.brief
      /\ s2.text = s.text /\ sess' = s2
  BY <1>1, <1>2, ConstFacts DEF Applied, Session
<1> HIDE DEF s2
<1>4. QED BY <1>1, <1>2, <1>3, ResultKeeps DEF QuestionsReady

LEMMA BriefReadyKeeps ==
    ASSUME IInv, NEW r \in Runs, NEW n \in Attempts, BriefReady(r, n) PROVE IInv'
<1> DEFINE s == ApplyBriefReview(sess, r, run[r].key.request)
<1> DEFINE s2 == [s EXCEPT !.attempt = n]
<1>1. Applied(r, n, s) /\ sess' = s2
  BY DEF BriefReady, Applied
<1>2. /\ s2 \in Session /\ s2.status = "brief_review" /\ s2.op = sess.op
      /\ s2.brief = sess.brief /\ s2.text = r /\ s2.intake = sess.intake
      /\ s2.answers = sess.answers
  <2>1. /\ r \in RunOrNone /\ n \in 0 .. MaxAttempts /\ "brief_review" \in DiscoveryStatus
        /\ run[r].key.request \in Edits
    BY ConstFacts, StateTypes DEF DiscoveryStatus, Key
  <2>2. QED BY <2>1, StateTypes DEF ApplyBriefReview, Session
<1> HIDE DEF s, s2
<1>3. sess.status = "brief_running"
  BY CommitFacts DEF BriefReady, OperationOf, Questions, Brief
<1>4. QED BY <1>1, <1>2, <1>3, ResultKeeps DEF BriefReady

\* The follow-up: the session goes on to wait for the brief's run.
LEMMA FollowUpKeeps ==
    ASSUME IInv, NEW r \in Runs, NEW n \in Attempts, exec[r][n].pc = "commit",
           ~ StaleWrite(r, n), NEW s, Applied(r, n, s),
           NEW q \in Runs, NEW key \in Key, Insertable(q, key), key.operation = Brief,
           run' = [run EXCEPT ![r] = Succeeded(@), ![q] = Inserted(key)],
           job' = [job EXCEPT ![q] = Enqueued],
           NEW s2 \in Session, sess' = s2, s2.status = "brief_running", s2.brief = q,
           s2.op = sess.op, s2.text = sess.text,
           key.intake = s2.intake, key.answers = s2.answers
    PROVE  IInv'
<1>1. PICK y \in Exec : /\ exec' = Put(Moved(exec), r, n, y)
                        /\ y.pc = "settle" /\ y.out = "succeeded" /\ ~ y.stale
  BY AppliedPut
<1>2. /\ Awaits(sess, r) /\ \A p \in Runs : Awaits(sess, p) <=> p = r
      /\ sess.op # 0 /\ reset = "none"
      /\ run[r].status \in {"pending", "running", "failed", "cancelled"}
      /\ Succeeded(run[r]) \in Run /\ Succeeded(run[r]).key = run[r].key
      /\ Succeeded(run[r]).status \in {"succeeded", "cancelled"}
      /\ ~ faulty => job[r].status # "queued"
  BY CommitFacts
<1>3. UNCHANGED <<reset, events, faulty>>
  BY DEF Applied
<1>4. /\ exec' \in [Runs -> [Attempts -> Exec]] /\ exec'[r][n] = y
      /\ \A p \in Runs, m \in Attempts :
            p # r \/ m # n => /\ exec'[p][m] = Seen(exec[p][m])
                              /\ exec'[p][m].pc = exec[p][m].pc
  BY <1>1, WrittenFacts
<1>5. /\ Inserted(key) \in Run /\ Inserted(key).status = "pending" /\ Inserted(key).key = key
      /\ Enqueued \in Job /\ Enqueued.status = "queued"
  BY ConstFacts DEF Inserted, Enqueued, Run, Job
<1>6. run[q].status = "none" /\ q # r
  BY <1>2 DEF Insertable
<1>7. /\ run' \in [Runs -> Run] /\ run'[r] = Succeeded(run[r]) /\ run'[q] = Inserted(key)
      /\ \A p \in Runs : p # r /\ p # q => run'[p] = run[p]
      /\ job' \in [Runs -> Job] /\ job'[q] = Enqueued
      /\ \A p \in Runs : p # q => job'[p] = job[p]
  BY <1>2, <1>5, <1>6, StateTypes
<1>8. \A m \in Attempts : exec[q][m].pc = "none"
  BY <1>6 DEF IInv, RunSound
<1>9. \A p \in Runs : Awaits(s2, p) <=> p = q
  BY DEF Awaits, Asking
<1>10. TypeOK'
  BY <1>3, <1>4, <1>7, StateTypes DEF TypeOK
<1>11. ASSUME NEW p \in Runs PROVE RunSound(run'[p], job'[p], exec'[p])
  <2>1. CASE p = q
    BY <1>5, <1>7, <2>1 DEF RunSound
  <2>2. CASE p # q
    <3>1. run'[p] = run[p] \/ (p = r /\ run[p].status \notin {"none", "purged"}
                                     /\ run'[p].status \notin {"none", "purged"})
      BY <1>2, <1>7, <2>2
    <3>2. job'[p] = job[p] /\ exec[r][n].pc # "none"
      BY <1>7, <2>2
    <3>3. QED BY <1>1, <3>1, <3>2, WrittenSound
  <2>3. QED BY <2>1, <2>2
<1>12. Named(sess', run')
  <2>1. ASSUME NEW p \in {s2.op, s2.brief, s2.text} \ {0}
        PROVE  run'[p].status # "none"
    <3>1. CASE p = r \/ p = q
      BY <1>2, <1>5, <1>7, <3>1
    <3>2. CASE p # r /\ p # q
      <4>1. p \in {sess.op, sess.text} \ {0}
        BY <2>1, <3>2
      <4>2. p \in Runs
        BY <4>1, SessionFields, DiscoveryAssumption DEF RunOrNone, Runs
      <4>3. QED BY <1>7, <3>2, <4>1, <4>2 DEF IInv, Named
    <3>3. QED BY <3>1, <3>2
  <2>2. QED BY <2>1 DEF Named
<1>13. NewSession(sess', job')
  BY <1>2, ConstFacts DEF NewSession
<1>14. Awaiting(sess', run')
  BY <1>5, <1>7, <1>9 DEF Awaiting, Given
<1>15. Reviewed(sess', run')
  BY DEF Reviewed
<1>16. \A p \in Runs, m \in Attempts : ReadSound(sess', run'[p], p, exec'[p][m])
  <2>1. ReadSound(sess', run'[r], r, y)
    BY <1>1 DEF ReadSound, Reading
  <2>2. QED BY <1>1, <2>1, WrittenReads
<1>17. ASSUME ~ faulty PROVE Calm(sess', run', job', exec')
  <2>1. ASSUME NEW p \in Runs PROVE CalmJob(s2, run', p, job'[p])
    <3>1. CASE p = q
      BY <1>5, <1>7, <1>9, <3>1 DEF CalmJob
    <3>2. CASE p # q
      <4>1. job[p].status # "queued"
        BY <1>2, <1>17, AtWork DEF CalmJob
      <4>2. QED BY <1>7, <1>9, <3>2, <4>1 DEF CalmJob
    <3>3. QED BY <3>1, <3>2
  <2>2. ASSUME NEW p \in Runs, NEW m \in Attempts, p # r \/ m # n
        PROVE  CalmExec(s2, run', p, m, job'[p], exec'[p][m])
    <3>1. CASE p = q
      <4>1. exec'[p][m].pc = "none" /\ ~ Has(job'[p], m)
        BY <1>4, <1>5, <1>6, <1>7, <1>8, <3>1 DEF Has
      <4>2. QED BY <4>1, CalmNone
    <3>2. CASE p # q
      <4>1. ~ Awaits(s2, p) /\ job'[p] = job[p] /\ exec'[p][m] = Seen(exec[p][m])
            /\ exec[r][n].pc # "none"
        BY <1>4, <1>7, <1>9, <2>2, <3>2
      <4>2. QED BY <1>2, <1>17, <2>2, <4>1, WriteCalm
    <3>3. QED BY <3>1, <3>2
  <2>3. CalmExec(s2, run', r, n, job'[r], y)
    <3>1. CalmExec(sess, run, r, n, job[r], exec[r][n]) /\ job'[r] = job[r] /\ ~ Awaits(s2, r)
      BY <1>6, <1>7, <1>9, <1>17, AtWork
    <3>2. QED BY <1>1, <3>1 DEF CalmExec, Reading, Engaged
  <2>4. \A p \in Runs, m \in Attempts : CalmExec(s2, run', p, m, job'[p], exec'[p][m])
    BY <1>4, <2>2, <2>3
  <2>5. QED BY <2>1, <2>4 DEF Calm
<1>18. ResetSound(sess', reset')
  BY <1>2, <1>3 DEF ResetSound
<1>19. QED BY <1>3, <1>10, <1>11, <1>12, <1>13, <1>14, <1>15, <1>16, <1>17, <1>18 DEF IInv

LEMMA ReadyForBriefKeeps ==
    ASSUME IInv, NEW r \in Runs, NEW n \in Attempts, ReadyForBrief(r, n) PROVE IInv'
<1>1. PICK q \in Runs, m \in {sess.memory, r} :
        LET s == [ApplyBriefRunning(sess, q) EXCEPT !.memory = m]
            key == KeyOf(s, Brief, 0, Count(0))
        IN  /\ Insertable(q, key)
            /\ run' = [run EXCEPT ![r] = Succeeded(@), ![q] = Inserted(key)]
            /\ job' = [job EXCEPT ![q] = Enqueued]
            /\ Applied(r, n, s)
  BY DEF ReadyForBrief
<1> DEFINE s == [ApplyBriefRunning(sess, q) EXCEPT !.memory = m]
<1> DEFINE key == KeyOf(s, Brief, 0, Count(0))
<1> DEFINE s2 == [s EXCEPT !.attempt = n]
<1>2. /\ Insertable(q, key) /\ Applied(r, n, s) /\ sess' = s2
      /\ run' = [run EXCEPT ![r] = Succeeded(@), ![q] = Inserted(key)]
      /\ job' = [job EXCEPT ![q] = Enqueued]
  BY <1>1 DEF Applied
<1>3. /\ s \in Session /\ s.status = "brief_running" /\ s.brief = q /\ s.op = sess.op
      /\ s.text = sess.text
  <2>1. r \in RunOrNone /\ q \in RunOrNone /\ sess.memory \in RunOrNone
        /\ "brief_running" \in DiscoveryStatus
    BY ConstFacts, SessionFields DEF DiscoveryStatus
  <2>2. QED BY <2>1, StateTypes DEF ApplyBriefRunning, Session
<1> HIDE DEF s
<1>4. /\ s2 \in Session /\ s2.status = s.status /\ s2.brief = s.brief /\ s2.op = s.op
      /\ s2.text = s.text /\ s2.intake = s.intake /\ s2.answers = s.answers
  BY <1>3, ConstFacts DEF Session
<1> HIDE DEF s2
<1>5. key \in Key /\ key.operation = Brief /\ key.intake = s.intake /\ key.answers = s.answers
  <2>1. Count(0) \in Nonce /\ 0 \in Edits
    BY ConstFacts, NonceTyped
  <2>2. QED BY <1>3, <2>1, KeyTyped, KeyFields
<1> HIDE DEF key
<1>6. exec[r][n].pc = "commit" /\ ~ StaleWrite(r, n)
  BY DEF ReadyForBrief
<1>7. /\ s2.status = "brief_running" /\ s2.brief = q /\ s2.op = sess.op /\ s2.text = sess.text
      /\ key.intake = s2.intake /\ key.answers = s2.answers
  BY <1>3, <1>4, <1>5
<1>8. s2 \in Session /\ key \in Key /\ key.operation = Brief /\ sess' = s2
  BY <1>2, <1>4, <1>5
<1>9. QED BY <1>2, <1>6, <1>7, <1>8, FollowUpKeeps

-----------------------------------------------------------------------------
(* The job queue.                                                          *)

\* A step that moves one job and leaves the session and the runs.
LEMMA JobKeeps ==
    ASSUME IInv, NEW r \in Runs, UNCHANGED <<sess, run, reset>>, NEW j \in Job,
           job' = [job EXCEPT ![r] = j], job[r].status # "absent", j.status # "absent",
           j.status = "running" => j.attempt # 0,
           exec' \in [Runs -> [Attempts -> Exec]],
           \A q \in Runs : q # r => \A m \in Attempts : exec'[q][m] = exec[q][m],
           \A m \in Attempts : ReadSound(sess, run[r], r, exec'[r][m]),
           events' \in 0 .. MaxEvents, faulty' \in BOOLEAN, ~ faulty' => ~ faulty,
           ~ faulty' => /\ CalmJob(sess, run, r, j)
                        /\ \A m \in Attempts : CalmExec(sess, run, r, m, j, exec'[r][m])
    PROVE  IInv'
<1>1. job' \in [Runs -> Job] /\ job'[r] = j /\ \A q \in Runs : q # r => job'[q] = job[q]
  BY StateTypes
<1>2. TypeOK'
  BY <1>1, StateTypes DEF TypeOK
<1>3. ASSUME NEW q \in Runs PROVE RunSound(run'[q], job'[q], exec'[q])
  <2>1. RunSound(run[q], job[q], exec[q]) /\ RunSound(run[r], job[r], exec[r])
    BY DEF IInv
  <2>2. CASE q = r
    BY <1>1, <2>1, <2>2 DEF RunSound
  <2>3. CASE q # r
    <3>1. \A m \in Attempts : exec'[q][m] = exec[q][m]
      BY <2>3
    <3>2. QED BY <1>1, <2>1, <2>3, <3>1 DEF RunSound
  <2>4. QED BY <2>2, <2>3
<1>4. NewSession(sess', job')
  BY <1>1 DEF IInv, NewSession
<1>5. \A q \in Runs, m \in Attempts : ReadSound(sess', run'[q], q, exec'[q][m])
  <2>1. ASSUME NEW q \in Runs, NEW m \in Attempts PROVE ReadSound(sess, run[q], q, exec'[q][m])
    BY DEF IInv
  <2>2. QED BY <2>1
<1>6. ASSUME ~ faulty' PROVE Calm(sess', run', job', exec')
  <2>1. ASSUME NEW q \in Runs
        PROVE  /\ CalmJob(sess, run, q, job'[q])
               /\ \A m \in Attempts : CalmExec(sess, run, q, m, job'[q], exec'[q][m])
    <3>1. CASE q = r
      BY <1>1, <1>6, <3>1
    <3>2. CASE q # r
      BY <1>1, <1>6, <3>2, AtWork
    <3>3. QED BY <3>1, <3>2
  <2>2. QED BY <2>1 DEF Calm
<1>7. QED BY <1>2, <1>3, <1>4, <1>5, <1>6 DEF IInv, ResetSound

LEMMA ClaimKeeps ==
    ASSUME IInv, NEW r \in Runs, Claim(r) PROVE IInv'
<1> DEFINE n == job[r].attempt + 1
<1> DEFINE j == [status |-> "running", attempt |-> n]
<1> DEFINE y == [NoExec EXCEPT !.pc = "open"]
<1>1. /\ job[r].status = "queued" /\ job[r].attempt < MaxAttempts
      /\ job' = [job EXCEPT ![r] = j] /\ exec' = Put(exec, r, n, y)
      /\ UNCHANGED <<sess, run, reset, faulty>> /\ events' \in 0 .. MaxEvents
  BY EventCounted DEF Claim, Claimable, Put
<1>2. n \in Attempts /\ n \in 0 .. MaxAttempts /\ n # 0
  <2>1. job[r].attempt \in 0 .. MaxAttempts
    BY StateTypes DEF Job
  <2>2. QED BY <1>1, <2>1, DiscoveryAssumption DEF Attempts
<1>3. /\ j \in Job /\ j.status = "running" /\ j.attempt = n
      /\ y \in Exec /\ y.pc = "open" /\ ~ y.stale
  BY <1>2 DEF Job, Exec, NoExec
<1> HIDE DEF n, j, y
<1>4. Execs(exec') /\ exec'[r][n] = y
      /\ \A q \in Runs, m \in Attempts : q # r \/ m # n => exec'[q][m] = exec[q][m]
  <2>1. Execs(exec)
    BY StateTypes DEF Execs
  <2>2. QED BY <1>1, <1>2, <1>3, <2>1, PutFacts
<1>5. \A m \in Attempts : ReadSound(sess, run[r], r, exec'[r][m])
  <2>1. ReadSound(sess, run[r], r, y)
    BY <1>3 DEF ReadSound, Reading
  <2>2. QED BY <1>4, <2>1 DEF IInv
<1>6. ASSUME ~ faulty
      PROVE  /\ CalmJob(sess, run, r, j)
             /\ \A m \in Attempts : CalmExec(sess, run, r, m, j, exec'[r][m])
  <2>1. Awaits(sess, r)
    BY <1>1, <1>6, AtWork DEF CalmJob
  <2>2. CalmJob(sess, run, r, j)
    BY <1>3 DEF CalmJob
  <2>3. CalmExec(sess, run, r, n, j, y)
    BY <1>3, <2>1 DEF CalmExec, Reading
  <2>4. ASSUME NEW m \in Attempts, m # n PROVE CalmExec(sess, run, r, m, j, exec'[r][m])
    <3>1. exec[r][m].pc = "none"
      BY <1>1, <1>6, AtWork DEF CalmExec
    <3>2. exec'[r][m].pc = "none" /\ ~ Has(j, m)
      BY <1>3, <1>4, <2>4, <3>1 DEF Has
    <3>3. QED BY <3>2, CalmNone
  <2>5. QED BY <1>4, <2>2, <2>3, <2>4
<1>7. faulty' \in BOOLEAN /\ faulty' = faulty /\ exec' \in [Runs -> [Attempts -> Exec]]
  BY <1>1, <1>4, StateTypes DEF Execs
<1>8. \A q \in Runs : q # r => \A m \in Attempts : exec'[q][m] = exec[q][m]
  BY <1>4
<1>9. job[r].status # "absent" /\ j.status # "absent" /\ (j.status = "running" => j.attempt # 0)
  BY <1>1, <1>2, <1>3
<1>10. ~ faulty' => /\ CalmJob(sess, run, r, j)
                    /\ \A m \in Attempts : CalmExec(sess, run, r, m, j, exec'[r][m])
  BY <1>6, <1>7
<1>11. j \in Job /\ UNCHANGED <<sess, run, reset>> /\ job' = [job EXCEPT ![r] = j]
       /\ events' \in 0 .. MaxEvents
  BY <1>1, <1>3
<1>12. ~ faulty' => ~ faulty
  BY <1>7
<1>13. QED BY <1>5, <1>7, <1>8, <1>9, <1>10, <1>11, <1>12, JobKeeps

\* No lease runs out before the first fault: the awaited execution renews it.
LEMMA RecoverKeeps ==
    ASSUME IInv, NEW r \in Runs, Recover(r) PROVE IInv'
<1> DEFINE status == IF job[r].attempt < MaxAttempts THEN "queued" ELSE "failed"
<1> DEFINE j == [job[r] EXCEPT !.status = status]
<1>1. job[r].status = "running" /\ UNCHANGED <<sess, run, exec, reset>>
      /\ job' = [job EXCEPT ![r].status = status]
  BY DEF Recover
<1>2. status \in {"queued", "failed"}
  OBVIOUS
<1> HIDE DEF status
<1>3. j \in Job /\ j.status = status
  BY <1>2, StateTypes DEF Job
<1>4. job' = [job EXCEPT ![r] = j]
  BY <1>1, StateTypes
<1> HIDE DEF j
<1>5. faulty'
      \/ (exec[r][job[r].attempt].pc = "none" /\ UNCHANGED <<events, faulty>>)
  BY DEF Recover, Fault
<1>6. job[r].attempt \in Attempts
  <2>1. job[r].attempt \in 0 .. MaxAttempts /\ job[r].attempt # 0
    BY <1>1, StateTypes DEF Job, IInv, RunSound
  <2>2. QED BY <2>1, DiscoveryAssumption DEF Attempts
<1>7. ~ faulty' => FALSE
  <2>1. SUFFICES ASSUME ~ faulty' PROVE FALSE
    OBVIOUS
  <2>2. ~ faulty /\ exec[r][job[r].attempt].pc = "none"
    BY <1>5, <2>1
  <2>3. QED BY <1>1, <1>6, <2>2, AtWork DEF CalmExec, Has
<1>8. events' \in 0 .. MaxEvents /\ faulty' \in BOOLEAN
  <2>1. CASE exec[r][job[r].attempt].pc = "none"
    BY <2>1, StateTypes DEF Recover
  <2>2. CASE exec[r][job[r].attempt].pc # "none"
    BY <2>2, EventCounted DEF Recover, Fault
  <2>3. QED BY <2>1, <2>2
<1>9. exec' \in [Runs -> [Attempts -> Exec]] /\ \A m \in Attempts : ReadSound(sess, run[r], r, exec'[r][m])
  BY <1>1, StateTypes DEF IInv
<1>10. QED BY <1>1, <1>2, <1>3, <1>4, <1>7, <1>8, <1>9, JobKeeps


\* The worker's last write, to the row it holds or to none.
LEMMA SettleKeeps ==
    ASSUME IInv, NEW r \in Runs, NEW n \in Attempts, Settle(r, n) PROVE IInv'
<1> DEFINE x == exec[r][n]
<1> DEFINE status == CASE x.out = "succeeded" -> "succeeded"
                       [] ShouldRetry(r, n) -> "queued"
                       [] OTHER -> "failed"
<1> DEFINE j == [job[r] EXCEPT !.status = status]
<1>1. /\ x.pc = "settle" /\ exec' = Put(exec, r, n, NoExec) /\ UNCHANGED <<sess, run, reset>>
      /\ events' \in 0 .. MaxEvents /\ faulty' \in BOOLEAN /\ faulty' = faulty
  BY StateTypes DEF Settle, Put
<1>2. NoExec \in Exec /\ NoExec.pc = "none" /\ ReadSound(sess, run[r], r, NoExec)
  BY NoExecTyped DEF ReadSound, Reading
<1>3. CASE ~ Holds(r, n) \/ x.out = "cancelled"
  <2>1. UNCHANGED job
    BY <1>3 DEF Settle
  <2>2. ~ faulty => ~ Has(job[r], n)
    BY <1>1, <1>3, AtWork, HoldsHas DEF CalmExec
  <2>3. ~ faulty' => CalmExec(sess, run, r, n, job[r], NoExec)
    BY <1>1, <1>2, <2>2, CalmNone
  <2>4. UNCHANGED <<sess, run, job, reset>> /\ exec[r][n].pc # "none" /\ (~ faulty' => ~ faulty)
    BY <1>1, <2>1
  <2>5. QED BY <1>1, <1>2, <2>3, <2>4, ExecKeeps
<1>4. CASE Holds(r, n) /\ x.out # "cancelled"
  <2>1. Has(job[r], n) /\ job[r].status = "running" /\ job[r].attempt = n
    BY <1>4 DEF Holds, Has
  <2>2. job' = [job EXCEPT ![r].status = status]
    BY <1>4 DEF Settle
  <2>3. /\ status \in {"succeeded", "queued", "failed"}
        /\ status = "queued" => Engaged(n, x)
        /\ Engaged(n, x) => status = "queued"
    BY <1>1 DEF ShouldRetry, Engaged
  <2> HIDE DEF status, x
  <2>4. j \in Job /\ j.status = status /\ j.attempt = job[r].attempt
    BY <2>3, StateTypes DEF Job
  <2>5. job' = [job EXCEPT ![r] = j]
    BY <2>2, StateTypes
  <2> HIDE DEF j
  <2>6. Execs(exec') /\ exec'[r][n] = NoExec
        /\ \A q \in Runs, m \in Attempts : q # r \/ m # n => exec'[q][m] = exec[q][m]
    <3>1. Execs(exec)
      BY StateTypes DEF Execs
    <3>2. QED BY <1>1, <1>2, <3>1, PutFacts
  <2>7. exec' \in [Runs -> [Attempts -> Exec]]
        /\ \A q \in Runs : q # r => \A m \in Attempts : exec'[q][m] = exec[q][m]
    BY <2>6 DEF Execs
  <2>8. \A m \in Attempts : ReadSound(sess, run[r], r, exec'[r][m])
    BY <1>2, <2>6 DEF IInv
  <2>9. ASSUME ~ faulty
        PROVE  /\ CalmJob(sess, run, r, j)
               /\ \A m \in Attempts : CalmExec(sess, run, r, m, j, exec'[r][m])
    <3>1. CalmExec(sess, run, r, n, job[r], x)
      BY <2>9, AtWork DEF x
    <3>2. CalmJob(sess, run, r, j)
      BY <1>1, <2>1, <2>3, <2>4, <3>1 DEF CalmJob, CalmExec
    <3>3. ASSUME NEW m \in Attempts PROVE exec'[r][m].pc = "none"
      <4>1. m # n => exec[r][m].pc = "none"
        BY <2>1, <2>9, AtWork DEF CalmExec
      <4>2. QED BY <1>2, <2>6, <4>1
    <3>4. \A m \in Attempts : ~ Has(j, m)
      BY <2>3, <2>4 DEF Has
    <3>5. QED BY <3>2, <3>3, <3>4, CalmNone
  <2>10. job[r].status # "absent" /\ j.status # "absent"
         /\ (j.status = "running" => j.attempt # 0)
    BY <2>1, <2>3, <2>4
  <2>11. ~ faulty' => ~ faulty
    BY <1>1
  <2>12. ~ faulty' => /\ CalmJob(sess, run, r, j)
                      /\ \A m \in Attempts : CalmExec(sess, run, r, m, j, exec'[r][m])
    BY <2>9, <2>11
  <2>13. QED BY <1>1, <2>4, <2>5, <2>7, <2>8, <2>10, <2>11, <2>12, JobKeeps
<1>5. QED BY <1>3, <1>4


-----------------------------------------------------------------------------
(* The invariant.                                                          *)

LEMMA InitKeeps == Init => IInv
<1> SUFFICES ASSUME Init PROVE IInv
  OBVIOUS
<1>1. /\ sess = EmptyState
      /\ \A r \in Runs : /\ run[r] = [status |-> "none", key |-> NoKey]
                         /\ job[r] = [status |-> "absent", attempt |-> 0]
                         /\ \A n \in Attempts : exec[r][n] = NoExec
  BY DEF Init
<1>2. TypeOK
  <2>1. EmptyState \in Session
    BY ConstFacts DEF EmptyState, Session, DiscoveryStatus
  <2>2. NoKey \in Key
    <3>1. 0 \in 0 .. MaxAttempts + 1
      BY DiscoveryAssumption
    <3>2. Count(0) \in Nonce
      BY <3>1, NonceTyped
    <3>3. QED BY <3>2, ConstFacts DEF NoKey, Key
  <2>3. run \in [Runs -> Run] /\ job \in [Runs -> Job]
    <3>1. [status |-> "none", key |-> NoKey] \in Run
      BY <2>2 DEF Run
    <3>2. [status |-> "absent", attempt |-> 0] \in Job
      BY ConstFacts DEF Job
    <3>3. QED BY <3>1, <3>2 DEF Init
  <2>4. exec \in [Runs -> [Attempts -> Exec]]
    BY NoExecTyped DEF Init
  <2>5. events \in 0 .. MaxEvents /\ faulty \in BOOLEAN
    <3>1. events = 0 /\ faulty \in BOOLEAN
      BY DEF Init
    <3>2. 0 \in 0 .. MaxEvents
      BY DiscoveryAssumption
    <3>3. QED BY <3>1, <3>2
  <2>6. reset \in {"none", "empty", "used"}
    BY DEF Init
  <2>7. QED BY <1>1, <2>1, <2>3, <2>4, <2>5, <2>6 DEF TypeOK
<1>3. \A r \in Runs : RunSound(run[r], job[r], exec[r])
  BY <1>1, NoExecTyped DEF RunSound
<1>4. Named(sess, run) /\ NewSession(sess, job) /\ Awaiting(sess, run) /\ Reviewed(sess, run)
  <2>1. /\ sess.status = "not_started" /\ sess.op = 0 /\ sess.brief = 0 /\ sess.text = 0
        /\ sess = [EmptyState EXCEPT !.active = sess.active]
    BY <1>1 DEF EmptyState
  <2>2. NewSession(sess, job)
    BY <1>1, <2>1 DEF NewSession
  <2>3. QED BY <2>1, <2>2 DEF Named, Awaiting, Awaits, Asking, Reviewed
<1>5. \A r \in Runs, n \in Attempts : ReadSound(sess, run[r], r, exec[r][n])
  BY <1>1, NoExecTyped DEF ReadSound, Reading
<1>6. Calm(sess, run, job, exec)
  <2>1. \A r \in Runs : CalmJob(sess, run, r, job[r])
    BY <1>1 DEF CalmJob, EmptyState, Awaits, Asking
  <2>2. \A r \in Runs, n \in Attempts : exec[r][n].pc = "none" /\ ~ Has(job[r], n)
    BY <1>1, NoExecTyped DEF Has
  <2>3. QED BY <2>1, <2>2, CalmNone DEF Calm
<1>7. ResetSound(sess, reset)
  BY DEF Init, ResetSound
<1>8. QED BY <1>2, <1>3, <1>4, <1>5, <1>6, <1>7 DEF IInv

LEMMA HandlerKeeps ==
    ASSUME IInv, NEW r \in Runs, NEW n \in Attempts, Handler(r, n) PROVE IInv'
<1>1. CASE Open(r, n)
  BY <1>1, OpenKeeps
<1>2. CASE Begin(r, n)
  BY <1>2, BeginKeeps
<1>3. CASE Call(r, n)
  BY <1>3, CallKeeps
<1>4. CASE Conflict(r, n)
  BY <1>4, ConflictKeeps
<1>5. CASE QuestionsReady(r, n)
  BY <1>5, QuestionsReadyKeeps
<1>6. CASE ReadyForBrief(r, n)
  BY <1>6, ReadyForBriefKeeps
<1>7. CASE BriefReady(r, n)
  BY <1>7, BriefReadyKeeps
<1>8. CASE Record(r, n)
  BY <1>8, RecordKeeps
<1>9. CASE Settle(r, n)
  BY <1>9, SettleKeeps
<1>10. QED
  BY <1>1, <1>2, <1>3, <1>4, <1>5, <1>6, <1>7, <1>8, <1>9 DEF Handler

LEMMA StutterKeeps == IInv /\ UNCHANGED vars => IInv'
  BY DEF vars, IInv, TypeOK, Calm

LEMMA NextKeeps == IInv /\ [Next]_vars => IInv'
<1> SUFFICES ASSUME IInv, [Next]_vars PROVE IInv'
  OBVIOUS
<1>1. CASE UNCHANGED vars
  BY <1>1, StutterKeeps
<1>2. ASSUME NEW r \in Runs,
             Start(r) \/ CompleteAnswers(r) \/ Revise(r) \/ Claim(r) \/ Recover(r)
      PROVE  IInv'
  BY <1>2, StartKeeps, CompleteAnswersKeeps, ReviseKeeps, ClaimKeeps, RecoverKeeps
<1>3. CASE SaveAnswers \/ Approve \/ Stop \/ ResetFence \/ Purge \/ ResetFails
  BY <1>3, SaveAnswersKeeps, ApproveKeeps, StopKeeps, FenceKeeps, PurgeKeeps, ResetFailsKeeps
<1>4. ASSUME NEW r \in Runs, NEW n \in Attempts, Handler(r, n) \/ Timeout(r, n) \/ Crash(r, n)
      PROVE  IInv'
  BY <1>4, HandlerKeeps, TimeoutKeeps, CrashKeeps
<1>5. QED BY <1>1, <1>2, <1>3, <1>4 DEF Next

\* In every reachable state, for any number of runs, attempts, edits and events.
THEOREM DiscoveryInvariant == Spec => []IInv
<1>1. QED BY InitKeeps, NextKeeps, PTL DEF Spec


\* The state of the session is typed.
THEOREM DiscoveryTypes == Spec => []TypeOK
<1>1. IInv => TypeOK
  BY DEF IInv
<1>2. QED BY <1>1, DiscoveryInvariant, PTL

\* What is reviewed or approved was made from all that the user wrote.
THEOREM ReviewsAreCurrent == Spec => []ReviewedBriefIsCurrent
<1>1. IInv => ReviewedBriefIsCurrent
  BY DEF IInv, Reviewed, Given, ReviewedBriefIsCurrent
<1>2. QED BY <1>1, DiscoveryInvariant, PTL

\* Until the first fault a session that waits has a job at work, but for a run
\* that a reset overtook and a follow-up whose key is taken.
THEOREM WaitsAreAnswered == Spec => []WaitingHasWork
<1>1. IInv => WaitingHasWork
  <2>1. SUFFICES ASSUME IInv, ~ faulty, sess.active, Waiting
                 PROVE  \/ job[Awaited].status \in {"queued", "running"}
                        \/ run[Awaited].status = "purged"
                        \/ InQuestions /\ \E m \in {sess.memory, sess.op} :
                              Taken(KeyOf([sess EXCEPT !.memory = m], Brief, 0, Count(0)))
    BY DEF WaitingHasWork
  <2>2. Awaited \in Runs /\ Awaits(sess, Awaited)
    BY <2>1, AwaitsFacts
  <2>3. \/ job[Awaited].status \in {"queued", "running"}
        \/ run[Awaited].status = "purged" \/ FollowUpTaken(sess, run)
    BY <2>1, <2>2, AtWork DEF CalmJob
  <2>4. QED BY <2>3 DEF FollowUpTaken, Taken, Asking, InQuestions
<1>2. QED BY <1>1, DiscoveryInvariant, PTL

\* A step of one execution moves no other one.
LEMMA OthersStay ==
    ASSUME IInv, NEW q \in Runs, NEW m \in Attempts, Handler(q, m),
           NEW r \in Runs, NEW n \in Attempts, r # q \/ n # m
    PROVE  exec'[r][n].pc = exec[r][n].pc
<1>1. exec \in [Runs -> [Attempts -> Exec]] /\ Execs(exec)
  BY StateTypes DEF Execs
<1>2. /\ Moved(exec) \in [Runs -> [Attempts -> Exec]]
      /\ Moved(exec)[r][n].pc = exec[r][n].pc
  BY <1>1, MovedFacts, SeenFacts DEF Execs
<1>3. CASE \E y : exec' = [exec EXCEPT ![q][m] = y]
  BY <1>1, <1>3
<1>4. CASE \E y : exec' = [Moved(exec) EXCEPT ![q][m] = y]
  BY <1>2, <1>4
<1>5. (\E y : exec' = [exec EXCEPT ![q][m] = y])
      \/ (\E y : exec' = [Moved(exec) EXCEPT ![q][m] = y])
  <2>1. CASE Open(q, m) \/ Call(q, m) \/ Conflict(q, m) \/ Settle(q, m)
    BY <2>1 DEF Open, Call, Conflict, Settle, Enters, Returns, Goes, Fails
  <2>2. CASE Begin(q, m) \/ Record(q, m)
    BY <2>2 DEF Begin, Record, Returns, Goes
  <2>3. CASE QuestionsReady(q, m) \/ ReadyForBrief(q, m) \/ BriefReady(q, m)
    BY <2>3 DEF QuestionsReady, ReadyForBrief, BriefReady, Applied
  <2>4. QED BY <2>1, <2>2, <2>3 DEF Handler
<1>6. QED BY <1>3, <1>4, <1>5

\* The run is deleted with its job, and what its execution read is stale.
LEMMA PurgedStep ==
    ASSUME IInv, NEW r \in Runs, NEW n \in Attempts, run[r].status = "purged", Handler(r, n)
    PROVE  UNCHANGED <<sess, run, job>>
<1>1. job[r].status = "absent"
  BY DEF IInv, RunSound
<1>2. exec[r][n].pc \in Reading => exec[r][n].stale
  BY DEF IInv, ReadSound
<1>3. CASE Open(r, n) \/ Call(r, n) \/ Conflict(r, n)
  BY <1>3 DEF Open, Call, Conflict, Quiet
<1>4. CASE Begin(r, n)
  BY <1>2, <1>4 DEF Begin, Reading
<1>5. ~ (QuestionsReady(r, n) \/ ReadyForBrief(r, n) \/ BriefReady(r, n))
  BY <1>2 DEF QuestionsReady, ReadyForBrief, BriefReady, StaleWrite, Reading
<1>6. CASE Record(r, n)
  BY <1>2, <1>6 DEF Record, StaleWrite, Reading
<1>7. CASE Settle(r, n)
  BY <1>1, <1>7 DEF Settle, Holds
<1>8. QED BY <1>3, <1>4, <1>5, <1>6, <1>7 DEF Handler

\* Whatever reset deletes a run, and whenever its execution goes on: that
\* execution changes nothing that is left.
THEOREM PurgedRunsAreSilent == Spec => PurgedRunIsSilent
<1> DEFINE Silent == \A r \in Runs, n \in Attempts :
                        run[r].status = "purged" /\ exec'[r][n].pc # exec[r][n].pc
                        => UNCHANGED <<sess, run, job>>
<1>1. IInv /\ [Next]_vars => [Silent]_vars
  <2>1. SUFFICES ASSUME IInv, Next, NEW r \in Runs, NEW n \in Attempts,
                        run[r].status = "purged", exec'[r][n].pc # exec[r][n].pc
                 PROVE  UNCHANGED <<sess, run, job>>
    OBVIOUS
  <2>2. exec' # Moved(exec) /\ exec' # exec
    BY <2>1, ExecSeen
  <2>3. ASSUME NEW q \in Runs, Start(q) \/ CompleteAnswers(q) \/ Revise(q) PROVE FALSE
    BY <2>2, <2>3 DEF Start, CompleteAnswers, Revise, Launch
  <2>4. ~ (SaveAnswers \/ Approve \/ Stop \/ ResetFence \/ Purge \/ ResetFails)
    BY <2>2 DEF SaveAnswers, Approve, Save, Stop, ResetFence, Purge, ResetFails
  <2>5. ASSUME NEW q \in Runs, Claim(q) \/ Recover(q) PROVE FALSE
    <3>1. Claim(q) /\ job[q].status = "queued"
      BY <2>2, <2>5 DEF Recover, Claim, Claimable
    <3>2. q # r
      BY <2>1, <3>1 DEF IInv, RunSound
    <3>3. QED BY <2>1, <3>1, <3>2, StateTypes DEF Claim
  <2>6. ASSUME NEW q \in Runs, NEW m \in Attempts, Timeout(q, m) \/ Crash(q, m)
        PROVE  UNCHANGED <<sess, run, job>>
    BY <2>6 DEF Timeout, Crash
  <2>7. ASSUME NEW q \in Runs, NEW m \in Attempts, Handler(q, m)
        PROVE  UNCHANGED <<sess, run, job>>
    <3>1. q = r /\ m = n
      BY <2>1, <2>7, OthersStay
    <3>2. QED BY <2>1, <2>7, <3>1, PurgedStep
  <2>8. QED BY <2>1, <2>3, <2>4, <2>5, <2>6, <2>7 DEF Next
<1>2. QED BY <1>1, DiscoveryInvariant, PTL DEF Spec, PurgedRunIsSilent, Silent

\* Only a stop and a failure whose read is current end a wait in need of attention.
LEMMA AttentionSteps ==
    ASSUME IInv, Next, Waiting, sess'.status = "needs_attention"
    PROVE  Stop \/ \E r \in Runs, n \in Attempts : Record(r, n) /\ ~ StaleWrite(r, n)
<1>1. sess \in Session /\ sess.status \in Asking \cup {"brief_running"}
  BY StateTypes DEF Waiting, InQuestions, Asking
<1>2. sess' # sess
  BY <1>1 DEF Asking
<1>3. ASSUME NEW r \in Runs,
             Start(r) \/ CompleteAnswers(r) \/ Revise(r) \/ Claim(r) \/ Recover(r)
      PROVE  FALSE
  <2>1. CASE Start(r)
    BY <1>1, <2>1 DEF Start, Launch, ApplyStart, Session
  <2>2. CASE CompleteAnswers(r)
    BY <1>1, <2>2 DEF CompleteAnswers, Launch, ApplyBriefRunning, Session
  <2>3. CASE Revise(r)
    BY <1>1, <2>3 DEF Revise, Launch, ApplyBriefRunning, Session
  <2>4. CASE Claim(r) \/ Recover(r)
    BY <1>2, <2>4 DEF Claim, Recover
  <2>5. QED BY <1>3, <2>1, <2>2, <2>3, <2>4
<1>4. ~ (SaveAnswers \/ Approve)
  BY <1>1 DEF SaveAnswers, Approve, Save, ApplyApproval, Session
<1>5. ~ (ResetFence \/ Purge \/ ResetFails)
  BY <1>1, <1>2 DEF ResetFence, Purge, ResetFails, EmptyState, Session, Asking
<1>6. ASSUME NEW r \in Runs, NEW n \in Attempts,
             Handler(r, n) \/ Timeout(r, n) \/ Crash(r, n)
      PROVE  Record(r, n) /\ ~ StaleWrite(r, n)
  <2>1. ~ (Timeout(r, n) \/ Crash(r, n) \/ Settle(r, n))
    BY <1>2 DEF Timeout, Crash, Settle
  <2>2. ~ (Open(r, n) \/ Call(r, n) \/ Conflict(r, n))
    BY <1>2 DEF Open, Call, Conflict, Quiet
  <2>3. ~ Begin(r, n)
    BY <1>1, <1>2 DEF Begin, RunningState, Session, Asking
  <2>4. ~ QuestionsReady(r, n)
    <3>1. SUFFICES ASSUME QuestionsReady(r, n) PROVE FALSE
      OBVIOUS
    <3>2. PICK s \in ApplyQuestionsReady(sess, r) : sess' = [s EXCEPT !.attempt = n]
      BY <3>1 DEF QuestionsReady, Applied
    <3>3. PICK status \in {"questions_ready", "needs_input"}, m \in {sess.memory, r} :
             s = [sess EXCEPT !.status = status, !.memory = m]
      BY <3>2 DEF ApplyQuestionsReady
    <3>4. sess'.status = status
      BY <1>1, <3>2, <3>3 DEF Session
    <3>5. QED BY <3>3, <3>4
  <2>5. ~ ReadyForBrief(r, n)
    <3>1. SUFFICES ASSUME ReadyForBrief(r, n) PROVE FALSE
      OBVIOUS
    <3>2. PICK q \in Runs, m \in {sess.memory, r} :
             Applied(r, n, [ApplyBriefRunning(sess, q) EXCEPT !.memory = m])
      BY <3>1 DEF ReadyForBrief
    <3>3. QED BY <1>1, <3>2 DEF ApplyBriefRunning, Applied, Session
  <2>6. ~ BriefReady(r, n)
    BY <1>1 DEF BriefReady, ApplyBriefReview, Applied, Session
  <2>7. Record(r, n)
    BY <1>6, <2>1, <2>2, <2>3, <2>4, <2>5, <2>6 DEF Handler
  <2>8. QED BY <1>2, <2>7 DEF Record
<1>7. QED BY <1>3, <1>4, <1>5, <1>6 DEF Next

\* Until the first fault a failure, however late, is recorded in a waiting
\* session only by the run the session waits for, or by a stop of that run.
THEOREM FailuresAreOfTheAwaited == Spec => FailureIsOfTheAwaitedRun
<1> DEFINE Ends == ~ faulty /\ Waiting /\ sess'.status = "needs_attention"
                      => run'[Awaited].status \in {"failed", "cancelled", "purged"}
<1>1. IInv /\ [Next]_vars => [Ends]_sess
  <2>1. SUFFICES ASSUME IInv, Next, ~ faulty, Waiting, sess'.status = "needs_attention"
                 PROVE  run'[Awaited].status \in {"failed", "cancelled", "purged"}
    <3>1. UNCHANGED vars => UNCHANGED sess
      BY DEF vars
    <3>2. QED BY <3>1
  <2>2. Awaited \in Runs /\ Awaits(sess, Awaited)
    BY <2>1, AwaitsFacts
  <2>3. run[Awaited].status \in {"pending", "running", "failed", "cancelled", "purged"}
        /\ run[Awaited] \in Run /\ run \in [Runs -> Run]
    BY <2>1, <2>2, StateTypes DEF IInv, Awaiting
  <2>4. CASE Stop
    <3>1. run'[Awaited] = CancelledRun(run[Awaited])
      BY <2>2, <2>3, <2>4 DEF Stop
    <3>2. QED BY <2>3, <3>1 DEF CancelledRun, Run
  <2>5. ASSUME NEW r \in Runs, NEW n \in Attempts, Record(r, n), ~ StaleWrite(r, n)
        PROVE  run'[Awaited].status = "failed"
    <3>1. Awaits(sess, r)
      BY <2>1, <2>5, AtWork DEF Record, StaleWrite, CalmExec
    <3>2. r = Awaited
      BY <2>1, <3>1, AwaitsFacts
    <3>3. run' = [run EXCEPT ![r].status = "failed"]
      BY <2>1, <2>5 DEF Record, StaleWrite, IInv, ReadSound, Reading
    <3>4. QED BY <2>3, <3>2, <3>3 DEF Run
  <2>6. QED BY <2>1, <2>4, <2>5, AttentionSteps
<1>2. QED BY <1>1, DiscoveryInvariant, PTL DEF Spec, FailureIsOfTheAwaitedRun, Ends

=============================================================================
