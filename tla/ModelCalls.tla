----------------------------- MODULE ModelCalls -----------------------------
(***************************************************************************)
(* The model calls of one agent stage: the single-flight result cache      *)
(* (agents/shared/model_cache.py), the routed client with its budget and   *)
(* fallback (model_execution.py, contracts.py), the durable usage ledger   *)
(* with its capacity windows (model_usage.py) and the outcome of a request *)
(* (providers/errors.py, providers/opencode_go.py).                        *)
(*                                                                         *)
(* An execution is one delivery of a run's job.  It makes the run's Steps  *)
(* calls one after the other, each through the cache.  Two deliveries of   *)
(* one run may overlap when the first has lost its lease; executions of    *)
(* different runs with the same input share the owner's cache keys.  Each  *)
(* database transaction is one action.                                     *)
(***************************************************************************)
EXTENDS Naturals, FiniteSets

CONSTANTS
    Execs,              \* executions, 1 .. the number of deliveries
    FirstRun,           \* the executions that are deliveries of run 1; the others are of run 2
    Steps,              \* structured calls a run makes
    NormalCalls,        \* routing.operation_profiles normal_calls
    RecoveryAllowance,  \* routing.operation_profiles recovery_allowance
    Primary,            \* the primary profile
    Seconds,            \* what the route may try second: a fallback, or the primary again
    GeminiProfiles,     \* the profiles whose provider is gemini
    Room,               \* requests a minute window admits: int(limit * ceiling)
    DayRoom,            \* requests a daily window admits
    MaxMinute,          \* bound: minutes
    MaxFaults           \* bound: crashes, timeouts, database failures, lost leases, refusals

ASSUME ModelCallsAssumption ==
    /\ Execs \subseteq Nat \ {0} /\ IsFiniteSet(Execs) /\ FirstRun \subseteq Execs
    /\ Steps \in Nat \ {0} /\ NormalCalls \in Nat /\ RecoveryAllowance \in Nat
    /\ Room \in Nat /\ DayRoom \in Nat /\ MaxMinute \in Nat \ {0} /\ MaxFaults \in Nat

VARIABLES
    row,     \* model_call_cache: the row of each step's key under each profile
    op,      \* model_operations: the calls reserved by each run
    att,     \* model_call_attempts with their budget reservations
    win,     \* model_capacity_windows; window 0 is the day
    ex,      \* the executions, with their OperationBudget
    off,     \* sources the capacity registry sees in cooldown
    sent,    \* provider requests sent for each run (history)
    second,  \* what this deployment's route tries second
    minute,  \* the clock
    faults   \* faults so far, at most MaxFaults

vars == <<row, op, att, win, ex, off, sent, second, minute, faults>>

Profiles == {Primary} \cup Seconds
Runs == {1, 2}
RunOf(e) == IF e \in FirstRun THEN 1 ELSE 2
Calls == 1 .. Steps
Minutes == 1 .. MaxMinute
Windows == {0} \cup Minutes

Outcome == {"good", "limited", "broken", "timeout", "refused", "final"}

\* The holder of a producing row is the execution whose lease token it has; made
\* is the profile that produced a ready row's output; live says the lease, or the
\* result, has not expired.
Row == [st : {"none", "producing", "ready"}, by : {0} \cup Execs, live : BOOLEAN,
        made : {"none"} \cup Profiles]
Attempt == [st : {"none", "reserved", "succeeded", "failed"},
            res : {"none", "reserved", "settled", "unresolved"},
            profile : Profiles, min : Windows]
\* alt is the profile a second try would use.
Exec == [pc : {"idle", "claim", "hit", "admit", "reserve", "send", "answer", "settle", "store",
               "insert", "drop", "release", "done", "failed", "cancelled", "crashed", "aborted"},
         k : Calls, i : {1, 2}, alt : Profiles, normal : Nat, recovery : Nat, sent : Nat,
         out : Outcome, retry : BOOLEAN, timed : BOOLEAN]

TypeOK ==
    /\ row \in [Calls \X Profiles -> Row]
    /\ op \in [Runs -> [normal : Nat, recovery : Nat]]
    /\ att \in [Execs \X Calls \X {1, 2} -> Attempt]
    /\ win \in [Profiles \X Windows -> [reserved : Nat, observed : Nat]]
    /\ ex \in [Execs -> Exec]
    /\ off \subseteq Profiles
    /\ sent \in [Runs -> Nat]
    /\ second \in Seconds
    /\ minute \in Minutes
    /\ faults \in 0 .. MaxFaults

NoRow == [st |-> "none", by |-> 0, live |-> FALSE, made |-> "none"]
NoAttempt == [st |-> "none", res |-> "none", profile |-> Primary, min |-> 0]
NoExec == [pc |-> "idle", k |-> 1, i |-> 1, alt |-> Primary, normal |-> 0, recovery |-> 0,
           sent |-> 0, out |-> "good", retry |-> FALSE, timed |-> FALSE]

Init ==
    /\ row = [q \in Calls \X Profiles |-> NoRow]
    /\ op = [r \in Runs |-> [normal |-> 0, recovery |-> 0]]
    /\ att = [a \in Execs \X Calls \X {1, 2} |-> NoAttempt]
    /\ win = [w \in Profiles \X Windows |-> [reserved |-> 0, observed |-> 0]]
    /\ ex = [e \in Execs |-> NoExec]
    /\ off = {} /\ sent = [r \in Runs |-> 0]
    /\ second \in Seconds
    /\ minute = 1 /\ faults = 0

Ended == {"done", "failed", "cancelled", "crashed", "aborted"}
At(e, pc) == ex[e].pc = pc
Go(e, pc) == ex' = [ex EXCEPT ![e].pc = pc]
End(e, pc, retry) == ex' = [ex EXCEPT ![e] = [NoExec EXCEPT !.pc = pc, !.retry = retry]]
Fault == faults < MaxFaults /\ faults' = faults + 1

\* The profile of the attempt under way, and the key a call is cached under: the
\* primary's, whatever the fallback would be.
Now(e) == IF ex[e].i = 1 THEN Primary ELSE ex[e].alt
Key(e) == <<ex[e].k, Primary>>
Holds(e, q) == row[q].st = "producing" /\ row[q].by = e

-----------------------------------------------------------------------------
(* What a request came to: the adapter maps the provider's answer, and the *)
(* router's decisions look only at the class of the mapped error.          *)

\* An HTTP status, or a body that says the credit is spent.
HttpOutcome(status) ==
    CASE status \in {"401", "402", "403", "credit"} -> "refused"
      [] status = "429" -> "limited"
      [] status = "408" -> "timeout"
      [] status = "5xx" -> "broken"
      [] status = "4xx" -> "final"

\* What the SDK raised: an error with a status, no answer in time, no connection,
\* or something it does not classify.
SdkOutcome(raised) ==
    CASE raised = "timeout" -> "timeout"
      [] raised = "connection" -> "broken"
      [] raised = "unclassified" -> "final"
      [] OTHER -> HttpOutcome(raised)

\* An answer arrived: it may be empty, cut off, not JSON, or fail the agent's
\* validator, all of which may be tried again.
ReplyOutcome(reply) ==
    IF reply = "valid" THEN "good" ELSE "broken"

Answers ==
    {SdkOutcome(raised) : raised \in {"timeout", "connection", "unclassified", "401", "402",
                                      "403", "credit", "429", "408", "5xx", "4xx"}}
    \cup {ReplyOutcome(reply) : reply \in {"valid", "empty", "truncated", "not_json",
                                           "not_object", "invalid"}}

Retryable(out) == out \in {"limited", "broken", "timeout"}

\* acceptance_uncertain: the provider may have accepted the request.
Uncertain(out) == out = "timeout"

CanRecover(e, out) ==
    /\ ex[e].i = 1 /\ ex[e].recovery < RecoveryAllowance
    /\ IF out = "refused" THEN Primary \notin GeminiProfiles /\ ex[e].alt \in GeminiProfiles
       ELSE Retryable(out)

-----------------------------------------------------------------------------
(* The cache.                                                              *)

\* A delivery starts: the first of its run, a redelivery after a failure that
\* may be retried or a lost worker, or one beside a task that lost its lease.
Begin(e) ==
    LET others == {d \in Execs \ {e} : RunOf(d) = RunOf(e) /\ ~At(d, "idle")}
    IN  /\ At(e, "idle")
        /\ ~ \E d \in others :
              At(d, "done") \/ (ex[d].pc \in {"failed", "aborted"} /\ ~ex[d].retry)
        /\ IF \A d \in others : ex[d].pc \in Ended THEN UNCHANGED faults ELSE Fault
        /\ Go(e, "claim")
        /\ UNCHANGED <<row, op, att, win, off, sent, second, minute>>

\* A lease that has run out, and a result that has, are taken over.
Claimable(q) == row[q].st = "none" \/ ~row[q].live

Claim(e) ==
    /\ At(e, "claim")
    /\ IF Claimable(Key(e))
       THEN /\ row' = [row EXCEPT ![Key(e)] = [st |-> "producing", by |-> e, live |-> TRUE,
                                               made |-> "none"]]
            /\ Go(e, "admit")
       ELSE /\ row[Key(e)].st = "ready"
            /\ UNCHANGED row
            /\ Go(e, "hit")
    /\ UNCHANGED <<op, att, win, off, sent, second, minute, faults>>

\* Waiting for another producer ends at a deadline, with a retryable error.
GiveUp(e) ==
    /\ At(e, "claim") /\ row[Key(e)].st = "producing" /\ row[Key(e)].live
    /\ End(e, "failed", TRUE)
    /\ UNCHANGED <<row, op, att, win, off, sent, second, minute, faults>>

\* The next call of the stage, or its end.
Onward(e) ==
    IF ex[e].k < Steps THEN [ex[e] EXCEPT !.pc = "claim", !.k = @ + 1, !.i = 1]
    ELSE [NoExec EXCEPT !.pc = "done"]

Accept(e) ==
    /\ At(e, "hit")
    /\ ex' = [ex EXCEPT ![e] = Onward(e)]
    /\ UNCHANGED <<row, op, att, win, off, sent, second, minute, faults>>

\* Whatever ready row the key has by now is deleted.
Invalidated(e) == IF row[Key(e)].st = "ready" THEN [row EXCEPT ![Key(e)] = NoRow] ELSE row

\* The stage's validator, of a newer release, refuses a stored result.
Refuse(e) ==
    /\ At(e, "hit") /\ Fault
    /\ row' = Invalidated(e)
    /\ Go(e, "claim")
    /\ UNCHANGED <<op, att, win, off, sent, second, minute>>

\* Mutant: a fallback's result is stored under the call's own key.
StoredUnderPrimary(e) ==
    LET q == Key(e)
    IN  IF Holds(e, q) THEN [row EXCEPT ![q] = [st |-> "ready", by |-> e, live |-> TRUE,
                                               made |-> Now(e)]] ELSE row

\* The row that the result is written to, if this execution still produces it; a
\* result that used the fallback goes under the fallback's key, where it has no lease.
Target(e) == <<ex[e].k, Now(e)>>
Result(e) == [st |-> "ready", by |-> e, live |-> TRUE, made |-> Now(e)]
Stored(e) == IF Holds(e, Target(e)) THEN [row EXCEPT ![Target(e)] = Result(e)] ELSE row

\* After a fallback's result the lease on the call's own key is given up.
AfterStore(e) == IF Now(e) # Primary THEN [ex[e] EXCEPT !.pc = "drop"] ELSE Onward(e)

Store(e) ==
    /\ At(e, "store")
    /\ row' = Stored(e)
    /\ ex' = [ex EXCEPT ![e] = IF row[Target(e)].st = "none" THEN [@ EXCEPT !.pc = "insert"]
                               ELSE AfterStore(e)]
    /\ UNCHANGED <<op, att, win, off, sent, second, minute, faults>>

\* No row was found: the result is inserted, unless another has inserted one
\* since.  The IntegrityError then ends the execution; nothing is released, and
\* nothing retries an error that is not a provider's.
Insert(e) ==
    /\ At(e, "insert")
    /\ IF row[Target(e)].st = "none"
       THEN row' = [row EXCEPT ![Target(e)] = Result(e)] /\ ex' = [ex EXCEPT ![e] = AfterStore(e)]
       ELSE End(e, "aborted", FALSE) /\ UNCHANGED row
    /\ UNCHANGED <<op, att, win, off, sent, second, minute, faults>>

\* The database fails a transaction of the cache, the release among them.
CacheFails(e) ==
    /\ ex[e].pc \in {"claim", "hit", "store", "insert", "drop", "release"} /\ Fault
    /\ End(e, "aborted", FALSE)
    /\ UNCHANGED <<row, op, att, win, off, sent, second, minute>>

\* Mutant: the release does not look at the token.
ReleasedAnyones(e) == IF row[Key(e)].st = "producing" THEN [row EXCEPT ![Key(e)] = NoRow] ELSE row

\* Delete the producing row of the call's key if it still has this token.
Released(e) == IF Holds(e, Key(e)) THEN [row EXCEPT ![Key(e)] = NoRow] ELSE row

Drop(e) ==
    /\ At(e, "drop")
    /\ row' = Released(e)
    /\ ex' = [ex EXCEPT ![e] = Onward(e)]
    /\ UNCHANGED <<op, att, win, off, sent, second, minute, faults>>

Release(e) ==
    /\ At(e, "release")
    /\ row' = Released(e)
    /\ End(e, IF ex[e].timed THEN "cancelled" ELSE "failed", ex[e].retry)
    /\ UNCHANGED <<op, att, win, off, sent, second, minute, faults>>

-----------------------------------------------------------------------------
(* The routed client and the usage ledger.                                 *)

Raise(e, retry) == ex' = [ex EXCEPT ![e].pc = "release", ![e].retry = retry]

\* A fallback that the registry sees in cooldown leaves the list; the primary keeps
\* its place whatever the registry says, and a list of one is tried again.
Admit(e) ==
    /\ At(e, "admit")
    /\ IF ex[e].normal < NormalCalls
       THEN ex' = [ex EXCEPT ![e].pc = "reserve", ![e].i = 1, ![e].normal = @ + 1,
                             ![e].alt = IF second \in off THEN Primary ELSE second]
       ELSE Raise(e, FALSE)
    /\ UNCHANGED <<row, op, att, win, off, sent, second, minute, faults>>

\* Refused before admission: the routing policy has changed, the input is too
\* large, or no profile is eligible.
Reject(e) ==
    /\ At(e, "admit") /\ Fault
    /\ Raise(e, FALSE)
    /\ UNCHANGED <<row, op, att, win, off, sent, second, minute>>

\* The windows a reservation made now belongs to, and those with room left.
Open(p) == {<<p, 0>>, <<p, minute>>}
Used(w) == win[w].reserved + win[w].observed
Admits(p) == Used(<<p, 0>>) < DayRoom /\ Used(<<p, minute>>) < Room

\* Mutant: a redelivery gets an allowance of its own.
OpOfDelivery(e) == IF e \in FirstRun /\ e # 1 THEN 2 ELSE 1

\* The allowance is the run's: every delivery of it uses the same row.
OpOf(e) == RunOf(e)
Allowed(e) ==
    IF ex[e].i = 1 THEN op[OpOf(e)].normal < NormalCalls
    ELSE op[OpOf(e)].recovery < RecoveryAllowance

Reserve(e) ==
    /\ At(e, "reserve") /\ Allowed(e) /\ Admits(Now(e))
    /\ op' = IF ex[e].i = 1 THEN [op EXCEPT ![OpOf(e)].normal = @ + 1]
             ELSE [op EXCEPT ![OpOf(e)].recovery = @ + 1]
    /\ att' = [att EXCEPT ![<<e, ex[e].k, ex[e].i>>] =
                   [st |-> "reserved", res |-> "reserved", profile |-> Now(e), min |-> minute]]
    /\ win' = [w \in DOMAIN win |-> IF w \in Open(Now(e)) THEN [win[w] EXCEPT !.reserved = @ + 1]
                                    ELSE win[w]]
    /\ Go(e, "send")
    /\ UNCHANGED <<row, off, sent, second, minute, faults>>

\* The allowance is used up: an error nothing retries.
Exhausted(e) ==
    /\ At(e, "reserve") /\ ~Allowed(e)
    /\ Raise(e, FALSE)
    /\ UNCHANGED <<row, op, att, win, off, sent, second, minute, faults>>

\* A window is full: the ledger's except clause turns the capacity error, which
\* is not one of its own, into a persistence error, and that is raised.
Full(e) ==
    /\ At(e, "reserve") /\ Allowed(e) /\ ~Admits(Now(e))
    /\ Raise(e, TRUE)
    /\ UNCHANGED <<row, op, att, win, off, sent, second, minute, faults>>

LedgerDown(e) ==
    /\ At(e, "reserve") /\ Fault
    /\ Raise(e, TRUE)
    /\ UNCHANGED <<row, op, att, win, off, sent, second, minute>>

Send(e) ==
    /\ At(e, "send")
    /\ ex' = [ex EXCEPT ![e].pc = "answer", ![e].sent = @ + 1]
    /\ sent' = [sent EXCEPT ![RunOf(e)] = @ + 1]
    /\ UNCHANGED <<row, op, att, win, off, second, minute, faults>>

\* The profile has no usable client: nothing is sent.
Unresolved(e) ==
    /\ At(e, "send") /\ Fault
    /\ ex' = [ex EXCEPT ![e].pc = "settle", ![e].out = "refused"]
    /\ UNCHANGED <<row, op, att, win, off, sent, second, minute>>

Answer(e) ==
    /\ At(e, "answer")
    /\ \E out \in Answers : ex' = [ex EXCEPT ![e].pc = "settle", ![e].out = out]
    /\ UNCHANGED <<row, op, att, win, off, sent, second, minute, faults>>

\* Mutant: a reservation is settled in the current minute.
SettledWindowNow(a) == minute

\* Settling gives a reservation back to the windows it was taken from and counts
\* a success; an uncertain one stays reserved.
SettledWindow(a) == a.min

\* Mutant: a fallback's reservation is given back to the primary's windows.
SettledAtPrimary(e) ==
    LET a == att[<<e, ex[e].k, ex[e].i>>]
    IN  [w \in DOMAIN win |->
           IF Uncertain(ex[e].out) \/ w \notin {<<Primary, 0>>, <<Primary, SettledWindow(a)>>}
           THEN win[w]
           ELSE [reserved |-> win[w].reserved - 1,
                 observed |-> win[w].observed + (IF ex[e].out = "good" THEN 1 ELSE 0)]]

Settled(e) ==
    LET a == att[<<e, ex[e].k, ex[e].i>>]
    IN  [w \in DOMAIN win |->
           IF Uncertain(ex[e].out) \/ w \notin {<<a.profile, 0>>, <<a.profile, SettledWindow(a)>>}
           THEN win[w]
           ELSE [reserved |-> win[w].reserved - (IF win[w].reserved > 0 THEN 1 ELSE 0),
                 observed |-> win[w].observed + (IF ex[e].out = "good" THEN 1 ELSE 0)]]

\* After the settlement: the result, the second profile, or the error, which no
\* redelivery may retry once something was sent.
After(e) ==
    LET out == ex[e].out
    IN  IF out = "good" THEN [ex[e] EXCEPT !.pc = "store", !.alt = Now(e)]
        ELSE IF CanRecover(e, out)
        THEN [ex[e] EXCEPT !.pc = "reserve", !.i = 2, !.recovery = @ + 1]
        ELSE [ex[e] EXCEPT !.pc = "release", !.retry = Retryable(out) /\ ex[e].sent = 0]

Finish(e) ==
    /\ At(e, "settle")
    /\ att' = [att EXCEPT ![<<e, ex[e].k, ex[e].i>>] =
                   [@ EXCEPT !.st = IF ex[e].out = "good" THEN "succeeded" ELSE "failed",
                             !.res = IF Uncertain(ex[e].out) THEN "unresolved" ELSE "settled"]]
    /\ win' = Settled(e)
    /\ off' = IF ex[e].out = "limited" THEN off \cup {Now(e)} ELSE off
    /\ ex' = [ex EXCEPT ![e] = After(e)]
    /\ UNCHANGED <<row, op, sent, second, minute, faults>>

\* The settlement cannot be written: an error nothing retries.
FinishFails(e) ==
    /\ At(e, "settle") /\ Fault
    /\ Raise(e, FALSE)
    /\ UNCHANGED <<row, op, att, win, off, sent, second, minute>>

-----------------------------------------------------------------------------
(* The worker's timeout, crashes, clocks and the retention sweep.          *)

InCall == {"admit", "reserve", "send", "answer", "settle"}
Working == InCall \cup {"store", "insert", "drop", "release"}

\* The handler's timeout cancels the call: the cache releases its row, and the
\* client, which catches Exception only, settles nothing.
Timeout(e) ==
    /\ ex[e].pc \in {"claim", "hit", "store", "insert", "drop"} \cup InCall /\ Fault
    /\ IF ex[e].pc \in InCall
       THEN ex' = [ex EXCEPT ![e].pc = "release", ![e].retry = TRUE, ![e].timed = TRUE]
       ELSE End(e, "cancelled", TRUE)
    /\ UNCHANGED <<row, op, att, win, off, sent, second, minute>>

Crash(e) ==
    /\ ex[e].pc \notin {"idle"} \cup Ended /\ Fault
    /\ End(e, "crashed", TRUE)
    /\ UNCHANGED <<row, op, att, win, off, sent, second, minute>>

\* A lease, or a result's time to live, runs out.
Lapse(q) ==
    /\ row[q].st # "none" /\ row[q].live
    /\ IF row[q].st = "producing" /\ ex[row[q].by].pc \in Ended THEN UNCHANGED faults ELSE Fault
    /\ row' = [row EXCEPT ![q].live = FALSE]
    /\ UNCHANGED <<op, att, win, ex, off, sent, second, minute>>

\* The retention sweep deletes expired results and rows whose lease has run out.
Sweep ==
    /\ \E q \in DOMAIN row : row[q].st # "none" /\ ~row[q].live
    /\ row' = [q \in DOMAIN row |-> IF row[q].live THEN row[q] ELSE NoRow]
    /\ UNCHANGED <<op, att, win, ex, off, sent, second, minute, faults>>

NextMinute ==
    /\ minute < MaxMinute
    /\ minute' = minute + 1 /\ off' = {}
    /\ UNCHANGED <<row, op, att, win, ex, sent, second, faults>>

Call(e) ==
    \/ Claim(e) \/ GiveUp(e) \/ Accept(e) \/ Store(e) \/ Insert(e) \/ Drop(e)
    \/ Release(e)
    \/ Admit(e) \/ Reserve(e) \/ Exhausted(e) \/ Full(e) \/ Send(e) \/ Answer(e) \/ Finish(e)

Next ==
    \/ \E e \in Execs :
         \/ Begin(e) \/ Call(e) \/ Refuse(e) \/ Reject(e) \/ LedgerDown(e) \/ Unresolved(e)
         \/ FinishFails(e) \/ CacheFails(e) \/ Timeout(e) \/ Crash(e)
    \/ \E q \in Calls \X Profiles : Lapse(q)
    \/ Sweep \/ NextMinute

Spec == Init /\ [][Next]_vars

-----------------------------------------------------------------------------
(* Properties.                                                             *)

\* Over all its deliveries, overlapping or after a crash, a run sends no request
\* without a committed reservation, and reserves no more than its allowance
\* (model_usage.py, "the durable operation reservation remains authoritative").
TransmissionsWithinAllowance ==
    \A r \in Runs :
        /\ sent[r] <= op[r].normal + op[r].recovery
        /\ op[r].normal <= NormalCalls /\ op[r].recovery <= RecoveryAllowance

\* A window's counters are its attempts': reserved counts those not settled,
\* observed those that succeeded, whichever minute they were settled in.  No
\* interleaving of reservations and settlements takes a source past the share of
\* its minute or daily limit that the ledger leaves it.
Made(w) == {a \in DOMAIN att : att[a].profile = w[1] /\ att[a].st # "none"
                                /\ (w[2] = 0 \/ att[a].min = w[2])}
WindowsKept ==
    \A w \in DOMAIN win :
        /\ win[w].reserved = Cardinality({a \in Made(w) : att[a].res # "settled"})
        /\ win[w].observed = Cardinality({a \in Made(w) : att[a].st = "succeeded"})
        /\ Used(w) <= IF w[2] = 0 THEN DayRoom ELSE Room

\* A ready row is the work of the profile its key names, so a result of the
\* fallback is never read as the primary's; and a row is left producing only by
\* an execution that still works on that call, that a crash or the worker's
\* timeout took away, or whose own write of the cache failed.
RowsHonest ==
    \A q \in DOMAIN row :
        /\ row[q].st = "ready" => row[q].made = q[2]
        /\ row[q].st = "producing" =>
              LET x == ex[row[q].by]
              IN  x.pc \in {"crashed", "cancelled", "aborted"}
                  \/ (x.pc \in Working /\ x.k = q[1])

\* While a lease runs, only its holder's own step changes the row, so no other
\* execution computes the same call: the late end of an execution whose lease
\* was taken over touches nothing.
LeaseRespected ==
    [][\A q \in DOMAIN row :
          row[q].st = "producing" /\ row[q].live /\ row'[q] # row[q]
          => row'[q] = [row[q] EXCEPT !.live = FALSE] \/ ex'[row[q].by] # ex[row[q].by]]_vars

=============================================================================
