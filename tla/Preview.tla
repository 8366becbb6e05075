------------------------------- MODULE Preview -------------------------------
(***************************************************************************)
(* Publishing a built page on a preview host: a verified build is stored   *)
(* as immutable objects, a pending promotion remembers the host's pointer, *)
(* and the promotion writes a receipt and swaps the pointer, which a       *)
(* gateway in another process follows for every request                    *)
(* (preview/promotion.py, preview/reconciler.py, preview/gateway.py,       *)
(* storage/preview.py).  A step is what runs between two awaits.           *)
(*                                                                         *)
(* Nothing in the repository calls the promoter but its reconciler: that   *)
(* the caller keeps pending promotions, and at any time stores again or    *)
(* reconciles one of them, is read from the reconciler's arguments.        *)
(***************************************************************************)
EXTENDS Naturals

CONSTANTS
    Builds,    \* verified builds for one host, each with its promotion
    Workers,   \* processes that publish
    NoOne,
    MaxRuns,   \* bound: executions
    MaxFaults  \* bound: crashes and failed storage calls

ASSUME PreviewAssumption ==
    NoOne \notin Builds /\ MaxRuns \in Nat \ {0} /\ MaxFaults \in Nat

VARIABLES
    backend,  \* archive_storage.provider, fixed when the processes start
    required, \* PreviewPromoter.require_readback, fixed as well
    data,     \* the bytes under each key
    meta,     \* their metadata: a second file of the local backend
    pending,  \* the pending promotions the caller has kept: the pointers they saw
    seen,     \* the pointer that the pending promotion of each execution saw
    link,     \* the capability link each build was given
    runs,     \* executions so far: the time, for receipts and tokens
    exec,     \* what each worker is doing
    visit,    \* a request at the gateway
    faults    \* faults so far, at most MaxFaults

vars == <<backend, required, data, meta, pending, seen, link, runs, exec, visit, faults>>

\* "asset" stands for every stored object beside the index and the manifest: files
\* and the report.  The bytes of a file are those of its build; a manifest has the token
\* of its execution, a receipt the time, and a pointer the hash of a receipt.  A receipt
\* also names the pointer that its execution's pending promotion saw: n tells which.
Content == [by : Builds, n : 0 .. MaxRuns]
Missing == [by |-> NoOne, n |-> 0]
Broken == [by |-> NoOne, n |-> 1]
Stored == {"index", "asset", "manifest"}
Keys == (Stored \cup {"receipt"}) \X Builds \cup {<<"pointer", NoOne>>}
Pointer == <<"pointer", NoOne>>

\* cond is what a conditional write expects; "immutable" writes expect nothing or
\* the same bytes.
Exec == [pc : {"idle", "check", "write", "finish", "readback", "pending", "receipt", "index",
               "pointer", "public", "restore", "delete"},
         p : Builds \cup {NoOne}, n : 0 .. MaxRuns,
         key : Keys, want : Content \cup {Missing},
         cond : Content \cup {Missing, Broken}, receipt : 0 .. MaxRuns,
         mine : Content \cup {Missing}]
NoExec == [pc |-> "idle", p |-> NoOne, n |-> 0, key |-> Pointer,
           want |-> Missing, cond |-> Missing, receipt |-> 0, mine |-> Missing]
NoPending == Broken
Immutable == Broken

TypeOK ==
    /\ backend \in {"memory", "local", "s3"} /\ required \in BOOLEAN
    /\ data \in [Keys -> Content \cup {Missing}]
    /\ meta \in [Keys -> Content \cup {Missing}]
    /\ pending \in [Builds -> SUBSET (Content \cup {Missing})]
    /\ seen \in [1 .. MaxRuns -> Content \cup {Missing, NoPending}]
    /\ link \in [Builds -> 0 .. MaxRuns]
    /\ runs \in 0 .. MaxRuns
    /\ exec \in [Workers -> Exec]
    /\ visit \in [pc : {"idle", "receipt", "file"}, at : Content \cup {Missing},
                  out : {"none", "unavailable", "not_found"}]
    /\ faults \in 0 .. MaxFaults

NoVisit == [pc |-> "idle", at |-> Missing, out |-> "none"]

Init ==
    /\ backend \in {"memory", "local", "s3"} /\ required \in BOOLEAN
    /\ data = [k \in Keys |-> Missing] /\ meta = [k \in Keys |-> Missing]
    /\ pending = [p \in Builds |-> {}]
    /\ seen = [n \in 1 .. MaxRuns |-> NoPending]
    /\ link = [p \in Builds |-> 0]
    /\ runs = 0
    /\ exec = [w \in Workers |-> NoExec]
    /\ visit = NoVisit
    /\ faults = 0

-----------------------------------------------------------------------------
(* Storage.  Only the local backend has its metadata apart, and a reader   *)
(* of an object whose halves differ is refused.                            *)

Read(key) ==
    IF data[key] = Missing \/ meta[key] = Missing THEN Missing
    ELSE IF data[key] # meta[key] THEN Broken
    ELSE data[key]

Written(key, content) ==
    /\ data' = [data EXCEPT ![key] = content]
    /\ meta' = [meta EXCEPT ![key] = content]

Unwritten == UNCHANGED <<data, meta>>

At(w, pc) == exec[w].pc = pc
Go(w, x) == exec' = [exec EXCEPT ![w] = x]
Give(w) == Go(w, NoExec)
Elsewhere == UNCHANGED <<backend, required, pending, seen, link, runs, visit, faults>>

Put(x, key, want, cond) == [x EXCEPT !.pc = "check", !.key = key, !.want = want, !.cond = cond]

\* What a write that is done, and read back where the code reads it back, leads to.
After(x) ==
    CASE x.key[1] = "index" -> Put(x, <<"asset", x.p>>, x.want, Immutable)
      [] x.key[1] = "asset" -> Put(x, <<"manifest", x.p>>, [by |-> x.p, n |-> x.n], Immutable)
      [] x.key[1] = "manifest" -> [x EXCEPT !.pc = "pending"]
      [] x.key[1] = "receipt" -> [x EXCEPT !.pc = "index", !.receipt = x.want.n]
      [] x.key = Pointer /\ x.want.by = x.p -> [x EXCEPT !.pc = "public", !.mine = x.want]
      [] OTHER -> NoExec

Confirmed(x) == IF x.key = Pointer THEN After(x) ELSE [x EXCEPT !.pc = "readback"]

\* A write's first await looks at what is there.  In memory the lock makes the
\* look and the write one.
Check(w) ==
    LET x == exec[w]
        there == Read(x.key)
    IN  /\ At(w, "check")
        /\ \/ /\ x.cond = Immutable /\ there = x.want
              /\ Go(w, Confirmed(x)) /\ Unwritten
           \/ /\ there = IF x.cond = Immutable THEN Missing ELSE x.cond
              /\ IF backend = "memory"
                 THEN Written(x.key, x.want) /\ Go(w, Confirmed(x))
                 ELSE Go(w, [x EXCEPT !.pc = "write"]) /\ Unwritten
           \/ /\ there \notin (IF x.cond = Immutable THEN {Missing, x.want} ELSE {x.cond})
              /\ Give(w) /\ Unwritten
        /\ Elsewhere

\* The provider applies the condition again; the local backend does not.
Allows(x) == Read(x.key) = IF x.cond = Immutable THEN Missing ELSE x.cond

Write(w) ==
    LET x == exec[w]
    IN  /\ At(w, "write")
        /\ CASE backend = "local" -> /\ data' = [data EXCEPT ![x.key] = x.want]
                                     /\ UNCHANGED meta
                                     /\ Go(w, [x EXCEPT !.pc = "finish"])
             [] backend = "s3" /\ Allows(x) -> /\ Written(x.key, x.want)
                                               /\ Go(w, [x EXCEPT !.pc = "finish"])
             [] OTHER -> /\ Go(w, IF x.cond = Immutable /\ Read(x.key) = x.want
                                  THEN Confirmed(x) ELSE NoExec)
                         /\ Unwritten
        /\ Elsewhere

\* S3 is asked for the object again; the local backend writes the metadata.
Finish(w) ==
    LET x == exec[w]
    IN  /\ At(w, "finish")
        /\ IF backend = "local"
           THEN meta' = [meta EXCEPT ![x.key] = x.want] /\ UNCHANGED data /\ Go(w, Confirmed(x))
           ELSE Unwritten /\ Go(w, IF Read(x.key) = x.want THEN Confirmed(x) ELSE NoExec)
        /\ Elsewhere

\* The capability link is in what storing the candidate returns.
Readback(w) ==
    LET x == exec[w]
        good == Read(x.key) = x.want
    IN  /\ At(w, "readback")
        /\ Go(w, IF good THEN After(x) ELSE NoExec)
        /\ link' = IF good /\ x.key[1] = "manifest" THEN [link EXCEPT ![x.p] = x.want.n] ELSE link
        /\ UNCHANGED <<backend, required, data, meta, pending, seen, runs, visit, faults>>

-----------------------------------------------------------------------------
(* The promoter.                                                           *)

\* Stores the candidate, or reconciles a pending promotion the caller has kept.
Begin(w) ==
    /\ At(w, "idle") /\ runs < MaxRuns
    /\ runs' = runs + 1
    /\ \E p \in Builds :
         LET x == [NoExec EXCEPT !.p = p, !.n = runs + 1]
         IN  \/ /\ Go(w, Put(x, <<"index", p>>, [by |-> p, n |-> 0], Immutable))
                /\ UNCHANGED seen
             \/ \E before \in pending[p] :
                  /\ seen' = [seen EXCEPT ![runs + 1] = before]
                  /\ Go(w, [x EXCEPT !.pc = "receipt"])
    /\ UNCHANGED <<backend, required, data, meta, pending, link, visit, faults>>

CreatePending(w) ==
    LET current == Read(Pointer)
    IN  /\ At(w, "pending")
        /\ IF current = Broken THEN Give(w) /\ UNCHANGED <<pending, seen>>
           ELSE /\ pending' = [pending EXCEPT ![exec[w].p] = @ \cup {current}]
                /\ seen' = [seen EXCEPT ![exec[w].n] = current]
                /\ Go(w, [exec[w] EXCEPT !.pc = "receipt"])
        /\ UNCHANGED <<backend, required, data, meta, link, runs, visit, faults>>

\* Mutants: a receipt is written anew; one that cannot be read is taken over.
WithReceiptAnew(x, there) == Put(x, <<"receipt", x.p>>, [by |-> x.p, n |-> x.n], there)
WithReceiptUnread(x, there) ==
    IF there = Missing THEN WithReceiptAnew(x, Missing)
    ELSE [x EXCEPT !.pc = "readback", !.key = <<"receipt", x.p>>, !.want = there]

\* A receipt that is there and names the same pointer is taken over, with its time.
WithReceipt(x, there) ==
    IF there = Missing THEN Put(x, <<"receipt", x.p>>, [by |-> x.p, n |-> x.n], Missing)
    ELSE IF there = Broken \/ seen[there.n] # seen[x.n] THEN NoExec
    ELSE [x EXCEPT !.pc = "readback", !.key = <<"receipt", x.p>>, !.want = there]

Receipt(w) ==
    /\ At(w, "receipt")
    /\ Go(w, WithReceipt(exec[w], Read(<<"receipt", exec[w].p>>)))
    /\ Unwritten /\ Elsewhere

Index(w) ==
    LET x == exec[w]
        there == Read(<<"index", x.p>>)
    IN  /\ At(w, "index")
        /\ Go(w, IF there = Broken \/ (there = Missing /\ required) THEN NoExec
                 ELSE [x EXCEPT !.pc = "pointer"])
        /\ Unwritten /\ Elsewhere

\* Mutant: the pointer is swapped for the one just read.
SwapForCurrent(x) == Put(x, Pointer, [by |-> x.p, n |-> x.receipt], Read(Pointer))

\* For the pointer that the pending promotion has seen.
Swap(x) == Put(x, Pointer, [by |-> x.p, n |-> x.receipt], seen[x.n])

PutPointer(w) ==
    LET x == exec[w]
        there == Read(Pointer)
    IN  /\ At(w, "pointer")
        /\ Go(w, CASE there = Broken -> NoExec
                   [] there.by = x.p -> [x EXCEPT !.pc = "public", !.mine = there]
                   [] OTHER -> Swap(x))
        /\ Unwritten /\ Elsewhere

\* The public address is read where that is required; it may fail for any reason,
\* and shows another build if another one is active.
Public(w) ==
    LET x == exec[w]
    IN  /\ At(w, "public")
        /\ \/ (~required \/ Read(Pointer).by = x.p) /\ Give(w)
           \/ required /\ Go(w, [x EXCEPT !.pc = "restore"])
        /\ Unwritten /\ Elsewhere

\* The pointer that was there before is put back, under the condition that the
\* pointer is still this promotion's; where there was none, it is deleted.
Restore(w) ==
    LET x == exec[w]
        previous == seen[x.n]
    IN  /\ At(w, "restore")
        /\ Go(w, IF Read(Pointer) # x.mine THEN NoExec
                 ELSE IF previous # Missing THEN Put(x, Pointer, previous, x.mine)
                 ELSE [x EXCEPT !.pc = "delete"])
        /\ Unwritten /\ Elsewhere

Delete(w) ==
    /\ At(w, "delete")
    /\ Written(Pointer, Missing)
    /\ Give(w)
    /\ Elsewhere

\* The process dies, or a storage call fails, before or after it took effect.
Crash(w) ==
    /\ exec[w].pc # "idle" /\ faults < MaxFaults
    /\ faults' = faults + 1
    /\ Give(w)
    /\ UNCHANGED <<backend, required, data, meta, pending, seen, link, runs, visit>>

-----------------------------------------------------------------------------
(* The gateway.  A host without a pointer is answered 404.                 *)

See(x) == visit' = x
Answered(ok) == See([NoVisit EXCEPT !.out = IF ok THEN "none" ELSE "unavailable"])
Behind == UNCHANGED <<backend, required, data, meta, pending, seen, link, runs, exec, faults>>
Awaiting(pc) == visit.pc = pc /\ visit.out = "none"

Visit ==
    LET current == Read(Pointer)
    IN  /\ Awaiting("idle") /\ current # Missing
        /\ IF current = Broken THEN Answered(FALSE)
           ELSE See([NoVisit EXCEPT !.pc = "receipt", !.at = current])
        /\ Behind

\* The receipt's hash is in the pointer.
VisitReceipt ==
    /\ Awaiting("receipt")
    /\ IF Read(<<"receipt", visit.at.by>>) = visit.at THEN See([visit EXCEPT !.pc = "file"])
       ELSE Answered(FALSE)
    /\ Behind

VisitFile ==
    /\ Awaiting("file")
    /\ \E file \in {"index", "asset"} :
         Answered(Read(<<file, visit.at.by>>) = [by |-> visit.at.by, n |-> 0])
    /\ Behind

\* A candidate's link, before it expires: the manifest has the token's hash.
VisitCandidate ==
    /\ Awaiting("idle")
    /\ \E p \in Builds : \E file \in {"index", "asset"} :
         LET manifest == Read(<<"manifest", p>>)
         IN  /\ link[p] # 0
             /\ IF manifest = Broken THEN Answered(FALSE)
                ELSE IF manifest.n # link[p] THEN See([NoVisit EXCEPT !.out = "not_found"])
                ELSE Answered(Read(<<file, p>>) = [by |-> p, n |-> 0])
    /\ Behind

-----------------------------------------------------------------------------
Step(w) ==
    \/ Check(w) \/ Write(w) \/ Finish(w) \/ Readback(w)
    \/ Begin(w) \/ CreatePending(w) \/ Receipt(w) \/ Index(w) \/ PutPointer(w)
    \/ Public(w) \/ Restore(w) \/ Delete(w) \/ Crash(w)

Next == (\E w \in Workers : Step(w)) \/ Visit \/ VisitReceipt \/ VisitFile \/ VisitCandidate

Spec == Init /\ [][Next]_vars

-----------------------------------------------------------------------------
(* Properties.  They except the local backend: its lock is one process's,  *)
(* and a crash between its two files breaks an object for good.  Its       *)
(* docstring calls it one for local development and CI, yet every          *)
(* committed configuration but the tests' selects it (app.toml:177), for   *)
(* the API, the worker and the gateway alike (storage/preview.py:593).     *)

\* Whatever executions of whatever builds overlap, crash and run again, a pointer
\* that the gateway has read leads to its receipt and to the files of its build,
\* and a link that was given out to its candidate (gateway.py), on S3 and in memory.
PublishedIsServed == backend # "local" => visit.out = "none"

\* The receipts tell the pointer's history: it moves only from what the receipt of the
\* new promotion names as the one before it, back again, or away.  A promotion that was
\* overtaken, or that is reconciled late, replaces nothing (promotion.py, put_conditional),
\* on S3 and in memory.
PointerMovesAsSeen ==
    [][LET before == Read(Pointer)
           after == Read(Pointer)'
       IN  (backend # "local" /\ after # before) =>
             \/ after = Missing
             \/ seen[after.n] = before
             \/ before # Missing /\ seen[before.n] = after]_<<data, meta>>

=============================================================================
