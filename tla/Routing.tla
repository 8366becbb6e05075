------------------------------- MODULE Routing -------------------------------
(***************************************************************************)
(* The routed model calls of one process: which profiles an operation may  *)
(* use (agents/shared/model_router.py), in which order the in-process      *)
(* capacity registry puts them (model_quota.py), what each provider's      *)
(* adapter makes of an answer (providers/), and how the routed client      *)
(* goes from one profile to the next and reports the failure to the worker *)
(* (model_execution.py).  The usage reconciler refreshes the registry and  *)
(* an operator's preflights call the same adapters, beside the calls.      *)
(*                                                                         *)
(* ModelCalls has the durable side of a call, its cache and ledger, for    *)
(* two profiles; here the ledger only accepts or refuses, and the choice   *)
(* of profiles and the adapters are in full.  A step is what runs between  *)
(* two awaits.                                                             *)
(***************************************************************************)
EXTENDS Integers, FiniteSetsExt, Functions, Sequences

CONSTANTS
    Stages,      \* stage invocations, each with its RoutedModelClient
    Checks,      \* preflights of the profile a route uses first
    Profiles,    \* configured profiles
    Provider,    \* profile -> its provider
    Source,      \* profile -> its capacity source
    Retries,     \* profile -> max_retries
    Keyed,       \* profiles whose API key is set in the environment
    Native,      \* profiles with structured_output_mode native_json_schema
    Routes,      \* the operation routes a deployment may configure
    Limit,       \* the requests a minute a provider may report
    Ttl,         \* seconds a preflight receipt is good for
    MaxBusy,     \* bound: calls under way at once
    MaxNow,      \* bound: the clock
    MaxReported, \* bound: requests a provider reports as used
    MaxFaults    \* bound: cancellations, failed settlements and refreshes

NoProfile == "none"

\* The process checks at its start that a route's profiles are configured; that a
\* route has a primary, which is not Gemini, is so in config/models.toml.
ASSUME RoutingAssumption ==
    /\ Stages \cap Checks = {} /\ NoProfile \notin Profiles
    /\ \A r \in Routes :
          /\ r.primary \in Profiles /\ Provider[r.primary] # "gemini"
          /\ r.clean \in Profiles \cup {NoProfile} /\ r.fallbacks \in Seq(Profiles)
          /\ r.normal \in Nat /\ r.recovery \in Nat
    /\ Limit \in Nat \ {0} /\ Ttl \in Nat
    /\ MaxNow \in Nat /\ MaxReported \in Nat /\ MaxBusy \in Nat
    /\ MaxFaults \in Nat /\ \A p \in Profiles : Retries[p] \in Nat

VARIABLES
    route,   \* the operation's route, fixed when the process starts
    call,    \* the stage invocations and the preflights
    cap,     \* CapacityRegistry: a snapshot of each source
    receipt, \* the preflight cache: until when each profile's receipt is good
    now,
    faults   \* faults so far, at most MaxFaults

vars == <<route, call, cap, receipt, now, faults>>

Calls == Stages \cup Checks
Sources == {Source[p] : p \in Profiles}
\* The router treats an unknown packet as a personal one, and a synthetic one as
\* one that was sanitized.
Classes == {"personal", "sanitized"}
Clean == {"sanitized"}
\* What a failure means to the routed client: "passing" failures are retryable.
Results == {"good", "refused", "passing", "final", "cancelled"}

Call == [pc : {"idle", "reserve", "wait", "settle", "done", "failed", "cancelled"},
         class : Classes, names : Seq(Profiles), i : Nat, normal : Nat, recovery : Nat,
         sent : BOOLEAN,   \* OperationBudget.transmissions is not zero
         posts : Nat,      \* requests of this attempt
         asked : SUBSET Profiles, \* profiles that were sent this packet (history)
         open : Nat,       \* reservations not settled
         out : Results, delay : Nat, retry : BOOLEAN,
         why : {"none", "route", "ledger", "settlement", "provider"}]

\* limit 0 is an unknown limit, under which the use does not count and is left
\* out, as what exceeds the limit is; cool is cooldown_until.
Snapshot == [limit : {0, Limit}, used : 0 .. Limit, cool : Nat]

TypeOK ==
    /\ route \in Routes
    /\ call \in [Calls -> Call]
    /\ cap \in [Sources -> Snapshot]
    /\ receipt \in [Profiles -> Nat]
    /\ now \in 0 .. MaxNow
    /\ faults \in 0 .. MaxFaults

-----------------------------------------------------------------------------
(* Which profiles, in which order.                                         *)

\* A transport that is implemented, and a provider's own effort parameter: the
\* process does not start with a route that names any other profile.
Valid(p) == Provider[p] \in {"openai", "anthropic", "gemini"}
Referenced(r) == ({r.primary, r.clean} \ {NoProfile}) \cup Range(r.fallbacks)

GeminiAllowed(r, class) == r.gemini /\ (class \in Clean \/ r.personal)

\* The elements of s at the positions K, position k after those j with
\* <<j, k>> in before.
Picked(s, K, before) ==
    [n \in 1 .. Cardinality(K) |->
        s[CHOOSE k \in K : Cardinality({j \in K : <<j, k>> \in before}) = n - 1]]

\* The profiles of s among `allowed`, each where it is named first.
FirstOfEach(s, allowed) ==
    LET first == {k \in DOMAIN s : s[k] \in allowed /\ \A j \in 1 .. k - 1 : s[j] # s[k]}
    IN  Picked(s, first, {e \in first \X first : e[1] < e[2]})

\* Mutant: the packet's class is not looked at.
ProfileNamesOfAny(r, class) == FirstOfEach(<<r.primary>> \o r.fallbacks, Profiles)

\* The profiles a packet of the class may be sent to.
Allowed(r, class) == {p \in Profiles : Provider[p] = "gemini" => GeminiAllowed(r, class)}

ProfileNames(r, class) ==
    LET first == IF r.gemini /\ class \in Clean /\ r.clean # NoProfile THEN r.clean ELSE r.primary
        last == IF class \in Clean /\ r.clean # NoProfile THEN <<r.primary>> ELSE <<>>
    IN  FirstOfEach(<<first>> \o r.fallbacks \o last, Allowed(r, class))

\* utilization_ceiling is 0.8; nothing in the process reserves, so a source's use
\* is what was observed.  A score is in thousandths of the limit.
Score(s) ==
    IF cap[s].limit = 0 THEN 500
    ELSE Max({0, (800 * cap[s].limit - 1000 * cap[s].used) \div cap[s].limit})

Available(s) ==
    /\ cap[s].cool <= now
    /\ cap[s].limit = 0 \/ 10 * (cap[s].used + 1) <= 8 * cap[s].limit

\* The positions of names that have capacity left: the most first, ties as
\* configured.
Free(names) == {k \in DOMAIN names : Available(Source[names[k]])}
Roomier(names) ==
    LET score(k) == Score(Source[names[k]])
    IN  {e \in (1 .. Len(names)) \X (1 .. Len(names)) :
            score(e[1]) > score(e[2]) \/ (score(e[1]) = score(e[2]) /\ e[1] < e[2])}

\* The primary keeps its place, in cooldown or not.
Ordered(names) ==
    IF Len(names) <= 1 THEN names
    ELSE <<names[1]>> \o Picked(names, Free(names) \ {1}, Roomier(names))

\* Explorer's single profile is its own fallback.
Candidates(r, class) ==
    LET names == Ordered(ProfileNames(r, class))
    IN  IF r.explorer /\ Len(names) = 1 /\ r.recovery > 0 THEN names \o names ELSE names

-----------------------------------------------------------------------------
(* What an adapter makes of an answer.  "credit_text" is a 429 whose       *)
(* message, not its code, says the credit is spent; "schema" a 400 that    *)
(* refuses the response format.                                            *)

Statuses == {"401", "402", "403", "credit", "credit_text", "429", "408", "5xx", "filter", "4xx",
             "schema"}
Raised == {"timeout", "connection", "other"}
Bodies == {"garbled", "no_choice", "blank", "cut", "text", "list",
           "preamble", "fenced", "control", "object"}
Raw == Statuses \cup Raised \cup Bodies

HttpKind(status) ==
    CASE status \in {"401", "402", "403", "credit", "credit_text"} -> "refused"
      [] status = "429" -> "limited"
      [] status = "408" -> "timeout"
      [] status = "5xx" -> "broken"
      [] OTHER -> "final"

\* The delay the body asks for; a refusal of the content does not carry it.
Delays(raw) == IF raw \in Statuses \ {"filter"} THEN {0, 1} ELSE {0}

RaisedKind(raised, other) ==
    CASE raised = "timeout" -> "timeout"
      [] raised = "connection" -> "broken"
      [] raised = "other" -> other

\* The SDK's errors are all classified; an answer without a choice is not.  A JSON
\* object is found after a preamble, in a fence, or with raw control characters.
OpenAIKind(raw) ==
    CASE raw \in Raised -> RaisedKind(raw, "final")
      [] raw \in {"preamble", "fenced", "control", "object"} -> "good"
      [] raw = "no_choice" -> "defect"
      [] OTHER -> "broken"

\* Only the whole text is tried as JSON.
GeminiKind(raw) ==
    CASE raw \in Raised -> RaisedKind(raw, "defect")
      [] raw = "object" -> "good"
      [] OTHER -> "broken"

\* A fence is stripped and control characters are escaped.
AnthropicKind(raw) ==
    CASE raw \in Raised -> RaisedKind(raw, "defect")
      [] raw \in {"fenced", "control", "object"} -> "good"
      [] OTHER -> "broken"

Kind(provider, raw) ==
    IF raw \in Statuses THEN HttpKind(raw)
    ELSE CASE provider = "openai" -> OpenAIKind(raw)
           [] provider = "gemini" -> GeminiKind(raw)
           [] provider = "anthropic" -> AnthropicKind(raw)

\* `retryable` and `fallback_allowed` of the error's class; a defect is a
\* terminal failure for the stage as well.
Meaning(kind) ==
    CASE kind \in {"limited", "broken", "timeout"} -> "passing"
      [] kind = "defect" -> "final"
      [] OTHER -> kind

\* What an answer may come to, with the delay it asks for.  A valid object may
\* still be refused by the stage's validator.
Outcomes(provider, raws) ==
    {<<"passing", 0>>} \cup UNION {{Meaning(Kind(provider, raw))} \X Delays(raw) : raw \in raws}

\* The Anthropic adapter repeats these itself while max_retries allows.
Repeats == {"429", "credit_text", "5xx"}
Repeating(p, posts) == Provider[p] = "anthropic" /\ posts <= Retries[p]

\* The OpenAI adapter repeats a request whose schema was refused as a plain JSON
\* request, but not for a caller with a global attempt budget: an operation.
SchemaRepeats(p, posts, c) ==
    Provider[p] = "openai" /\ p \in Native /\ c \in Checks /\ posts = 1

OutcomesOf == [openai |-> Outcomes("openai", Raw), gemini |-> Outcomes("gemini", Raw),
               anthropic |-> Outcomes("anthropic", Raw),
               repeating |-> Outcomes("anthropic", Raw \ Repeats)]

Retryable(out) == out = "passing"

-----------------------------------------------------------------------------
NoCall == [pc |-> "idle", class |-> "personal", names |-> <<>>, i |-> 1, normal |-> 0,
           recovery |-> 0, sent |-> FALSE, posts |-> 0, asked |-> {}, open |-> 0, out |-> "good",
           delay |-> 0, retry |-> FALSE, why |-> "none"]

Init ==
    /\ route \in {r \in Routes : \A p \in Referenced(r) : Valid(p)}
    /\ call = [c \in Calls |-> NoCall]
    /\ cap = [s \in Sources |-> [limit |-> 0, used |-> 0, cool |-> 0]]
    /\ receipt = [p \in Profiles |-> 0]
    /\ now = 0 /\ faults = 0

At(c, pc) == call[c].pc = pc
Busy == {c \in Calls : call[c].pc \in {"reserve", "wait", "settle"}}
Set(c, x) == call' = [call EXCEPT ![c] = x]
Fault == faults < MaxFaults /\ faults' = faults + 1
Current(c) == call[c].names[call[c].i]

-----------------------------------------------------------------------------
(* A stage's calls.  Everything from the choice of the profiles to the     *)
(* reservation runs without an await.                                      *)

\* The end of a stage or a preflight, with what is left behind.
Ended(x, pc, retry, why) ==
    [NoCall EXCEPT !.pc = pc, !.sent = x.sent, !.open = x.open, !.retry = retry, !.why = why]
Failed(x, retry, why) == Ended(x, "failed", retry, why)

Start(c) ==
    /\ c \in Stages /\ At(c, "idle") /\ call[c].normal < route.normal
    /\ Cardinality(Busy) < MaxBusy
    /\ \E class \in Classes :
         LET names == Candidates(route, class)
         IN  Set(c, IF names = <<>> THEN Failed(call[c], FALSE, "route")
                    ELSE [call[c] EXCEPT !.pc = "reserve", !.class = class, !.names = names,
                                         !.i = 1, !.normal = @ + 1, !.asked = {}])
    /\ UNCHANGED <<route, cap, receipt, now, faults>>

\* The session's routing policy is not this process's, or the input is too large.
Reject(c) ==
    /\ c \in Stages /\ At(c, "idle") /\ call[c].normal < route.normal
    /\ Set(c, Failed(call[c], FALSE, "route"))
    /\ UNCHANGED <<route, cap, receipt, now, faults>>

\* The reservation is committed: the request goes out, unless the profile has no
\* key, which is found after the transmission was counted.
Send(c) ==
    LET p == Current(c)
        x == [call[c] EXCEPT !.sent = c \in Stages, !.open = @ + 1]
    IN  /\ At(c, "reserve")
        /\ Set(c, IF p \in Keyed
                  THEN [x EXCEPT !.pc = "wait", !.posts = 1, !.asked = @ \cup {p}]
                  ELSE [x EXCEPT !.pc = "settle", !.out = "refused", !.delay = 0])
        /\ UNCHANGED <<route, cap, receipt, now, faults>>

\* The ledger refuses: no capacity or no database, which a redelivery may try
\* again, or the operation's allowance is used up.  The clause for a capacity
\* error is never entered: the ledger raises it as a persistence error.
Denied(c) ==
    /\ At(c, "reserve")
    /\ \E again \in BOOLEAN : Set(c, Failed(call[c], again, "ledger"))
    /\ UNCHANGED <<route, cap, receipt, now, faults>>

Answer(c) ==
    LET p == Current(c)
        posts == call[c].posts
    IN  /\ At(c, "wait")
        /\ \/ \E out \in OutcomesOf[IF Repeating(p, posts) THEN "repeating" ELSE Provider[p]] :
                 Set(c, [call[c] EXCEPT !.pc = "settle", !.out = out[1],
                                        !.delay = IF c \in Stages THEN out[2] ELSE 0])
           \/ /\ Repeating(p, posts) \/ SchemaRepeats(p, posts, c)
              /\ Set(c, [call[c] EXCEPT !.posts = @ + 1])
        /\ UNCHANGED <<route, cap, receipt, now, faults>>

MarkSuccess(s) == cap' = [cap EXCEPT ![s].used = Min({@ + 1, cap[s].limit})]

MarkFailure(s, delay) ==
    cap' = [cap EXCEPT ![s].cool = IF delay > 0 THEN Max({@, now + delay}) ELSE @]

\* Credentials, configuration or spent credit lead on to Gemini only; a failure
\* that is none of the provider's leads nowhere.
CanRecover(x) ==
    /\ x.i < Len(x.names) /\ x.recovery < route.recovery
    /\ IF x.out = "refused"
       THEN Provider[x.names[x.i]] # "gemini" /\ Provider[x.names[x.i + 1]] = "gemini"
       ELSE Retryable(x.out)

\* A failure after a transmission is not for a redelivery to try again.
Failure(x) == Failed(x, Retryable(x.out) /\ ~x.sent, "provider")

\* Mutants: a failed attempt is not settled; an attempt is settled again at the end.
SettledIfGood(x) == [x EXCEPT !.open = IF x.out = "good" THEN @ - 1 ELSE @, !.posts = 0]
SettledTwice(x) == [x EXCEPT !.open = @ - 2, !.posts = 0]

Settled(x) == [x EXCEPT !.open = @ - 1, !.posts = 0]

\* The settlement is written, then the registry told, then the next profile tried.
Settle(c) ==
    LET x == Settled(call[c])
        s == Source[Current(c)]
    IN  /\ c \in Stages /\ At(c, "settle")
        /\ Set(c, IF x.out = "good"
                  THEN IF x.normal < route.normal
                       THEN [NoCall EXCEPT !.normal = x.normal, !.recovery = x.recovery,
                                           !.sent = x.sent]
                       ELSE Ended(x, "done", FALSE, "none")
                  ELSE IF CanRecover(x)
                  THEN [x EXCEPT !.pc = "reserve", !.i = @ + 1, !.recovery = @ + 1, !.out = "good",
                                 !.delay = 0]
                  ELSE Failure(x))
        /\ IF x.out = "good" THEN MarkSuccess(s) ELSE MarkFailure(s, x.delay)
        /\ UNCHANGED <<route, receipt, now, faults>>

\* The settlement cannot be written: nothing is tried after that.
SettleFails(c) ==
    /\ At(c, "settle") /\ Fault
    /\ Set(c, Failed(call[c], FALSE, "settlement"))
    /\ UNCHANGED <<route, cap, receipt, now>>

\* The worker's timeout, or its stop, cancels the call where it waits: `except
\* Exception` settles nothing.  A reservation or a settlement that is being
\* committed may or may not be.
Cancel(c) ==
    /\ c \in Stages /\ call[c].pc \in {"reserve", "wait", "settle"} /\ Fault
    /\ \E committed \in BOOLEAN :
         LET change == CASE At(c, "reserve") /\ committed -> 1
                         [] At(c, "settle") /\ committed -> -1
                         [] OTHER -> 0
         IN  Set(c, Ended([call[c] EXCEPT !.open = @ + change], "cancelled", FALSE, "none"))
    /\ UNCHANGED <<route, cap, receipt, now>>

-----------------------------------------------------------------------------
(* Preflights: one request to the route's first profile for personal       *)
(* input, outside the routed client and the registry.                      *)

Preflight(c) ==
    LET names == ProfileNames(route, "personal")
    IN  /\ c \in Checks /\ At(c, "idle") /\ Cardinality(Busy) < MaxBusy
        /\ IF names = <<>> THEN Set(c, Failed(call[c], FALSE, "route"))
           ELSE IF receipt[names[1]] > now THEN Set(c, Ended(call[c], "done", FALSE, "none"))
           ELSE Set(c, [call[c] EXCEPT !.pc = "reserve", !.names = <<names[1]>>])
        /\ UNCHANGED <<route, cap, receipt, now, faults>>

\* Its client settles in every case; a receipt needs the envelope it asked for.
SettleCheck(c) ==
    LET x == Settled(call[c])
    IN  /\ c \in Checks /\ At(c, "settle")
        /\ \/ /\ x.out = "good"
              /\ receipt' = [receipt EXCEPT ![Current(c)] = now + Ttl]
              /\ Set(c, Ended(x, "done", FALSE, "none"))
           \/ /\ Set(c, Failed(x, FALSE, "provider"))
              /\ UNCHANGED receipt
        /\ UNCHANGED <<route, cap, now, faults>>

CancelCheck(c) ==
    /\ c \in Checks /\ At(c, "wait") /\ Fault
    /\ Set(c, [call[c] EXCEPT !.pc = "settle", !.out = "cancelled", !.delay = 0])
    /\ UNCHANGED <<route, cap, receipt, now>>

-----------------------------------------------------------------------------
(* The usage reconciler.                                                   *)

\* What a provider reports: a total, or events and perhaps a daily summary whose
\* rows are counted like events.  Gemini's catalog says nothing of either.
Reports == [limit : {0, Limit}, total : {-1} \cup 0 .. MaxReported, events : 0 .. MaxReported,
            daily : 0 .. 1]
Usage(r) == IF r.total >= 0 THEN r.total ELSE r.events + r.daily
Unreported == [limit |-> 0, total |-> 0, events |-> 0, daily |-> 0]
Reported(s) ==
    LET providers == {Provider[p] : p \in {q \in Keyed : Source[q] = s}}
    IN  (IF "openai" \in providers THEN Reports ELSE {})
        \cup (IF "gemini" \in providers THEN {Unreported} ELSE {})

\* Mutant: the new snapshot replaces the old one whole.
ObservedFresh(s, r) == [limit |-> r.limit, used |-> Min({Usage(r), r.limit}), cool |-> 0]

Observed(s, r) == [limit |-> r.limit, used |-> Min({Usage(r), r.limit}), cool |-> cap[s].cool]

Reconcile(s) ==
    /\ Fault
    /\ \E seen \in {Observed(s, r) : r \in Reported(s)} : cap' = [cap EXCEPT ![s] = seen]
    /\ UNCHANGED <<route, call, receipt, now>>

Tick ==
    /\ now < MaxNow
    /\ now' = now + 1
    /\ UNCHANGED <<route, call, cap, receipt, faults>>

Step(c) == Send(c) \/ Denied(c) \/ Answer(c) \/ Settle(c) \/ SettleCheck(c)

Next ==
    \/ \E c \in Calls : Step(c) \/ Start(c) \/ Reject(c) \/ SettleFails(c) \/ Cancel(c)
                        \/ Preflight(c) \/ CancelCheck(c)
    \/ \E s \in Sources : Reconcile(s)
    \/ Tick

Spec == Init /\ [][Next]_vars

-----------------------------------------------------------------------------
(* Properties.                                                             *)

\* Whatever the registry knows of the sources, and whoever fails, a call starts
\* with the profile its route puts first, and a packet that is not clean reaches
\* Gemini only where the route opts in twice, and as a fallback.
PacketsGoWhereAllowed ==
    \A c \in Stages :
        LET x == call[c]
            first == IF x.class \in Clean THEN {route.primary, route.clean} ELSE {route.primary}
        IN  /\ x.names # <<>> => x.names[1] \in first
            /\ \A p \in x.asked :
                 Provider[p] = "gemini" /\ x.class \notin Clean => route.gemini /\ route.personal

\* A reservation that is left open is that of a request in flight, of one attempt
\* that was cut off, or of a settlement that could not be written.
OpenIsAccounted ==
    \A c \in Calls :
        /\ call[c].open <= 1
        /\ call[c].open = 1 => \/ call[c].pc \in {"wait", "settle", "cancelled"}
                              \/ (At(c, "failed") /\ call[c].why = "settlement")

\* No call that fails beside another, and no refresh by the reconciler, shortens
\* the cooldown a provider asked for.
CooldownKept == [][\A s \in Sources : cap'[s].cool >= cap[s].cool]_cap

=============================================================================
