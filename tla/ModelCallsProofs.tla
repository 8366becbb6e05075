-------------------------- MODULE ModelCallsProofs --------------------------
(***************************************************************************)
(* What holds of ModelCalls for every number of executions, steps and      *)
(* profiles, every allowance and every size of a window.  The invariant    *)
(* ties the three books of a call together: an execution's place in its    *)
(* stage to the attempts it has on file (Slots), the windows' counters to  *)
(* the attempts of all executions (Counted), and a run's transmissions,    *)
(* with those reserved and about to be sent, to its allowance (Booked).    *)
(***************************************************************************)
EXTENDS ModelCalls, TLAPS, FiniteSetTheorems, FunctionTheorems

Slot == Execs \X Calls \X {1, 2}

\* What execution e, in state x, has on file.
Unused(at, e, k) == \A i \in {1, 2} : at[<<e, k, i>>].st = "none"
Slots(e, x, at) ==
    /\ x.pc \in {"idle", "claim", "hit", "admit"} =>
          \A k \in Calls : (x.pc = "idle" \/ k >= x.k) => Unused(at, e, k)
    /\ x.pc \in {"reserve", "send", "answer", "settle", "store", "insert", "drop"} =>
          \A k \in Calls : k > x.k => Unused(at, e, k)
    /\ x.pc = "reserve" => at[<<e, x.k, x.i>>].st = "none"
    /\ x.pc \in {"reserve", "send", "answer", "settle"} /\ x.i = 1 =>
          at[<<e, x.k, 2>>].st = "none"
    /\ x.pc \in {"send", "answer", "settle"} =>
          at[<<e, x.k, x.i>>].st = "reserved" /\ at[<<e, x.k, x.i>>].res = "reserved"

\* The attempts a window counts.
Of(at, w) == {a \in Slot : /\ at[a].profile = w[1] /\ at[a].st # "none"
                           /\ (w[2] = 0 \/ at[a].min = w[2])}
Reserved(at, w) == {a \in Of(at, w) : at[a].res # "settled"}
Observed(at, w) == {a \in Of(at, w) : at[a].st = "succeeded"}
Limit(w) == IF w[2] = 0 THEN DayRoom ELSE Room
Counted(at, wi) ==
    /\ \A a \in Slot : at[a].st # "none" => at[a].min # 0
    /\ \A w \in Profiles \X Windows :
          /\ wi[w].reserved = Cardinality(Reserved(at, w))
          /\ wi[w].observed = Cardinality(Observed(at, w))
          /\ wi[w].reserved + wi[w].observed <= Limit(w)

\* A row is produced under its call's own key, by an execution at work on it.
WorksOn(x, q) ==
    x.pc \in {"crashed", "cancelled", "aborted"} \/ (x.pc \in Working /\ x.k = q[1])
RowSound(q, v, xs) ==
    /\ v.st = "ready" => v.made = q[2]
    /\ v.st = "producing" => v.by \in Execs /\ q[2] = Primary /\ WorksOn(xs[v.by], q)
RowsSound(ro, xs) == \A q \in Calls \X Profiles : RowSound(q, ro[q], xs)

\* The requests a run has reserved and is about to send.
Due(xs, r) == {e \in Execs : RunOf(e) = r /\ xs[e].pc = "send"}
Booked(se, o, xs) ==
    \A r \in Runs :
        /\ se[r] + Cardinality(Due(xs, r)) <= o[r].normal + o[r].recovery
        /\ o[r].normal <= NormalCalls /\ o[r].recovery <= RecoveryAllowance

IInv ==
    /\ TypeOK
    /\ \A e \in Execs : Slots(e, ex[e], att)
    /\ Counted(att, win)
    /\ RowsSound(row, ex)
    /\ Booked(sent, op, ex)

-----------------------------------------------------------------------------
(* Types.                                                                  *)

Window == Profiles \X Windows
Attempts(at) == at \in [Slot -> Attempt]
Counters(wi) == wi \in [Window -> [reserved : Nat, observed : Nat]]

LEMMA AnswersTyped == Answers \subseteq Outcome
<1>1. \A status \in {"401", "402", "403", "credit", "429", "408", "5xx", "4xx"} :
        HttpOutcome(status) \in Outcome
  BY DEF HttpOutcome, Outcome
<1>2. \A raised \in {"timeout", "connection", "unclassified", "401", "402", "403", "credit",
                     "429", "408", "5xx", "4xx"} : SdkOutcome(raised) \in Outcome
  BY <1>1 DEF SdkOutcome, Outcome
<1>3. \A reply : ReplyOutcome(reply) \in Outcome
  BY DEF ReplyOutcome, Outcome
<1>4. QED BY <1>2, <1>3 DEF Answers

LEMMA NoExecTyped == NoExec \in Exec /\ 1 \in Calls
  BY ModelCallsAssumption DEF NoExec, Exec, Calls, Outcome, Profiles

LEMMA NowTyped ==
    ASSUME TypeOK, NEW e \in Execs
    PROVE  Now(e) \in Profiles /\ Primary \in Profiles
  BY DEF TypeOK, Exec, Now, Profiles

LEMMA SlotFacts ==
    /\ IsFiniteSet(Slot)
    /\ \A e \in Execs, k \in Calls, i \in {1, 2} : <<e, k, i>> \in Slot
<1>1. IsFiniteSet(Calls) /\ IsFiniteSet({1, 2})
  <2>1. {1, 2} = 1 .. 2
    OBVIOUS
  <2>2. IsFiniteSet(1 .. 2)
    <3>1. 1 \in Int /\ 2 \in Int
      OBVIOUS
    <3>2. QED BY <3>1, FS_Interval
  <2>3. IsFiniteSet(1 .. Steps)
    <3>1. 1 \in Int /\ Steps \in Int
      BY ModelCallsAssumption
    <3>2. QED BY <3>1, FS_Interval
  <2>4. QED BY <2>1, <2>2, <2>3 DEF Calls
<1>2. IsFiniteSet(Calls \X {1, 2})
  BY <1>1, FS_Product
<1>3. IsFiniteSet(Execs \X (Calls \X {1, 2}))
  BY <1>2, ModelCallsAssumption, FS_Product
<1>4. QED
  <2> DEFINE f == [p \in Execs \X (Calls \X {1, 2}) |-> <<p[1], p[2][1], p[2][2]>>]
  <2>1. f \in Surjection(Execs \X (Calls \X {1, 2}), Slot)
    <3>1. f \in [Execs \X (Calls \X {1, 2}) -> Slot]
      BY DEF Slot
    <3>2. \A a \in Slot : \E p \in Execs \X (Calls \X {1, 2}) : f[p] = a
      <4>1. ASSUME NEW e \in Execs, NEW k \in Calls, NEW i \in {1, 2}
            PROVE  /\ <<e, <<k, i>>>> \in Execs \X (Calls \X {1, 2})
                   /\ f[<<e, <<k, i>>>>] = <<e, k, i>>
        OBVIOUS
      <4>2. ASSUME NEW a \in Slot PROVE \E p \in Execs \X (Calls \X {1, 2}) : f[p] = a
        <5>1. PICK e \in Execs, k \in Calls, i \in {1, 2} : a = <<e, k, i>>
          BY DEF Slot
        <5> HIDE DEF f
        <5>2. QED BY <4>1, <5>1
      <4>3. QED BY <4>2
    <3>3. QED BY <3>1, <3>2, Fun_IsSurj
  <2>2. IsFiniteSet(Slot)
    BY <1>3, <2>1, FS_Surjection
  <2>3. QED BY <2>2 DEF Slot

-----------------------------------------------------------------------------
(* The windows count the attempts.                                         *)

Entered(at, a, x) == [at EXCEPT ![a] = x]
CountedBy(x, w) == x.profile = w[1] /\ (w[2] = 0 \/ x.min = w[2])

LEMMA OfIsFinite ==
    ASSUME NEW at, NEW w
    PROVE  IsFiniteSet(Reserved(at, w)) /\ IsFiniteSet(Observed(at, w))
<1>1. Reserved(at, w) \subseteq Slot /\ Observed(at, w) \subseteq Slot
  BY DEF Reserved, Observed, Of
<1>2. QED BY <1>1, SlotFacts, FS_Subset

LEMMA AttemptAdded ==
    ASSUME NEW at, Attempts(at), NEW a \in Slot, at[a].st = "none",
           NEW x \in Attempt, x.st = "reserved", x.res = "reserved",
           NEW at2, at2 = Entered(at, a, x), NEW w
    PROVE  /\ Observed(at2, w) = Observed(at, w) /\ a \notin Reserved(at, w)
           /\ Reserved(at2, w) = IF CountedBy(x, w) THEN Reserved(at, w) \cup {a}
                                 ELSE Reserved(at, w)
<1>1. \A b \in Slot : at2[b] = IF b = a THEN x ELSE at[b]
  BY DEF Attempts, Entered
<1>2. QED BY <1>1 DEF Reserved, Observed, Of, CountedBy

LEMMA AttemptSettled ==
    ASSUME NEW at, Attempts(at), NEW a \in Slot, at[a].st = "reserved", at[a].res = "reserved",
           NEW x \in Attempt, x.st \in {"succeeded", "failed"}, x.res \in {"settled", "unresolved"},
           x.profile = at[a].profile, x.min = at[a].min,
           NEW at2, at2 = Entered(at, a, x), NEW w
    PROVE  IF CountedBy(x, w)
           THEN /\ a \in Reserved(at, w) /\ a \notin Observed(at, w)
                /\ Reserved(at2, w) = IF x.res = "settled" THEN Reserved(at, w) \ {a}
                                      ELSE Reserved(at, w)
                /\ Observed(at2, w) = IF x.st = "succeeded" THEN Observed(at, w) \cup {a}
                                      ELSE Observed(at, w)
           ELSE Reserved(at2, w) = Reserved(at, w) /\ Observed(at2, w) = Observed(at, w)
<1>1. \A b \in Slot : at2[b] = IF b = a THEN x ELSE at[b]
  BY DEF Attempts, Entered
<1>2. CASE CountedBy(x, w)
  <2>1. Reserved(at2, w) = IF x.res = "settled" THEN Reserved(at, w) \ {a} ELSE Reserved(at, w)
    BY <1>1, <1>2, ZenonT(20) DEF Reserved, Of, CountedBy
  <2>2. Observed(at2, w) = IF x.st = "succeeded" THEN Observed(at, w) \cup {a} ELSE Observed(at, w)
    BY <1>1, <1>2 DEF Observed, Of, CountedBy
  <2>3. QED BY <1>2, <2>1, <2>2 DEF Reserved, Observed, Of, CountedBy
<1>3. CASE ~ CountedBy(x, w)
  BY <1>1, <1>3 DEF Reserved, Observed, Of, CountedBy
<1>4. QED BY <1>2, <1>3

\* A reservation that every window it belongs to has room for.
LEMMA ReservedCounted ==
    ASSUME NEW at, Attempts(at), NEW wi, Counters(wi), Counted(at, wi),
           NEW a \in Slot, at[a].st = "none",
           NEW x \in Attempt, x.st = "reserved", x.res = "reserved", x.min # 0,
           \A w \in Window : CountedBy(x, w) => wi[w].reserved + wi[w].observed < Limit(w),
           NEW at2, at2 = Entered(at, a, x),
           NEW wi2, Counters(wi2),
           \A w \in Window : /\ wi2[w].observed = wi[w].observed
                             /\ wi2[w].reserved = IF CountedBy(x, w) THEN wi[w].reserved + 1
                                                  ELSE wi[w].reserved
    PROVE  Counted(at2, wi2)
<1>1. \A b \in Slot : at2[b].st # "none" => at2[b].min # 0
  BY DEF Counted, Attempts, Entered
<1>2. ASSUME NEW w \in Window
      PROVE  /\ wi2[w].reserved = Cardinality(Reserved(at2, w))
             /\ wi2[w].observed = Cardinality(Observed(at2, w))
             /\ wi2[w].reserved + wi2[w].observed <= Limit(w)
  <2>1. /\ wi[w].reserved = Cardinality(Reserved(at, w))
        /\ wi[w].observed = Cardinality(Observed(at, w))
        /\ wi[w].reserved + wi[w].observed <= Limit(w)
        /\ wi[w].reserved \in Nat /\ wi[w].observed \in Nat /\ Limit(w) \in Nat
    BY ModelCallsAssumption DEF Counted, Counters, Window, Limit
  <2>2. /\ Observed(at2, w) = Observed(at, w) /\ a \notin Reserved(at, w)
        /\ Reserved(at2, w) = IF CountedBy(x, w) THEN Reserved(at, w) \cup {a}
                              ELSE Reserved(at, w)
    BY AttemptAdded
  <2>3. Cardinality(Reserved(at, w) \cup {a}) = Cardinality(Reserved(at, w)) + 1
    BY <2>2, OfIsFinite, FS_AddElement
  <2>4. CASE CountedBy(x, w)
    BY <2>1, <2>2, <2>3, <2>4
  <2>5. CASE ~ CountedBy(x, w)
    BY <2>1, <2>2, <2>5
  <2>6. QED BY <2>4, <2>5
<1>3. QED BY <1>1, <1>2 DEF Counted, Window

\* A settlement gives the reservation back, or leaves it where it is uncertain.
LEMMA SettledCounted ==
    ASSUME NEW at, Attempts(at), NEW wi, Counters(wi), Counted(at, wi),
           NEW a \in Slot, at[a].st = "reserved", at[a].res = "reserved",
           NEW x \in Attempt, x.st \in {"succeeded", "failed"}, x.res \in {"settled", "unresolved"},
           x.profile = at[a].profile, x.min = at[a].min, x.st = "succeeded" => x.res = "settled",
           NEW at2, at2 = Entered(at, a, x),
           NEW wi2,
           \A w \in Window :
              IF CountedBy(x, w) /\ x.res = "settled"
              THEN /\ wi2[w].reserved = wi[w].reserved - (IF wi[w].reserved > 0 THEN 1 ELSE 0)
                   /\ wi2[w].observed = wi[w].observed + (IF x.st = "succeeded" THEN 1 ELSE 0)
              ELSE wi2[w] = wi[w]
    PROVE  Counted(at2, wi2)
<1>1. \A b \in Slot : at2[b].st # "none" => at2[b].min # 0
  BY DEF Counted, Attempts, Entered
<1>2. ASSUME NEW w \in Window
      PROVE  /\ wi2[w].reserved = Cardinality(Reserved(at2, w))
             /\ wi2[w].observed = Cardinality(Observed(at2, w))
             /\ wi2[w].reserved + wi2[w].observed <= Limit(w)
  <2>1. /\ wi[w].reserved = Cardinality(Reserved(at, w))
        /\ wi[w].observed = Cardinality(Observed(at, w))
        /\ wi[w].reserved + wi[w].observed <= Limit(w)
        /\ wi[w].reserved \in Nat /\ wi[w].observed \in Nat /\ Limit(w) \in Nat
    BY ModelCallsAssumption DEF Counted, Counters, Window, Limit
  <2>2. CASE CountedBy(x, w) /\ x.res = "settled"
    <3>1. /\ a \in Reserved(at, w) /\ a \notin Observed(at, w)
          /\ Reserved(at2, w) = Reserved(at, w) \ {a}
          /\ Observed(at2, w) = IF x.st = "succeeded" THEN Observed(at, w) \cup {a}
                                ELSE Observed(at, w)
      BY <2>2, AttemptSettled
    <3>2. Cardinality(Reserved(at, w) \ {a}) = Cardinality(Reserved(at, w)) - 1
      BY <3>1, OfIsFinite, FS_RemoveElement
    <3>3. Cardinality(Observed(at, w) \cup {a}) = Cardinality(Observed(at, w)) + 1
      BY <3>1, OfIsFinite, FS_AddElement
    <3>4. Cardinality(Reserved(at2, w)) \in Nat
      BY OfIsFinite, FS_CardinalityType
    <3>5. wi[w].reserved > 0
      BY <2>1, <3>1, <3>2, <3>4
    <3>6. QED BY <2>1, <2>2, <3>1, <3>2, <3>3, <3>5
  <2>3. CASE ~ (CountedBy(x, w) /\ x.res = "settled")
    <3>1. Reserved(at2, w) = Reserved(at, w) /\ Observed(at2, w) = Observed(at, w)
      BY <2>3, AttemptSettled
    <3>2. QED BY <2>1, <2>3, <3>1
  <2>4. QED BY <2>2, <2>3
<1>3. QED BY <1>1, <1>2 DEF Counted, Window

-----------------------------------------------------------------------------
(* One execution's step.                                                   *)

Rows(ro) == ro \in [Calls \X Profiles -> Row]
Stepped(xs, xs2, e, y) == xs2 = [xs EXCEPT ![e] = y]

LEMMA SteppedFacts ==
    ASSUME NEW xs, xs \in [Execs -> Exec], NEW e \in Execs, NEW y \in Exec, NEW xs2,
           Stepped(xs, xs2, e, y)
    PROVE  xs2 \in [Execs -> Exec] /\ xs2[e] = y /\ \A d \in Execs : d # e => xs2[d] = xs[d]
  BY DEF Stepped

LEMMA KeyFacts ==
    ASSUME TypeOK, NEW e \in Execs
    PROVE  /\ Key(e) \in Calls \X Profiles /\ Key(e)[1] = ex[e].k /\ Key(e)[2] = Primary
           /\ \A q \in Calls \X Profiles : q[1] = ex[e].k /\ q[2] = Primary => q = Key(e)
  BY DEF TypeOK, Exec, Key, Profiles

\* A step that leaves each row as it is or makes it sound, and leaves no row to
\* an execution that no longer works on it.
LEMMA RowsStep ==
    ASSUME NEW ro, NEW xs, xs \in [Execs -> Exec], RowsSound(ro, xs),
           NEW e \in Execs, NEW y \in Exec, NEW xs2, Stepped(xs, xs2, e, y), NEW ro2,
           \A q \in Calls \X Profiles : ro2[q] = ro[q] \/ RowSound(q, ro2[q], xs2),
           \A q \in Calls \X Profiles :
              /\ ro2[q] = ro[q] /\ ro[q].st = "producing" /\ ro[q].by = e
              /\ q[2] = Primary /\ WorksOn(xs[e], q)
              => WorksOn(y, q)
    PROVE  RowsSound(ro2, xs2)
<1>1. ASSUME NEW q \in Calls \X Profiles, ro2[q] = ro[q] PROVE RowSound(q, ro2[q], xs2)
  <2>1. RowSound(q, ro[q], xs)
    BY DEF RowsSound
  <2>2. ro[q].st = "producing" => WorksOn(xs2[ro[q].by], q)
    BY <1>1, <2>1, SteppedFacts DEF RowSound
  <2>3. QED BY <1>1, <2>1, <2>2 DEF RowSound
<1>2. QED BY <1>1 DEF RowsSound

\* A step of one execution that leaves the ledger alone.
LEMMA QuietStep ==
    ASSUME IInv, NEW e \in Execs, NEW y \in Exec, Stepped(ex, ex', e, y),
           UNCHANGED <<op, att, win, sent, second, minute>>,
           Rows(row'), off' = off, faults' \in 0 .. MaxFaults,
           Slots(e, y, att), y.pc = "send" => ex[e].pc = "send", RowsSound(row', ex')
    PROVE  IInv'
<1>1. ex \in [Execs -> Exec]
  BY DEF IInv, TypeOK
<1>2. ex' \in [Execs -> Exec] /\ ex'[e] = y /\ \A d \in Execs : d # e => ex'[d] = ex[d]
  BY <1>1, SteppedFacts
<1>3. TypeOK'
  BY <1>2 DEF IInv, TypeOK, Rows
<1>4. \A d \in Execs : Slots(d, ex'[d], att')
  BY <1>2 DEF IInv
<1>5. Counted(att', win')
  BY DEF IInv
<1>6. Booked(sent', op', ex')
  <2>1. ASSUME NEW r \in Runs
        PROVE  /\ sent[r] + Cardinality(Due(ex', r)) <= op[r].normal + op[r].recovery
               /\ op[r].normal <= NormalCalls /\ op[r].recovery <= RecoveryAllowance
    <3>1. Due(ex', r) \subseteq Due(ex, r)
      BY <1>2 DEF Due
    <3>2. IsFiniteSet(Due(ex, r))
      <4>1. Due(ex, r) \subseteq Execs
        BY DEF Due
      <4>2. QED BY <4>1, ModelCallsAssumption, FS_Subset
    <3>3. /\ Cardinality(Due(ex', r)) <= Cardinality(Due(ex, r))
          /\ Cardinality(Due(ex', r)) \in Nat /\ Cardinality(Due(ex, r)) \in Nat
      BY <3>1, <3>2, FS_Subset, FS_CardinalityType
    <3>4. sent[r] \in Nat /\ op[r].normal \in Nat /\ op[r].recovery \in Nat
      BY DEF IInv, TypeOK
    <3>5. sent[r] + Cardinality(Due(ex, r)) <= op[r].normal + op[r].recovery
      BY DEF IInv, Booked
    <3>6. QED BY <3>3, <3>4, <3>5 DEF IInv, Booked
  <2>2. QED BY <2>1 DEF Booked
<1>7. QED BY <1>3, <1>4, <1>5, <1>6 DEF IInv

\* The same, of a step that leaves the rows alone as well.
LEMMA QuietRows ==
    ASSUME IInv, NEW e \in Execs, NEW y \in Exec, Stepped(ex, ex', e, y),
           UNCHANGED <<row, op, att, win, off, sent, second, minute>>,
           faults' \in 0 .. MaxFaults,
           Slots(e, y, att), y.pc = "send" => ex[e].pc = "send",
           \A q \in Calls \X Profiles : WorksOn(ex[e], q) => WorksOn(y, q)
    PROVE  IInv'
<1>1. RowsSound(row', ex')
  <2>1. ex \in [Execs -> Exec] /\ RowsSound(row, ex) /\ row' = row
    BY DEF IInv, TypeOK
  <2>2. QED BY <2>1, RowsStep
<1>2. Rows(row') /\ off' = off
  BY DEF IInv, TypeOK, Rows
<1>3. QED BY <1>1, <1>2, QuietStep

LEMMA ExecFacts ==
    ASSUME IInv, NEW e \in Execs
    PROVE  /\ ex[e] \in Exec /\ Slots(e, ex[e], att) /\ RowsSound(row, ex) /\ Rows(row)
           /\ ex \in [Execs -> Exec] /\ faults \in 0 .. MaxFaults
           /\ Now(e) \in Profiles /\ Primary \in Profiles
           /\ row \in [Calls \X Profiles -> Row]
  BY NowTyped DEF IInv, TypeOK, Rows

LEMMA FaultCounted ==
    ASSUME TypeOK, Fault \/ UNCHANGED faults
    PROVE  faults' \in 0 .. MaxFaults
  BY ModelCallsAssumption DEF TypeOK, Fault

-----------------------------------------------------------------------------
(* The actions.                                                            *)

LEMMA BeginKeeps ==
    ASSUME IInv, NEW e \in Execs, Begin(e) PROVE IInv'
<1> DEFINE y == [ex[e] EXCEPT !.pc = "claim"]
<1>1. y \in Exec /\ y.pc = "claim" /\ y.k = ex[e].k /\ ex[e].pc = "idle"
  BY ExecFacts DEF Exec, Begin, At
<1>2. Stepped(ex, ex', e, y)
  BY DEF Begin, Go, Stepped
<1>3. faults' \in 0 .. MaxFaults
  BY FaultCounted DEF Begin, IInv
<1> HIDE DEF y
<1>4. Slots(e, y, att)
  BY <1>1, ExecFacts DEF Slots
<1>5. \A q : WorksOn(ex[e], q) => WorksOn(y, q)
  BY <1>1 DEF WorksOn, Working, InCall
<1>6. QED BY <1>1, <1>2, <1>3, <1>4, <1>5, QuietRows DEF Begin

LEMMA ClaimKeeps ==
    ASSUME IInv, NEW e \in Execs, Claim(e) PROVE IInv'
<1> DEFINE y(pc) == [ex[e] EXCEPT !.pc = pc]
<1> DEFINE leased == [st |-> "producing", by |-> e, live |-> TRUE, made |-> "none"]
<1>1. /\ ex[e].pc = "claim"
      /\ \A pc \in {"admit", "hit"} : y(pc) \in Exec /\ y(pc).pc = pc /\ y(pc).k = ex[e].k
  BY ExecFacts DEF Exec, Claim, At
<1>2. \/ Stepped(ex, ex', e, y("admit")) /\ row' = [row EXCEPT ![Key(e)] = leased]
      \/ Stepped(ex, ex', e, y("hit")) /\ row' = row
  BY DEF Claim, Go, Stepped
<1>3. faults' \in 0 .. MaxFaults
  BY FaultCounted DEF Claim, IInv
<1>4. leased \in Row /\ leased.st = "producing" /\ leased.by = e
  BY DEF Row
<1> HIDE DEF y, leased
<1>5. \A pc \in {"admit", "hit"} : Slots(e, y(pc), att)
  BY <1>1, ExecFacts DEF Slots
<1>6. \A q : ~ WorksOn(ex[e], q)
  BY <1>1 DEF WorksOn, Working, InCall
<1>7. CASE Stepped(ex, ex', e, y("admit")) /\ row' = [row EXCEPT ![Key(e)] = leased]
  <2>1. /\ Key(e) \in Calls \X Profiles /\ Key(e)[1] = ex[e].k /\ Key(e)[2] = Primary
    BY KeyFacts DEF IInv
  <2>2. Rows(row') /\ row'[Key(e)] = leased
        /\ \A q \in Calls \X Profiles : q # Key(e) => row'[q] = row[q]
    <3>1. row \in [Calls \X Profiles -> Row]
      BY ExecFacts
    <3>2. QED BY <1>4, <1>7, <2>1, <3>1 DEF Rows
  <2>3. RowSound(Key(e), leased, ex')
    <3>1. ex'[e] = y("admit")
      BY <1>1, <1>7, SteppedFacts, ExecFacts
    <3>2. QED BY <1>1, <1>4, <2>1, <3>1 DEF RowSound, WorksOn, Working, InCall
  <2>4. RowsSound(row', ex')
    <3>1. \A q \in Calls \X Profiles : row'[q] = row[q] \/ RowSound(q, row'[q], ex')
      BY <2>2, <2>3
    <3>2. /\ ex \in [Execs -> Exec] /\ RowsSound(row, ex) /\ y("admit") \in Exec
          /\ Stepped(ex, ex', e, y("admit"))
      BY <1>1, <1>7, ExecFacts
    <3>3. QED BY <1>6, <3>1, <3>2, RowsStep
  <2>5. QED BY <1>1, <1>3, <1>5, <1>7, <2>2, <2>4, QuietStep DEF Claim
<1>8. CASE Stepped(ex, ex', e, y("hit")) /\ row' = row
  BY <1>1, <1>3, <1>5, <1>6, <1>8, QuietRows DEF Claim
<1>9. QED BY <1>2, <1>7, <1>8

\* Where an execution that ends, or goes on to its next call, stands.
LEMMA EndedFacts ==
    ASSUME NEW e, NEW at, NEW pc \in {"done", "failed", "cancelled", "crashed", "aborted"},
           NEW retry \in BOOLEAN
    PROVE  LET y == [NoExec EXCEPT !.pc = pc, !.retry = retry]
           IN  y \in Exec /\ y.pc = pc /\ Slots(e, y, at)
<1> DEFINE y == [NoExec EXCEPT !.pc = pc, !.retry = retry]
<1>1. y \in Exec /\ y.pc = pc
  BY NoExecTyped DEF Exec, NoExec
<1>2. Slots(e, y, at)
  BY <1>1 DEF Slots
<1>3. QED BY <1>1, <1>2

LEMMA OnwardFacts ==
    ASSUME IInv, NEW e \in Execs, ex[e].pc \in {"hit", "store", "insert", "drop"}
    PROVE  /\ Onward(e) \in Exec /\ Onward(e).pc \in {"claim", "done"}
           /\ Slots(e, Onward(e), att)
<1>1. CASE ex[e].k < Steps
  <2> DEFINE y == [ex[e] EXCEPT !.pc = "claim", !.k = @ + 1, !.i = 1]
  <2>1. ex[e].k \in Nat /\ ex[e].k + 1 \in Calls
    BY <1>1, ExecFacts, ModelCallsAssumption DEF Exec, Calls
  <2>2. y \in Exec /\ y.pc = "claim" /\ y.k = ex[e].k + 1 /\ Onward(e) = y
    BY <1>1, <2>1, ExecFacts, ZenonT(20) DEF Exec, Onward
  <2> HIDE DEF y
  <2>3. \A k \in Calls : k >= ex[e].k + 1 => k > ex[e].k /\ k >= ex[e].k
    BY <2>1 DEF Calls
  <2>4. Slots(e, y, att)
    BY <2>2, <2>3, ExecFacts DEF Slots
  <2>5. QED BY <2>2, <2>4
<1>2. CASE ~ (ex[e].k < Steps)
  <2> DEFINE y == [NoExec EXCEPT !.pc = "done"]
  <2>1. y \in Exec /\ y.pc = "done" /\ Onward(e) = y
    BY <1>2, NoExecTyped DEF Exec, NoExec, Onward
  <2> HIDE DEF y
  <2>2. Slots(e, y, att)
    BY <2>1 DEF Slots
  <2>3. QED BY <2>1, <2>2
<1>3. QED BY <1>1, <1>2

LEMMA GiveUpKeeps ==
    ASSUME IInv, NEW e \in Execs, GiveUp(e) PROVE IInv'
<1> DEFINE y == [NoExec EXCEPT !.pc = "failed", !.retry = TRUE]
<1>1. y \in Exec /\ y.pc = "failed" /\ Slots(e, y, att)
  BY EndedFacts
<1>2. Stepped(ex, ex', e, y) /\ ex[e].pc = "claim"
  BY DEF GiveUp, End, Stepped, At
<1>3. faults' \in 0 .. MaxFaults
  BY FaultCounted DEF GiveUp, IInv
<1> HIDE DEF y
<1>4. \A q : ~ WorksOn(ex[e], q)
  BY <1>2 DEF WorksOn, Working, InCall
<1>5. QED BY <1>1, <1>2, <1>3, <1>4, QuietRows DEF GiveUp

LEMMA AcceptKeeps ==
    ASSUME IInv, NEW e \in Execs, Accept(e) PROVE IInv'
<1>1. ex[e].pc = "hit" /\ Stepped(ex, ex', e, Onward(e))
  BY DEF Accept, At, Stepped
<1>2. faults' \in 0 .. MaxFaults
  BY FaultCounted DEF Accept, IInv
<1>3. \A q : ~ WorksOn(ex[e], q)
  BY <1>1 DEF WorksOn, Working, InCall
<1>4. QED BY <1>1, <1>2, <1>3, OnwardFacts, QuietRows DEF Accept

\* A row that is deleted is sound.
LEMMA NoRowFacts == NoRow \in Row /\ \A q, xs : RowSound(q, NoRow, xs)
  BY DEF NoRow, Row, RowSound

LEMMA RefuseKeeps ==
    ASSUME IInv, NEW e \in Execs, Refuse(e) PROVE IInv'
<1> DEFINE y == [ex[e] EXCEPT !.pc = "claim"]
<1>1. y \in Exec /\ y.pc = "claim" /\ y.k = ex[e].k /\ ex[e].pc = "hit"
  BY ExecFacts DEF Exec, Refuse, At
<1>2. Stepped(ex, ex', e, y)
  BY DEF Refuse, Go, Stepped
<1>3. faults' \in 0 .. MaxFaults
  BY FaultCounted DEF Refuse, IInv
<1> HIDE DEF y
<1>4. Slots(e, y, att)
  BY <1>1, ExecFacts DEF Slots
<1>5. \A q : ~ WorksOn(ex[e], q)
  BY <1>1 DEF WorksOn, Working, InCall
<1>6. Rows(row') /\ \A q \in Calls \X Profiles : row'[q] = row[q] \/ row'[q] = NoRow
  BY KeyFacts, ExecFacts, NoRowFacts DEF IInv, Refuse, Invalidated, Rows
<1>7. RowsSound(row', ex')
  BY <1>1, <1>2, <1>5, <1>6, NoRowFacts, ExecFacts, RowsStep
<1>8. QED BY <1>1, <1>2, <1>3, <1>4, <1>6, <1>7, QuietStep DEF Refuse

\* Where an execution stands once its result is stored.
LEMMA AfterStoreFacts ==
    ASSUME IInv, NEW e \in Execs, ex[e].pc \in {"store", "insert"}
    PROVE  /\ AfterStore(e) \in Exec /\ AfterStore(e).pc \in {"claim", "done", "drop"}
           /\ Slots(e, AfterStore(e), att)
           /\ Now(e) # Primary => \A q : WorksOn(ex[e], q) => WorksOn(AfterStore(e), q)
<1>1. CASE Now(e) # Primary
  <2> DEFINE y == [ex[e] EXCEPT !.pc = "drop"]
  <2>1. y \in Exec /\ y.pc = "drop" /\ y.k = ex[e].k /\ AfterStore(e) = y
    BY <1>1, ExecFacts DEF Exec, AfterStore
  <2> HIDE DEF y
  <2>2. Slots(e, y, att)
    BY <2>1, ExecFacts DEF Slots
  <2>3. \A q : WorksOn(ex[e], q) => WorksOn(y, q)
    BY <2>1 DEF WorksOn, Working, InCall
  <2>4. QED BY <2>1, <2>2, <2>3
<1>2. CASE Now(e) = Primary
  BY <1>2, OnwardFacts DEF AfterStore
<1>3. QED BY <1>1, <1>2

LEMMA TargetFacts ==
    ASSUME IInv, NEW e \in Execs
    PROVE  /\ Target(e) \in Calls \X Profiles /\ Target(e)[2] = Now(e)
           /\ Now(e) = Primary => Target(e) = Key(e)
           /\ Result(e) \in Row /\ Result(e).st = "ready" /\ Result(e).made = Now(e)
<1>1. ex[e].k \in Calls /\ Now(e) \in Profiles
  BY ExecFacts DEF Exec
<1>2. QED BY <1>1 DEF Target, Result, Key, Row

\* A result goes into its row; an execution that leaves the call has it stored
\* there or had no lease on it.
LEMMA ResultKeeps ==
    ASSUME IInv, NEW e \in Execs, ex[e].pc \in {"store", "insert"},
           NEW y \in Exec, Stepped(ex, ex', e, y), y.pc # "send", Slots(e, y, att),
           Fault \/ UNCHANGED faults, UNCHANGED <<op, att, win, off, sent, second, minute>>,
           row' = row \/ row' = [row EXCEPT ![Target(e)] = Result(e)],
           \/ \A q : WorksOn(ex[e], q) => WorksOn(y, q)
           \/ Now(e) = Primary /\ (row' = row => ~ Holds(e, Target(e)))
    PROVE  IInv'
<1>1. faults' \in 0 .. MaxFaults
  BY FaultCounted DEF IInv
<1>2. Target(e) \in Calls \X Profiles /\ Result(e) \in Row /\ RowSound(Target(e), Result(e), ex')
  BY TargetFacts DEF RowSound
<1>3. row \in [Calls \X Profiles -> Row]
  BY ExecFacts
<1>4. /\ Rows(row')
      /\ \A q \in Calls \X Profiles : row'[q] = row[q] \/ (q = Target(e) /\ row'[q] = Result(e))
  BY <1>2, <1>3 DEF Rows
<1>5. \A q \in Calls \X Profiles : row'[q] = row[q] \/ RowSound(q, row'[q], ex')
  BY <1>2, <1>4
<1>6. ASSUME NEW q \in Calls \X Profiles, row'[q] = row[q], row[q].st = "producing",
             row[q].by = e, q[2] = Primary, WorksOn(ex[e], q)
      PROVE  WorksOn(y, q)
  <2>1. CASE Now(e) = Primary /\ (row' = row => ~ Holds(e, Target(e)))
    <3>1. q = Target(e)
      <4>1. q[1] = ex[e].k
        BY <1>6 DEF WorksOn, Working, InCall
      <4>2. QED BY <1>6, <2>1, <4>1, KeyFacts, TargetFacts DEF IInv
    <3>2. Holds(e, Target(e))
      BY <1>6, <3>1 DEF Holds
    <3>3. row'[q] = Result(e)
      BY <1>2, <1>3, <2>1, <3>1, <3>2
    <3>4. QED BY <1>6, <3>3, TargetFacts
  <2>2. QED BY <1>6, <2>1
<1>7. RowsSound(row', ex')
  BY <1>5, <1>6, ExecFacts, RowsStep
<1>8. QED BY <1>1, <1>4, <1>7, QuietStep

LEMMA StoreKeeps ==
    ASSUME IInv, NEW e \in Execs, Store(e) PROVE IInv'
<1>1. ex[e].pc = "store" /\ UNCHANGED <<op, att, win, off, sent, second, minute, faults>>
  BY DEF Store, At
<1>2. row' = IF Holds(e, Target(e)) THEN [row EXCEPT ![Target(e)] = Result(e)] ELSE row
  BY DEF Store, Stored
<1>3. CASE row[Target(e)].st = "none"
  <2> DEFINE y == [ex[e] EXCEPT !.pc = "insert"]
  <2>1. y \in Exec /\ y.pc = "insert" /\ y.k = ex[e].k
    BY ExecFacts DEF Exec
  <2>2. Stepped(ex, ex', e, y)
    BY <1>3 DEF Store, Stepped
  <2> HIDE DEF y
  <2>3. Slots(e, y, att)
    BY <1>1, <2>1, ExecFacts DEF Slots
  <2>4. \A q : WorksOn(ex[e], q) => WorksOn(y, q)
    BY <1>1, <2>1 DEF WorksOn, Working, InCall
  <2>5. QED BY <1>1, <1>2, <2>1, <2>2, <2>3, <2>4, ResultKeeps
<1>4. CASE row[Target(e)].st # "none"
  <2>1. Stepped(ex, ex', e, AfterStore(e))
    BY <1>4 DEF Store, Stepped
  <2>2. \/ \A q : WorksOn(ex[e], q) => WorksOn(AfterStore(e), q)
        \/ Now(e) = Primary /\ (row' = row => ~ Holds(e, Target(e)))
    <3>1. CASE Holds(e, Target(e))
      <4>1. row'[Target(e)].st = "ready" /\ row[Target(e)].st = "producing"
        BY <1>2, <3>1, ExecFacts, TargetFacts DEF Holds
      <4>2. row' # row
        BY <4>1
      <4>3. QED BY <1>1, <4>2, AfterStoreFacts
    <3>2. CASE ~ Holds(e, Target(e))
      BY <1>1, <3>2, AfterStoreFacts
    <3>3. QED BY <3>1, <3>2
  <2>3. QED BY <1>1, <1>2, <2>1, <2>2, AfterStoreFacts, ResultKeeps
<1>5. QED BY <1>3, <1>4

\* An execution that a failed write of the cache ends.
LEMMA AbortKeeps ==
    ASSUME IInv, NEW e \in Execs, End(e, "aborted", FALSE), Fault \/ UNCHANGED faults,
           UNCHANGED <<row, op, att, win, off, sent, second, minute>>
    PROVE  IInv'
<1>1. PICK no \in BOOLEAN : no = FALSE
  OBVIOUS
<1> DEFINE y == [NoExec EXCEPT !.pc = "aborted", !.retry = no]
<1>2. y \in Exec /\ y.pc = "aborted" /\ Slots(e, y, att)
  BY EndedFacts
<1>3. Stepped(ex, ex', e, y)
  BY <1>1 DEF End, Stepped
<1>4. faults' \in 0 .. MaxFaults
  BY FaultCounted DEF IInv
<1> HIDE DEF y
<1>5. \A q : WorksOn(y, q)
  BY <1>2 DEF WorksOn
<1>6. QED BY <1>2, <1>3, <1>4, <1>5, QuietRows

LEMMA CacheFailsKeeps ==
    ASSUME IInv, NEW e \in Execs, CacheFails(e) PROVE IInv'
  BY AbortKeeps DEF CacheFails

LEMMA InsertKeeps ==
    ASSUME IInv, NEW e \in Execs, Insert(e) PROVE IInv'
<1>1. ex[e].pc = "insert" /\ UNCHANGED <<op, att, win, off, sent, second, minute, faults>>
  BY DEF Insert, At
<1>2. CASE row[Target(e)].st = "none"
  <2>1. Stepped(ex, ex', e, AfterStore(e)) /\ row' = [row EXCEPT ![Target(e)] = Result(e)]
    BY <1>2 DEF Insert, Stepped
  <2>2. ~ Holds(e, Target(e))
    BY <1>2 DEF Holds
  <2>3. QED BY <1>1, <2>1, <2>2, AfterStoreFacts, ResultKeeps
<1>3. CASE row[Target(e)].st # "none"
  BY <1>1, <1>3, AbortKeeps DEF Insert
<1>4. QED BY <1>2, <1>3

\* An execution that gives up its lease, if it still has it, and leaves the call.
LEMMA ReleasedKeeps ==
    ASSUME IInv, NEW e \in Execs, row' = Released(e), NEW y \in Exec, Stepped(ex, ex', e, y),
           ex[e].pc \in {"drop", "release"}, y.pc # "send", Slots(e, y, att),
           UNCHANGED <<op, att, win, off, sent, second, minute, faults>>
    PROVE  IInv'
<1>1. Rows(row') /\ \A q \in Calls \X Profiles : row'[q] = row[q] \/ row'[q] = NoRow
  BY KeyFacts, ExecFacts, NoRowFacts DEF IInv, Released, Rows
<1>2. ASSUME NEW q \in Calls \X Profiles, row'[q] = row[q], row[q].st = "producing",
             row[q].by = e, q[2] = Primary, WorksOn(ex[e], q)
      PROVE  FALSE
  <2>1. q = Key(e)
    BY <1>2, KeyFacts DEF IInv, WorksOn, InCall
  <2>2. row' = [row EXCEPT ![q] = NoRow]
    BY <1>2, <2>1 DEF Released, Holds
  <2>3. row'[q] = NoRow
    BY <2>2, ExecFacts
  <2>4. QED BY <1>2, <2>3 DEF NoRow
<1>3. \A q \in Calls \X Profiles : row'[q] = row[q] \/ RowSound(q, row'[q], ex')
  BY <1>1, NoRowFacts
<1>4. RowsSound(row', ex')
  BY <1>2, <1>3, ExecFacts, RowsStep
<1>5. faults' \in 0 .. MaxFaults
  BY ExecFacts
<1>6. QED BY <1>1, <1>4, <1>5, QuietStep

LEMMA DropKeeps ==
    ASSUME IInv, NEW e \in Execs, Drop(e) PROVE IInv'
<1>1. ex[e].pc = "drop" /\ Stepped(ex, ex', e, Onward(e))
  BY DEF Drop, At, Stepped
<1>2. QED BY <1>1, OnwardFacts, ReleasedKeeps DEF Drop

LEMMA ReleaseKeeps ==
    ASSUME IInv, NEW e \in Execs, Release(e) PROVE IInv'
<1> DEFINE pc == IF ex[e].timed THEN "cancelled" ELSE "failed"
<1> DEFINE y == [NoExec EXCEPT !.pc = pc, !.retry = ex[e].retry]
<1>1. pc \in {"done", "failed", "cancelled", "crashed", "aborted"} /\ ex[e].retry \in BOOLEAN
  BY ExecFacts DEF Exec
<1>2. Stepped(ex, ex', e, y) /\ ex[e].pc = "release"
  BY DEF Release, End, Stepped, At
<1> HIDE DEF pc
<1>3. y \in Exec /\ y.pc = pc /\ Slots(e, y, att)
  BY <1>1, EndedFacts
<1> HIDE DEF y
<1>4. QED BY <1>1, <1>2, <1>3, ReleasedKeeps DEF Release

\* A call that ends in an error.
LEMMA RaiseKeeps ==
    ASSUME IInv, NEW e \in Execs, ex[e].pc \in InCall, NEW retry \in BOOLEAN,
           Raise(e, retry), Fault \/ UNCHANGED faults,
           UNCHANGED <<row, op, att, win, off, sent, second, minute>>
    PROVE  IInv'
<1> DEFINE y == [ex[e] EXCEPT !.pc = "release", !.retry = retry]
<1>1. y \in Exec /\ y.pc = "release" /\ y.k = ex[e].k
  BY ExecFacts, ZenonT(20) DEF Exec
<1>2. Stepped(ex, ex', e, y)
  BY ExecFacts DEF Raise, Stepped
<1>3. faults' \in 0 .. MaxFaults
  BY FaultCounted DEF IInv
<1> HIDE DEF y
<1>4. Slots(e, y, att)
  BY <1>1 DEF Slots
<1>5. \A q : WorksOn(ex[e], q) => WorksOn(y, q)
  BY <1>1 DEF WorksOn, Working, InCall
<1>6. QED BY <1>1, <1>2, <1>3, <1>4, <1>5, QuietRows

LEMMA ErrorsKeep ==
    ASSUME IInv, NEW e \in Execs,
           \/ Reject(e) \/ Exhausted(e) \/ Full(e) \/ LedgerDown(e) \/ FinishFails(e)
    PROVE  IInv'
<1>1. CASE Reject(e)
  BY <1>1, RaiseKeeps DEF Reject, At, InCall
<1>2. CASE Exhausted(e)
  BY <1>2, RaiseKeeps DEF Exhausted, At, InCall
<1>3. CASE Full(e)
  BY <1>3, RaiseKeeps DEF Full, At, InCall
<1>4. CASE LedgerDown(e)
  BY <1>4, RaiseKeeps DEF LedgerDown, At, InCall
<1>5. CASE FinishFails(e)
  BY <1>5, RaiseKeeps DEF FinishFails, At, InCall
<1>6. QED BY <1>1, <1>2, <1>3, <1>4, <1>5

\* A step within a call that leaves the attempts as they are.
LEMMA WithinKeeps ==
    ASSUME IInv, NEW e \in Execs, NEW y \in Exec, Stepped(ex, ex', e, y),
           y.pc \in InCall \cup {"release"}, y.k = ex[e].k, y.pc = "send" => ex[e].pc = "send",
           Slots(e, y, att), Fault \/ UNCHANGED faults,
           UNCHANGED <<row, op, att, win, off, sent, second, minute>>,
           ex[e].pc \in InCall
    PROVE  IInv'
<1>1. faults' \in 0 .. MaxFaults
  BY FaultCounted DEF IInv
<1>2. \A q : WorksOn(ex[e], q) => WorksOn(y, q)
  BY DEF WorksOn, Working, InCall
<1>3. QED BY <1>1, <1>2, QuietRows

LEMMA AdmitKeeps ==
    ASSUME IInv, NEW e \in Execs, Admit(e) PROVE IInv'
<1>1. ex[e].pc = "admit" /\ "admit" \in InCall
  BY DEF Admit, At, InCall
<1>2. CASE ex[e].normal < NormalCalls
  <2> DEFINE alt == IF second \in off THEN Primary ELSE second
  <2> DEFINE y == [ex[e] EXCEPT !.pc = "reserve", !.i = 1, !.normal = @ + 1, !.alt = alt]
  <2>1. Stepped(ex, ex', e, y)
    BY <1>2, ExecFacts DEF Admit, Stepped
  <2>2. alt \in Profiles
    BY DEF IInv, TypeOK, Profiles
  <2> HIDE DEF alt
  <2>3. y \in Exec /\ y.pc = "reserve" /\ y.k = ex[e].k /\ y.i = 1
    <3>1. ex[e] \in Exec
      BY ExecFacts
    <3>2. \A b \in Profiles : \A n \in Nat :
             [ex[e] EXCEPT !.pc = "reserve", !.i = 1, !.normal = n, !.alt = b] \in Exec
      BY <3>1 DEF Exec
    <3>3. ex[e].normal + 1 \in Nat
      BY <3>1 DEF Exec
    <3>4. y \in Exec
      BY <2>2, <3>2, <3>3
    <3>5. y.pc = "reserve" /\ y.k = ex[e].k /\ y.i = 1
      BY <3>1 DEF Exec
    <3>6. QED BY <3>4, <3>5
  <2> HIDE DEF y
  <2>4. ex[e].k \in Calls /\ ex[e].k >= ex[e].k /\ \A k \in Calls : k > ex[e].k => k >= ex[e].k
    BY ExecFacts DEF Exec, Calls
  <2>5. Slots(e, y, att)
    BY <1>1, <2>3, <2>4, ExecFacts, ZenonT(20) DEF Slots, Unused
  <2>6. QED BY <1>1, <2>1, <2>3, <2>5, WithinKeeps DEF Admit, InCall
<1>3. CASE ~ (ex[e].normal < NormalCalls)
  BY <1>1, <1>3, RaiseKeeps DEF Admit
<1>4. QED BY <1>2, <1>3

\* A request ends, with an answer or without one having been sent.
LEMMA OutcomeKeeps ==
    ASSUME IInv, NEW e \in Execs, Unresolved(e) \/ Answer(e) PROVE IInv'
<1>1. PICK out \in Outcome : ex' = [ex EXCEPT ![e].pc = "settle", ![e].out = out]
  BY AnswersTyped DEF Unresolved, Answer, Outcome
<1> DEFINE y == [ex[e] EXCEPT !.pc = "settle", !.out = out]
<1>2. /\ y \in Exec /\ y.pc = "settle" /\ y.k = ex[e].k /\ y.i = ex[e].i
      /\ ex[e].pc \in {"send", "answer"}
  <2>1. ex[e] \in Exec
    BY ExecFacts
  <2>2. ex[e].pc \in {"send", "answer"}
    BY DEF Unresolved, Answer, At
  <2>3. QED BY <2>1, <2>2 DEF Exec
<1>3. Stepped(ex, ex', e, y)
  BY <1>1, ExecFacts DEF Stepped
<1> HIDE DEF y
<1>4. Slots(e, y, att)
  BY <1>2, ExecFacts DEF Slots
<1>5. Fault \/ UNCHANGED faults
  BY DEF Unresolved, Answer
<1>6. UNCHANGED <<row, op, att, win, off, sent, second, minute>>
  BY DEF Unresolved, Answer
<1>7. QED BY <1>2, <1>3, <1>4, <1>5, <1>6, WithinKeeps DEF InCall

LEMMA TimeoutKeeps ==
    ASSUME IInv, NEW e \in Execs, Timeout(e) PROVE IInv'
<1>1. CASE ex[e].pc \in InCall
  <2> DEFINE y == [ex[e] EXCEPT !.pc = "release", !.retry = TRUE, !.timed = TRUE]
  <2>1. y \in Exec /\ y.pc = "release" /\ y.k = ex[e].k
    BY ExecFacts, ZenonT(20) DEF Exec
  <2>2. Stepped(ex, ex', e, y)
    BY <1>1, ExecFacts DEF Timeout, Stepped
  <2> HIDE DEF y
  <2>3. Slots(e, y, att)
    BY <2>1 DEF Slots
  <2>4. QED BY <1>1, <2>1, <2>2, <2>3, WithinKeeps DEF Timeout
<1>2. CASE ex[e].pc \notin InCall
  <2> DEFINE y == [NoExec EXCEPT !.pc = "cancelled", !.retry = TRUE]
  <2>1. y \in Exec /\ y.pc = "cancelled" /\ Slots(e, y, att)
    BY EndedFacts
  <2>2. Stepped(ex, ex', e, y)
    BY <1>2 DEF Timeout, End, Stepped
  <2>3. faults' \in 0 .. MaxFaults
    BY FaultCounted DEF Timeout, IInv
  <2> HIDE DEF y
  <2>4. \A q : WorksOn(y, q)
    BY <2>1 DEF WorksOn
  <2>5. QED BY <2>1, <2>2, <2>3, <2>4, QuietRows DEF Timeout
<1>3. QED BY <1>1, <1>2

LEMMA CrashKeeps ==
    ASSUME IInv, NEW e \in Execs, Crash(e) PROVE IInv'
<1> DEFINE y == [NoExec EXCEPT !.pc = "crashed", !.retry = TRUE]
<1>1. y \in Exec /\ y.pc = "crashed" /\ Slots(e, y, att)
  BY EndedFacts
<1>2. Stepped(ex, ex', e, y)
  BY DEF Crash, End, Stepped
<1>3. faults' \in 0 .. MaxFaults
  BY FaultCounted DEF Crash, IInv
<1> HIDE DEF y
<1>4. \A q : WorksOn(y, q)
  BY <1>1 DEF WorksOn
<1>5. QED BY <1>1, <1>2, <1>3, <1>4, QuietRows DEF Crash

-----------------------------------------------------------------------------
(* The steps that write the ledger.                                        *)

LEMMA DueFacts ==
    ASSUME NEW xs, NEW r PROVE IsFiniteSet(Due(xs, r)) /\ Cardinality(Due(xs, r)) \in Nat
<1>1. Due(xs, r) \subseteq Execs
  BY DEF Due
<1>2. IsFiniteSet(Due(xs, r))
  BY <1>1, ModelCallsAssumption, FS_Subset
<1>3. QED BY <1>2, FS_CardinalityType

LEMMA RunOfFacts == \A e : RunOf(e) \in Runs
  BY DEF RunOf, Runs

\* One transmission uses up one reservation that was due.
LEMMA SendKeeps ==
    ASSUME IInv, NEW e \in Execs, Send(e) PROVE IInv'
<1> DEFINE y == [ex[e] EXCEPT !.pc = "answer", !.sent = @ + 1]
<1>1. /\ y \in Exec /\ y.pc = "answer" /\ y.k = ex[e].k /\ y.i = ex[e].i
      /\ ex[e].pc = "send"
  BY ExecFacts DEF Exec, Send, At
<1>2. Stepped(ex, ex', e, y)
  BY ExecFacts DEF Send, Stepped
<1> HIDE DEF y
<1>3. ex' \in [Execs -> Exec] /\ ex'[e] = y /\ \A d \in Execs : d # e => ex'[d] = ex[d]
  BY <1>1, <1>2, ExecFacts, SteppedFacts
<1>4. /\ sent \in [Runs -> Nat] /\ sent' = [sent EXCEPT ![RunOf(e)] = @ + 1]
      /\ UNCHANGED <<row, op, att, win, off, second, minute, faults>>
  BY DEF IInv, TypeOK, Send
<1>5. TypeOK'
  BY <1>3, <1>4, RunOfFacts DEF IInv, TypeOK
<1>6. \A d \in Execs : Slots(d, ex'[d], att')
  <2>1. Slots(e, y, att)
    BY <1>1, ExecFacts DEF Slots
  <2>2. QED BY <1>3, <1>4, <2>1 DEF IInv
<1>7. RowsSound(row', ex')
  <2>1. \A q : WorksOn(ex[e], q) => WorksOn(y, q)
    BY <1>1 DEF WorksOn, Working, InCall
  <2>2. row' = row
    BY <1>4
  <2>3. QED BY <1>1, <1>2, <2>1, <2>2, ExecFacts, RowsStep
<1>8. Booked(sent', op', ex')
  <2>1. ASSUME NEW r \in Runs
        PROVE  sent'[r] + Cardinality(Due(ex', r)) = sent[r] + Cardinality(Due(ex, r))
    <3>1. CASE r = RunOf(e)
      <4>1. Due(ex', r) = Due(ex, r) \ {e} /\ e \in Due(ex, r)
        BY <1>1, <1>3, <3>1 DEF Due
      <4>2. Cardinality(Due(ex', r)) = Cardinality(Due(ex, r)) - 1
        BY <4>1, DueFacts, FS_RemoveElement
      <4>3. sent'[r] = sent[r] + 1 /\ sent[r] \in Nat
        BY <1>4, <3>1
      <4>4. QED BY <4>2, <4>3, DueFacts
    <3>2. CASE r # RunOf(e)
      <4>1. Due(ex', r) = Due(ex, r)
        BY <1>3, <3>2 DEF Due
      <4>2. sent'[r] = sent[r]
        BY <1>4, <3>2
      <4>3. QED BY <4>1, <4>2
    <3>3. QED BY <3>1, <3>2
  <2>2. op' = op /\ Booked(sent, op, ex)
    BY <1>4 DEF IInv
  <2>3. QED BY <2>1, <2>2 DEF Booked
<1>9. Counted(att', win')
  BY <1>4 DEF IInv
<1>10. QED BY <1>5, <1>6, <1>7, <1>8, <1>9 DEF IInv

\* What the other executions have on file is not touched.
LEMMA OtherSlots ==
    ASSUME NEW at, Attempts(at), NEW a \in Slot, NEW v, NEW at2, at2 = Entered(at, a, v),
           NEW d \in Execs, d # a[1],
           NEW x \in Exec, Slots(d, x, at)
    PROVE  Slots(d, x, at2)
<1>1. \A j \in Calls, n \in {1, 2} : at2[<<d, j, n>>] = at[<<d, j, n>>]
  BY SlotFacts DEF Attempts, Entered
<1>2. x.k \in Calls /\ x.i \in {1, 2}
  BY DEF Exec
<1>3. \A j \in Calls : Unused(at2, d, j) <=> Unused(at, d, j)
  BY <1>1 DEF Unused
<1>4. /\ at2[<<d, x.k, x.i>>] = at[<<d, x.k, x.i>>]
      /\ at2[<<d, x.k, 2>>] = at[<<d, x.k, 2>>]
  BY <1>1, <1>2
<1>5. QED BY <1>3, <1>4 DEF Slots

\* The slots of the execution itself.
LEMMA EnteredFacts ==
    ASSUME NEW at, Attempts(at), NEW a \in Slot, NEW v \in Attempt,
           NEW at2, at2 = Entered(at, a, v)
    PROVE  Attempts(at2) /\ at2[a] = v /\ \A b \in Slot : b # a => at2[b] = at[b]
  BY DEF Attempts, Entered

LEMMA ReserveKeeps ==
    ASSUME IInv, NEW e \in Execs, Reserve(e) PROVE IInv'
<1> DEFINE a == <<e, ex[e].k, ex[e].i>>
<1> DEFINE v == [st |-> "reserved", res |-> "reserved", profile |-> Now(e), min |-> minute]
<1> DEFINE y == [ex[e] EXCEPT !.pc = "send"]
<1>1. /\ y \in Exec /\ y.pc = "send" /\ y.k = ex[e].k /\ y.i = ex[e].i
      /\ ex[e].pc = "reserve" /\ ex[e].k \in Calls /\ ex[e].i \in {1, 2}
  BY ExecFacts DEF Exec, Reserve, At
<1>2. Stepped(ex, ex', e, y)
  BY DEF Reserve, Go, Stepped
<1>3. minute \in Minutes /\ minute # 0 /\ minute \in Windows /\ 0 \in Windows
  BY DEF IInv, TypeOK, Minutes, Windows
<1>4. /\ v \in Attempt /\ v.st = "reserved" /\ v.res = "reserved" /\ v.min = minute
      /\ v.profile = Now(e)
  BY <1>3, ExecFacts DEF Attempt
<1>5. Attempts(att) /\ Counters(win) /\ Counted(att, win)
  BY DEF IInv, TypeOK, Attempts, Counters, Slot, Window
<1>6. a \in Slot
  BY <1>1, SlotFacts
<1>7. att' = Entered(att, a, v)
  BY DEF Reserve, Entered
<1>8. UNCHANGED <<row, off, sent, second, minute, faults>>
  BY DEF Reserve
<1>9. att[a].st = "none"
  BY <1>1, ExecFacts DEF Slots
<1> HIDE DEF v, y
<1>10. ex' \in [Execs -> Exec] /\ ex'[e] = y /\ \A d \in Execs : d # e => ex'[d] = ex[d]
  BY <1>1, <1>2, ExecFacts, SteppedFacts
<1>11. win' = [w \in DOMAIN win |-> IF w \in Open(Now(e))
                                    THEN [win[w] EXCEPT !.reserved = @ + 1] ELSE win[w]]
  BY DEF Reserve
<1>12. \A w \in Window : CountedBy(v, w) <=> w \in Open(Now(e))
  BY <1>4 DEF CountedBy, Open, Window
<1>13. /\ Counters(win')
       /\ \A w \in Window :
             /\ win'[w].observed = win[w].observed
             /\ win'[w].reserved = IF CountedBy(v, w) THEN win[w].reserved + 1
                                   ELSE win[w].reserved
  <2>1. DOMAIN win = Window
    BY <1>5 DEF Counters
  <2>2. ASSUME NEW w \in Window
        PROVE  /\ win'[w] \in [reserved : Nat, observed : Nat]
               /\ win'[w].observed = win[w].observed
               /\ win'[w].reserved = IF CountedBy(v, w) THEN win[w].reserved + 1
                                     ELSE win[w].reserved
    <3>1. win[w] \in [reserved : Nat, observed : Nat]
      BY <1>5 DEF Counters
    <3>2. win'[w] = IF CountedBy(v, w) THEN [win[w] EXCEPT !.reserved = @ + 1] ELSE win[w]
      BY <1>11, <1>12, <2>1
    <3>3. QED BY <3>1, <3>2
  <2>3. QED BY <1>11, <2>1, <2>2 DEF Counters
<1>14. \A w \in Window : CountedBy(v, w) => win[w].reserved + win[w].observed < Limit(w)
  <2>1. Admits(Now(e))
    BY DEF Reserve
  <2>2. QED BY <1>3, <1>12, <2>1 DEF Admits, Used, Open, Limit
<1>15. Counted(att', win')
  BY <1>3, <1>4, <1>5, <1>6, <1>7, <1>9, <1>13, <1>14, ReservedCounted
<1>16. op \in [Runs -> [normal : Nat, recovery : Nat]] /\ sent \in [Runs -> Nat]
  BY DEF IInv, TypeOK
<1>17. /\ op' \in [Runs -> [normal : Nat, recovery : Nat]]
       /\ \A r \in Runs :
             IF r = RunOf(e)
             THEN /\ op'[r].normal + op'[r].recovery = op[r].normal + op[r].recovery + 1
                  /\ op[r].normal <= NormalCalls /\ op[r].recovery <= RecoveryAllowance
                     => op'[r].normal <= NormalCalls /\ op'[r].recovery <= RecoveryAllowance
             ELSE op'[r] = op[r]
  <2> DEFINE r0 == RunOf(e)
  <2>1. r0 \in Runs
    BY RunOfFacts
  <2>2. op[r0] \in [normal : Nat, recovery : Nat]
    BY <1>16, <2>1
  <2>3. CASE ex[e].i = 1
    <3>1. op' = [op EXCEPT ![r0].normal = @ + 1] /\ op[r0].normal < NormalCalls
      BY <2>3 DEF Reserve, OpOf, Allowed
    <3> HIDE DEF r0
    <3>2. op'[r0] = [op[r0] EXCEPT !.normal = @ + 1]
      BY <1>16, <2>1, <3>1
    <3>3. /\ op'[r0].normal = op[r0].normal + 1 /\ op'[r0].recovery = op[r0].recovery
          /\ op'[r0] \in [normal : Nat, recovery : Nat]
      BY <2>2, <3>2
    <3>4. \A r \in Runs : r # r0 => op'[r] = op[r]
      BY <1>16, <3>1
    <3>5. op' \in [Runs -> [normal : Nat, recovery : Nat]]
      BY <1>16, <2>1, <3>1, <3>3
    <3>6. op'[r0].normal + op'[r0].recovery = op[r0].normal + op[r0].recovery + 1
          /\ op'[r0].normal <= NormalCalls
      BY <2>2, <3>1, <3>3, ModelCallsAssumption
    <3>7. QED BY <3>3, <3>4, <3>5, <3>6 DEF r0
  <2>4. CASE ex[e].i # 1
    <3>1. op' = [op EXCEPT ![r0].recovery = @ + 1] /\ op[r0].recovery < RecoveryAllowance
      BY <2>4 DEF Reserve, OpOf, Allowed
    <3> HIDE DEF r0
    <3>2. op'[r0] = [op[r0] EXCEPT !.recovery = @ + 1]
      BY <1>16, <2>1, <3>1
    <3>3. /\ op'[r0].recovery = op[r0].recovery + 1 /\ op'[r0].normal = op[r0].normal
          /\ op'[r0] \in [normal : Nat, recovery : Nat]
      BY <2>2, <3>2
    <3>4. \A r \in Runs : r # r0 => op'[r] = op[r]
      BY <1>16, <3>1
    <3>5. op' \in [Runs -> [normal : Nat, recovery : Nat]]
      BY <1>16, <2>1, <3>1, <3>3
    <3>6. op'[r0].normal + op'[r0].recovery = op[r0].normal + op[r0].recovery + 1
          /\ op'[r0].recovery <= RecoveryAllowance
      BY <2>2, <3>1, <3>3, ModelCallsAssumption
    <3>7. QED BY <3>3, <3>4, <3>5, <3>6 DEF r0
  <2>5. QED BY <2>3, <2>4
<1>18. Booked(sent', op', ex')
  <2>1. ASSUME NEW r \in Runs
        PROVE  /\ sent'[r] + Cardinality(Due(ex', r)) <= op'[r].normal + op'[r].recovery
               /\ op'[r].normal <= NormalCalls /\ op'[r].recovery <= RecoveryAllowance
    <3>1. /\ sent[r] + Cardinality(Due(ex, r)) <= op[r].normal + op[r].recovery
          /\ op[r].normal <= NormalCalls /\ op[r].recovery <= RecoveryAllowance
      BY DEF IInv, Booked
    <3>2. /\ sent'[r] = sent[r] /\ sent[r] \in Nat
          /\ op[r].normal \in Nat /\ op[r].recovery \in Nat
      BY <1>8, <1>16
    <3>3. CASE r = RunOf(e)
      <4>1. Due(ex', r) = Due(ex, r) \cup {e} /\ e \notin Due(ex, r)
        BY <1>1, <1>10, <3>3 DEF Due
      <4>2. Cardinality(Due(ex', r)) = Cardinality(Due(ex, r)) + 1
        BY <4>1, DueFacts, FS_AddElement
      <4>3. Cardinality(Due(ex, r)) \in Nat
        BY DueFacts
      <4>4. op'[r].normal + op'[r].recovery = op[r].normal + op[r].recovery + 1
            /\ op'[r].normal <= NormalCalls /\ op'[r].recovery <= RecoveryAllowance
        BY <1>17, <3>1, <3>3
      <4>5. QED BY <3>1, <3>2, <4>2, <4>3, <4>4
    <3>4. CASE r # RunOf(e)
      <4>1. Due(ex', r) = Due(ex, r)
        BY <1>1, <1>10, <3>4 DEF Due
      <4>2. op'[r] = op[r]
        BY <1>17, <3>4
      <4>3. QED BY <3>1, <3>2, <4>1, <4>2
    <3>5. QED BY <3>3, <3>4
  <2>2. QED BY <2>1 DEF Booked
<1>19. RowsSound(row', ex')
  <2>1. \A q : WorksOn(ex[e], q) => WorksOn(y, q)
    BY <1>1 DEF WorksOn, Working, InCall
  <2>2. row' = row
    BY <1>8
  <2>3. QED BY <1>1, <1>2, <2>1, <2>2, ExecFacts, RowsStep
<1>20. Attempts(att') /\ att'[a] = v /\ \A b \in Slot : b # a => att'[b] = att[b]
  BY <1>4, <1>5, <1>6, <1>7, EnteredFacts
<1>21. \A d \in Execs : Slots(d, ex'[d], att')
  <2>1. Slots(e, y, att')
    <3>1. ex[e].k \in Nat /\ Slots(e, ex[e], att)
      BY <1>1, ExecFacts DEF Calls
    <3>2. ASSUME NEW k \in Calls, k > ex[e].k PROVE Unused(att', e, k)
      <4>1. k # ex[e].k
        BY <3>1, <3>2 DEF Calls
      <4>2. \A i \in {1, 2} : att'[<<e, k, i>>] = att[<<e, k, i>>]
        BY <1>20, <4>1, SlotFacts
      <4>3. QED BY <1>1, <3>1, <3>2, <4>2 DEF Slots, Unused
    <3>3. ex[e].i = 1 => att'[<<e, ex[e].k, 2>>].st = "none"
      <4>1. ex[e].i = 1 => att'[<<e, ex[e].k, 2>>] = att[<<e, ex[e].k, 2>>]
        BY <1>1, <1>20, SlotFacts
      <4>2. QED BY <1>1, <3>1, <4>1 DEF Slots
    <3>4. att'[<<e, y.k, y.i>>] = v
      BY <1>1, <1>20
    <3>5. QED BY <1>1, <1>4, <3>2, <3>3, <3>4 DEF Slots
  <2>2. ASSUME NEW d \in Execs, d # e PROVE Slots(d, ex'[d], att')
    <3>1. ex'[d] = ex[d] /\ ex[d] \in Exec /\ Slots(d, ex[d], att)
      BY <1>10, <2>2, ExecFacts
    <3>2. Slots(d, ex[d], att')
      <4>1. a[1] = e
        OBVIOUS
      <4> HIDE DEF a
      <4>2. QED BY <1>5, <1>6, <1>7, <2>2, <3>1, <4>1, OtherSlots
    <3>3. QED BY <3>1, <3>2
  <2>3. QED BY <1>10, <2>1, <2>2
<1>22. TypeOK'
  BY <1>8, <1>10, <1>13, <1>17, <1>20 DEF IInv, TypeOK, Attempts, Counters, Slot, Window
<1>23. QED BY <1>15, <1>18, <1>19, <1>21, <1>22 DEF IInv

\* Where an execution stands after a settlement.
LEMMA AfterFacts ==
    ASSUME IInv, NEW e \in Execs
    PROVE  /\ After(e) \in Exec /\ After(e).pc \in {"store", "reserve", "release"}
           /\ After(e).k = ex[e].k
           /\ After(e).pc = "reserve" => After(e).i = 2 /\ ex[e].i = 1
<1>1. ex[e] \in Exec
  BY ExecFacts
<1>2. CASE ex[e].out = "good"
  <2>1. After(e) = [ex[e] EXCEPT !.pc = "store", !.alt = Now(e)] /\ Now(e) \in Profiles
    BY <1>2, ExecFacts DEF After
  <2>2. QED BY <1>1, <2>1 DEF Exec
<1>3. CASE ex[e].out # "good" /\ CanRecover(e, ex[e].out)
  <2> DEFINE y == [ex[e] EXCEPT !.pc = "reserve", !.i = 2, !.recovery = @ + 1]
  <2>1. After(e) = y /\ ex[e].i = 1
    BY <1>3 DEF After, CanRecover
  <2>2. y \in Exec
    <3>1. \A n \in Nat : [ex[e] EXCEPT !.pc = "reserve", !.i = 2, !.recovery = n] \in Exec
      BY <1>1 DEF Exec
    <3>2. ex[e].recovery + 1 \in Nat
      BY <1>1 DEF Exec
    <3>3. QED BY <3>1, <3>2
  <2>3. y.pc = "reserve" /\ y.i = 2 /\ y.k = ex[e].k
    BY <1>1 DEF Exec
  <2>4. QED BY <2>1, <2>2, <2>3
<1>4. CASE ex[e].out # "good" /\ ~ CanRecover(e, ex[e].out)
  <2> DEFINE retry == Retryable(ex[e].out) /\ ex[e].sent = 0
  <2>1. After(e) = [ex[e] EXCEPT !.pc = "release", !.retry = retry] /\ retry \in BOOLEAN
    BY <1>4 DEF After
  <2> HIDE DEF retry
  <2>2. \A b \in BOOLEAN : [ex[e] EXCEPT !.pc = "release", !.retry = b] \in Exec
    BY <1>1 DEF Exec
  <2>3. After(e) \in Exec
    BY <2>1, <2>2
  <2>4. After(e).pc = "release" /\ After(e).k = ex[e].k
    BY <1>1, <2>1 DEF Exec
  <2>5. QED BY <2>3, <2>4
<1>5. QED BY <1>2, <1>3, <1>4

LEMMA FinishKeeps ==
    ASSUME IInv, NEW e \in Execs, Finish(e) PROVE IInv'
<1> DEFINE a == <<e, ex[e].k, ex[e].i>>
<1> DEFINE out == ex[e].out
<1> DEFINE v == [att[a] EXCEPT !.st = IF out = "good" THEN "succeeded" ELSE "failed",
                               !.res = IF Uncertain(out) THEN "unresolved" ELSE "settled"]
<1> DEFINE y == After(e)
<1>1. /\ y \in Exec /\ y.pc \in {"store", "reserve", "release"} /\ y.k = ex[e].k
      /\ y.pc = "reserve" => y.i = 2 /\ ex[e].i = 1
      /\ ex[e].pc = "settle" /\ ex[e].k \in Calls /\ ex[e].i \in {1, 2}
  BY AfterFacts, ExecFacts DEF Exec, Finish, At
<1>2. Stepped(ex, ex', e, y)
  BY DEF Finish, Stepped
<1>3. Attempts(att) /\ Counters(win) /\ Counted(att, win)
  BY DEF IInv, TypeOK, Attempts, Counters, Slot, Window
<1>4. a \in Slot /\ a[1] = e
  BY <1>1, SlotFacts
<1>5. att[a].st = "reserved" /\ att[a].res = "reserved" /\ att[a] \in Attempt /\ att[a].min # 0
  <2>1. att[a].st = "reserved" /\ att[a].res = "reserved"
    BY <1>1, ExecFacts DEF Slots
  <2>2. QED BY <1>3, <1>4, <2>1 DEF Counted, Attempts
<1>6. /\ v \in Attempt /\ v.profile = att[a].profile /\ v.min = att[a].min
      /\ v.st = (IF out = "good" THEN "succeeded" ELSE "failed")
      /\ v.res = (IF Uncertain(out) THEN "unresolved" ELSE "settled")
  BY <1>5 DEF Attempt
<1>7. att' = Entered(att, a, v)
  BY <1>3, <1>4 DEF Finish, Entered, Attempts
<1>8. UNCHANGED <<row, op, sent, second, minute, faults>>
      /\ off' = IF out = "limited" THEN off \cup {Now(e)} ELSE off
  BY DEF Finish
<1>9. Uncertain(out) => out # "good"
  BY DEF Uncertain
<1>10. ex' \in [Execs -> Exec] /\ ex'[e] = y /\ \A d \in Execs : d # e => ex'[d] = ex[d]
  BY <1>1, <1>2, ExecFacts, SteppedFacts
<1>11. win' = [w \in DOMAIN win |->
                 IF Uncertain(out) \/ w \notin {<<att[a].profile, 0>>, <<att[a].profile, att[a].min>>}
                 THEN win[w]
                 ELSE [reserved |-> win[w].reserved - (IF win[w].reserved > 0 THEN 1 ELSE 0),
                       observed |-> win[w].observed + (IF out = "good" THEN 1 ELSE 0)]]
  BY DEF Finish, Settled, SettledWindow
<1> HIDE DEF a, v, y, out
<1>12. \A w \in Window :
          w \in {<<att[a].profile, 0>>, <<att[a].profile, att[a].min>>} <=> CountedBy(v, w)
  BY <1>6 DEF CountedBy, Window
<1>13. DOMAIN win = Window
  BY <1>3 DEF Counters
<1>14. ASSUME NEW w \in Window
       PROVE  /\ win'[w] \in [reserved : Nat, observed : Nat]
              /\ IF CountedBy(v, w) /\ v.res = "settled"
                 THEN /\ win'[w].reserved = win[w].reserved
                                            - (IF win[w].reserved > 0 THEN 1 ELSE 0)
                      /\ win'[w].observed = win[w].observed
                                            + (IF v.st = "succeeded" THEN 1 ELSE 0)
                 ELSE win'[w] = win[w]
  <2>1. win[w] \in [reserved : Nat, observed : Nat]
    BY <1>3 DEF Counters
  <2>2. v.res = "settled" <=> ~ Uncertain(out)
    BY <1>6
  <2>3. v.st = "succeeded" <=> out = "good"
    BY <1>6
  <2>4. CASE CountedBy(v, w) /\ v.res = "settled"
    <3>1. win'[w] = [reserved |-> win[w].reserved - (IF win[w].reserved > 0 THEN 1 ELSE 0),
                     observed |-> win[w].observed + (IF out = "good" THEN 1 ELSE 0)]
      BY <1>11, <1>12, <1>13, <2>2, <2>4
    <3>2. QED BY <2>1, <2>3, <2>4, <3>1
  <2>5. CASE ~ (CountedBy(v, w) /\ v.res = "settled")
    <3>1. win'[w] = win[w]
      BY <1>11, <1>12, <1>13, <2>2, <2>5
    <3>2. QED BY <2>1, <2>5, <3>1
  <2>6. QED BY <2>4, <2>5
<1>15. Counters(win')
  BY <1>11, <1>13, <1>14 DEF Counters
<1>16. Counted(att', win')
  <2>1. v.st \in {"succeeded", "failed"} /\ v.res \in {"settled", "unresolved"}
        /\ (v.st = "succeeded" => v.res = "settled")
    BY <1>6, <1>9
  <2>2. QED BY <1>3, <1>4, <1>5, <1>6, <1>7, <1>14, <2>1, SettledCounted
<1>17. Booked(sent', op', ex')
  <2>1. \A r \in Runs : Due(ex', r) = Due(ex, r)
    BY <1>1, <1>10 DEF Due
  <2>2. QED BY <1>8, <2>1 DEF IInv, Booked
<1>18. RowsSound(row', ex')
  <2>1. \A q : WorksOn(ex[e], q) => WorksOn(y, q)
    BY <1>1 DEF WorksOn, Working, InCall
  <2>2. row' = row
    BY <1>8
  <2>3. QED BY <1>1, <1>2, <2>1, <2>2, ExecFacts, RowsStep
<1>19. Attempts(att') /\ att'[a] = v /\ \A b \in Slot : b # a => att'[b] = att[b]
  BY <1>3, <1>4, <1>6, <1>7, EnteredFacts
<1>20. Slots(e, y, att')
  <2>1. ex[e].k \in Nat /\ Slots(e, ex[e], att)
    BY <1>1, ExecFacts DEF Calls
  <2>2. ASSUME NEW k \in Calls, k > ex[e].k PROVE Unused(att', e, k)
    <3>1. k # ex[e].k
      BY <2>1, <2>2 DEF Calls
    <3>2. \A i \in {1, 2} : att'[<<e, k, i>>] = att[<<e, k, i>>]
      BY <1>19, <3>1, SlotFacts DEF a
    <3>3. QED BY <1>1, <2>1, <2>2, <3>2 DEF Slots, Unused
  <2>3. ex[e].i = 1 => att'[<<e, ex[e].k, 2>>].st = "none"
    <3>1. ex[e].i = 1 => att'[<<e, ex[e].k, 2>>] = att[<<e, ex[e].k, 2>>]
      BY <1>1, <1>19, SlotFacts DEF a
    <3>2. QED BY <1>1, <2>1, <3>1 DEF Slots
  <2>4. QED BY <1>1, <2>2, <2>3 DEF Slots
<1>21. \A d \in Execs : Slots(d, ex'[d], att')
  <2>1. ASSUME NEW d \in Execs, d # e PROVE Slots(d, ex'[d], att')
    <3>1. ex'[d] = ex[d] /\ ex[d] \in Exec /\ Slots(d, ex[d], att)
      BY <1>10, <2>1, ExecFacts
    <3>2. Slots(d, ex[d], att')
      BY <1>3, <1>4, <1>7, <2>1, <3>1, OtherSlots
    <3>3. QED BY <3>1, <3>2
  <2>2. QED BY <1>10, <1>20, <2>1
<1>22. off' \subseteq Profiles
  BY <1>8, ExecFacts DEF IInv, TypeOK
<1>23. TypeOK'
  BY <1>8, <1>10, <1>15, <1>19, <1>22 DEF IInv, TypeOK, Attempts, Counters, Slot, Window
<1>24. QED BY <1>16, <1>17, <1>18, <1>21, <1>23 DEF IInv

-----------------------------------------------------------------------------
(* The clocks and the sweep.                                               *)

\* A step that only touches the rows, the clock and the cooldowns.
LEMMA RowsOnly ==
    ASSUME IInv, UNCHANGED <<op, att, win, ex, sent, second>>, Rows(row'),
           off' \subseteq Profiles, minute' \in Minutes, faults' \in 0 .. MaxFaults,
           RowsSound(row', ex)
    PROVE  IInv'
<1>1. TypeOK'
  BY DEF IInv, TypeOK, Rows
<1>2. Booked(sent', op', ex') /\ Counted(att', win')
  BY DEF IInv
<1>3. \A d \in Execs : Slots(d, ex'[d], att')
  BY DEF IInv
<1>4. RowsSound(row', ex')
  OBVIOUS
<1>5. QED BY <1>1, <1>2, <1>3, <1>4 DEF IInv

LEMMA LapseKeeps ==
    ASSUME IInv, NEW q \in Calls \X Profiles, Lapse(q) PROVE IInv'
<1>1. row \in [Calls \X Profiles -> Row] /\ row' = [row EXCEPT ![q].live = FALSE]
  BY DEF IInv, TypeOK, Lapse
<1>2. row[q] \in Row
  BY <1>1
<1>3. row'[q] = [row[q] EXCEPT !.live = FALSE]
  BY <1>1
<1>4. row'[q] \in Row /\ row'[q].st = row[q].st /\ row'[q].by = row[q].by
      /\ row'[q].made = row[q].made
  BY <1>2, <1>3 DEF Row
<1>5. \A p \in Calls \X Profiles : p # q => row'[p] = row[p]
  BY <1>1
<1>6. Rows(row')
  BY <1>1, <1>4, <1>5 DEF Rows
<1>7. RowsSound(row', ex)
  <2>1. RowsSound(row, ex)
    BY DEF IInv
  <2>2. RowSound(q, row'[q], ex)
    BY <1>4, <2>1 DEF RowsSound, RowSound
  <2>3. QED BY <1>5, <2>1, <2>2 DEF RowsSound
<1>8. faults' \in 0 .. MaxFaults
  BY FaultCounted DEF IInv, Lapse
<1>9. QED BY <1>6, <1>7, <1>8, RowsOnly DEF Lapse, IInv, TypeOK

LEMMA SweepKeeps ==
    ASSUME IInv, Sweep PROVE IInv'
<1>1. row \in [Calls \X Profiles -> Row]
      /\ row' = [q \in DOMAIN row |-> IF row[q].live THEN row[q] ELSE NoRow]
  BY DEF IInv, TypeOK, Sweep
<1>2. \A q \in Calls \X Profiles : row'[q] = row[q] \/ row'[q] = NoRow
  BY <1>1
<1>3. Rows(row')
  BY <1>1, NoRowFacts DEF Rows
<1>4. RowsSound(row', ex)
  BY <1>2, NoRowFacts DEF IInv, RowsSound
<1>5. faults' \in 0 .. MaxFaults
  BY FaultCounted DEF IInv, Sweep
<1>6. QED BY <1>3, <1>4, <1>5, RowsOnly DEF Sweep, IInv, TypeOK

LEMMA NextMinuteKeeps ==
    ASSUME IInv, NextMinute PROVE IInv'
<1>1. minute' \in Minutes
  BY ModelCallsAssumption DEF IInv, TypeOK, NextMinute, Minutes
<1>2. faults' \in 0 .. MaxFaults
  BY FaultCounted DEF IInv, NextMinute
<1>3. Rows(row') /\ RowsSound(row', ex)
  BY DEF IInv, TypeOK, NextMinute, Rows
<1>4. QED BY <1>1, <1>2, <1>3, RowsOnly DEF NextMinute

-----------------------------------------------------------------------------
(* The theorems.                                                           *)

LEMMA InitKeeps == Init => IInv
<1> SUFFICES ASSUME Init PROVE IInv
  OBVIOUS
<1>1. ex = [e \in Execs |-> NoExec] /\ \A e \in Execs : ex[e].pc = "idle"
  BY DEF Init, NoExec
<1>2. att = [a \in Slot |-> NoAttempt] /\ \A a \in Slot : att[a].st = "none"
  BY DEF Init, NoAttempt, Slot
<1>3. NoAttempt \in Attempt
  BY DEF NoAttempt, Attempt, Windows, Profiles
<1>4. TypeOK
  <2>1. row \in [Calls \X Profiles -> Row]
    BY NoRowFacts DEF Init
  <2>2. ex \in [Execs -> Exec]
    BY <1>1, NoExecTyped
  <2>3. att \in [Execs \X Calls \X {1, 2} -> Attempt]
    BY <1>2, <1>3 DEF Slot
  <2>4. /\ op \in [Runs -> [normal : Nat, recovery : Nat]] /\ sent \in [Runs -> Nat]
        /\ win \in [Profiles \X Windows -> [reserved : Nat, observed : Nat]]
    BY DEF Init
  <2>5. off \subseteq Profiles /\ second \in Seconds /\ minute \in Minutes
        /\ faults \in 0 .. MaxFaults
    BY ModelCallsAssumption DEF Init, Minutes
  <2>6. QED BY <2>1, <2>2, <2>3, <2>4, <2>5 DEF TypeOK
<1>5. \A e \in Execs : Slots(e, ex[e], att)
  BY <1>1, <1>2, SlotFacts DEF Slots, Unused
<1>6. Counted(att, win)
  <2>1. ASSUME NEW w \in Profiles \X Windows
        PROVE  Reserved(att, w) = {} /\ Observed(att, w) = {}
    BY <1>2 DEF Reserved, Observed, Of
  <2>2. \A w \in Profiles \X Windows :
           win[w].reserved = 0 /\ win[w].observed = 0 /\ Limit(w) \in Nat
    BY ModelCallsAssumption DEF Init, Limit
  <2>3. Cardinality({}) = 0
    BY FS_EmptySet
  <2>4. QED BY <1>2, <2>1, <2>2, <2>3 DEF Counted
<1>7. RowsSound(row, ex)
  BY NoRowFacts DEF Init, RowsSound
<1>8. Booked(sent, op, ex)
  <2>1. \A r \in Runs : Due(ex, r) = {}
    BY <1>1 DEF Due
  <2>2. Cardinality({}) = 0
    BY FS_EmptySet
  <2>3. \A r \in Runs : sent[r] = 0 /\ op[r].normal = 0 /\ op[r].recovery = 0
    BY DEF Init
  <2>4. NormalCalls \in Nat /\ RecoveryAllowance \in Nat
    BY ModelCallsAssumption
  <2>5. ASSUME NEW r \in Runs
        PROVE  /\ sent[r] + Cardinality(Due(ex, r)) <= op[r].normal + op[r].recovery
               /\ op[r].normal <= NormalCalls /\ op[r].recovery <= RecoveryAllowance
    <3>1. Cardinality(Due(ex, r)) = 0
      BY <2>1, <2>2
    <3>2. QED BY <2>3, <2>4, <3>1
  <2>6. QED BY <2>5 DEF Booked
<1>9. QED BY <1>4, <1>5, <1>6, <1>7, <1>8 DEF IInv

LEMMA NextKeeps == IInv /\ [Next]_vars => IInv'
<1> SUFFICES ASSUME IInv, [Next]_vars PROVE IInv'
  OBVIOUS
<1>1. CASE UNCHANGED vars
  BY <1>1, RowsOnly, FaultCounted DEF vars, IInv, TypeOK, Rows
<1>2. ASSUME NEW e \in Execs, Begin(e) PROVE IInv'
  BY <1>2, BeginKeeps
<1>3. ASSUME NEW e \in Execs, Call(e) PROVE IInv'
  BY <1>3, ClaimKeeps, GiveUpKeeps, AcceptKeeps, StoreKeeps, InsertKeeps, DropKeeps, ReleaseKeeps,
     AdmitKeeps, ReserveKeeps, ErrorsKeep, SendKeeps, OutcomeKeeps, FinishKeeps DEF Call
<1>4. ASSUME NEW e \in Execs, Refuse(e) PROVE IInv'
  BY <1>4, RefuseKeeps
<1>5. ASSUME NEW e \in Execs, Reject(e) \/ LedgerDown(e) \/ FinishFails(e) PROVE IInv'
  BY <1>5, ErrorsKeep
<1>6. ASSUME NEW e \in Execs, Unresolved(e) PROVE IInv'
  BY <1>6, OutcomeKeeps
<1>7. ASSUME NEW e \in Execs, Timeout(e) PROVE IInv'
  BY <1>7, TimeoutKeeps
<1>8. ASSUME NEW e \in Execs, Crash(e) \/ CacheFails(e) PROVE IInv'
  BY <1>8, CrashKeeps, CacheFailsKeeps
<1>9. ASSUME NEW q \in Calls \X Profiles, Lapse(q) PROVE IInv'
  BY <1>9, LapseKeeps
<1>10. CASE Sweep
  BY <1>10, SweepKeeps
<1>11. CASE NextMinute
  BY <1>11, NextMinuteKeeps
<1>12. QED BY <1>1, <1>2, <1>3, <1>4, <1>5, <1>6, <1>7, <1>8, <1>9, <1>10, <1>11 DEF Next

\* The inductive invariant of the calls, their cache and their ledger.
THEOREM CallsInvariant == Spec => []IInv
<1>1. QED BY InitKeeps, NextKeeps, PTL DEF Spec

\* The types of the state, whatever the executions, the steps and the limits.
THEOREM CallsTypes == Spec => []TypeOK
<1>1. IInv => TypeOK
  BY DEF IInv
<1>2. QED BY <1>1, CallsInvariant, PTL

\* No interleaving of deliveries, crashes and failures lets a run send a request
\* without a committed reservation, or reserve more than its allowance.
THEOREM AllowanceIsTheRuns == Spec => []TransmissionsWithinAllowance
<1>1. IInv => TransmissionsWithinAllowance
  <2> SUFFICES ASSUME IInv, NEW r \in Runs
               PROVE  /\ sent[r] <= op[r].normal + op[r].recovery
                      /\ op[r].normal <= NormalCalls /\ op[r].recovery <= RecoveryAllowance
    BY DEF TransmissionsWithinAllowance
  <2>1. /\ sent[r] + Cardinality(Due(ex, r)) <= op[r].normal + op[r].recovery
        /\ op[r].normal <= NormalCalls /\ op[r].recovery <= RecoveryAllowance
    BY DEF IInv, Booked
  <2>2. sent[r] \in Nat /\ op[r].normal \in Nat /\ op[r].recovery \in Nat
    BY DEF IInv, TypeOK
  <2>3. QED BY <2>1, <2>2, DueFacts
<1>2. QED BY <1>1, CallsInvariant, PTL

\* However many deliveries share a source, each window's counters are those of
\* its attempts and stay within its limit.
THEOREM WindowsAreKept == Spec => []WindowsKept
<1>1. IInv => WindowsKept
  <2> SUFFICES ASSUME IInv, NEW w \in DOMAIN win
               PROVE  /\ win[w].reserved = Cardinality({a \in Made(w) : att[a].res # "settled"})
                      /\ win[w].observed = Cardinality({a \in Made(w) : att[a].st = "succeeded"})
                      /\ Used(w) <= IF w[2] = 0 THEN DayRoom ELSE Room
    BY DEF WindowsKept
  <2>1. w \in Profiles \X Windows /\ DOMAIN att = Slot
    BY DEF IInv, TypeOK, Slot
  <2>2. Made(w) = Of(att, w)
    BY <2>1 DEF Made, Of
  <2>3. /\ {a \in Made(w) : att[a].res # "settled"} = Reserved(att, w)
        /\ {a \in Made(w) : att[a].st = "succeeded"} = Observed(att, w)
    BY <2>2 DEF Reserved, Observed
  <2>4. QED BY <2>1, <2>3 DEF IInv, Counted, Used, Limit
<1>2. QED BY <1>1, CallsInvariant, PTL

\* A stored result is always the work of the profile its key names, and a row
\* under production is in the hands of an execution at work on that call, or was
\* left by one that died or whose own write of the cache failed.
THEOREM RowsAreHonest == Spec => []RowsHonest
<1>1. IInv => RowsHonest
  BY DEF IInv, TypeOK, RowsHonest, RowsSound, RowSound, WorksOn
<1>2. QED BY <1>1, CallsInvariant, PTL

\* Nobody but its holder changes a row whose lease runs.
LEMMA LeaseStep ==
    ASSUME IInv, Next, NEW q \in Calls \X Profiles,
           row[q].st = "producing", row[q].live, row'[q] # row[q]
    PROVE  row'[q] = [row[q] EXCEPT !.live = FALSE] \/ ex'[row[q].by] # ex[row[q].by]
<1>1. row \in [Calls \X Profiles -> Row]
  BY DEF IInv, TypeOK
<1>2. ASSUME NEW e \in Execs, Claim(e) PROVE FALSE
  BY <1>1, <1>2, KeyFacts DEF IInv, Claim, Claimable
<1>3. ASSUME NEW e \in Execs, Refuse(e) PROVE FALSE
  BY <1>1, <1>3, KeyFacts DEF IInv, Refuse, Invalidated
<1>4. ASSUME NEW e \in Execs, Store(e) PROVE ex'[row[q].by] # ex[row[q].by]
  <2> DEFINE y == IF row[Target(e)].st = "none" THEN [ex[e] EXCEPT !.pc = "insert"]
                  ELSE AfterStore(e)
  <2>1. ex' = [ex EXCEPT ![e] = y] /\ ex[e].pc = "store" /\ ex[e] \in Exec
    BY <1>4, ExecFacts DEF Store, At
  <2>2. y.pc # "store"
    BY <2>1, AfterStoreFacts DEF Exec
  <2> HIDE DEF y
  <2>3. ex'[e] = y
    BY <2>1, ExecFacts
  <2>4. row[q].by = e
    BY <1>1, <1>4, TargetFacts DEF Store, Stored, Holds
  <2>5. QED BY <2>1, <2>2, <2>3, <2>4
<1>5. ASSUME NEW e \in Execs, Drop(e) PROVE ex'[row[q].by] # ex[row[q].by]
  <2>1. ex' = [ex EXCEPT ![e] = Onward(e)] /\ ex[e].pc = "drop"
    BY <1>5 DEF Drop, At
  <2>2. Onward(e).pc # "drop" /\ ex'[e] = Onward(e)
    BY <2>1, OnwardFacts, ExecFacts
  <2>3. row[q].by = e
    BY <1>1, <1>5, KeyFacts DEF IInv, Drop, Released, Holds
  <2>4. QED BY <2>1, <2>2, <2>3
<1>6. ASSUME NEW e \in Execs, Release(e) PROVE ex'[row[q].by] # ex[row[q].by]
  <2> DEFINE pc == IF ex[e].timed THEN "cancelled" ELSE "failed"
  <2> DEFINE y == [NoExec EXCEPT !.pc = pc, !.retry = ex[e].retry]
  <2>1. ex' = [ex EXCEPT ![e] = y] /\ ex[e].pc = "release"
    BY <1>6 DEF Release, End, At
  <2>2. y.pc # "release"
    BY DEF NoExec
  <2> HIDE DEF y
  <2>3. ex'[e] = y
    BY <2>1, ExecFacts
  <2>4. row[q].by = e
    BY <1>1, <1>6, KeyFacts DEF IInv, Release, Released, Holds
  <2>5. QED BY <2>1, <2>2, <2>3, <2>4
<1>7. ASSUME NEW p \in Calls \X Profiles, Lapse(p)
      PROVE  row'[q] = [row[q] EXCEPT !.live = FALSE]
  BY <1>1, <1>7 DEF Lapse
<1>8. CASE Sweep
  BY <1>1, <1>8 DEF Sweep
<1>9. CASE NextMinute
  BY <1>9 DEF NextMinute
<1>10. ASSUME NEW e \in Execs, Call(e)
       PROVE  row' = row \/ Claim(e) \/ Store(e) \/ Insert(e) \/ Drop(e) \/ Release(e)
  BY <1>10 DEF Call, GiveUp, Accept, Admit, Reserve, Exhausted, Full, Send, Answer, Finish
<1>11. ASSUME NEW e \in Execs,
              \/ Begin(e) \/ Reject(e) \/ LedgerDown(e) \/ Unresolved(e)
              \/ FinishFails(e) \/ CacheFails(e) \/ Timeout(e) \/ Crash(e)
       PROVE  row' = row
  BY <1>11 DEF Begin, Reject, LedgerDown, Unresolved, FinishFails, CacheFails, Timeout, Crash
<1>12. ASSUME NEW e \in Execs, Insert(e) PROVE FALSE
  BY <1>1, <1>12, TargetFacts DEF Insert
<1>13. QED BY <1>2, <1>3, <1>4, <1>5, <1>6, <1>7, <1>8, <1>9, <1>10, <1>11, <1>12 DEF Next

\* No late end of an execution whose lease was taken over touches the new
\* holder's row.
THEOREM LeasesAreRespected == Spec => LeaseRespected
<1>1. IInv /\ [Next]_vars =>
        [\A q \in DOMAIN row :
            row[q].st = "producing" /\ row[q].live /\ row'[q] # row[q]
            => row'[q] = [row[q] EXCEPT !.live = FALSE] \/ ex'[row[q].by] # ex[row[q].by]]_vars
  <2>1. IInv => DOMAIN row = Calls \X Profiles
    BY DEF IInv, TypeOK
  <2>2. QED BY <2>1, LeaseStep
<1>2. QED BY <1>1, CallsInvariant, PTL DEF Spec, LeaseRespected

=============================================================================
