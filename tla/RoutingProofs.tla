---------------------------- MODULE RoutingProofs ----------------------------
(***************************************************************************)
(* What holds of Routing for every set of stages, profiles, providers and  *)
(* routes.  The choice of the profiles is a filter, a removal of           *)
(* duplicates and a sort, all of them Picked: the positions that are kept, *)
(* each at its rank in a strict total order.  A rank is a bijection, so    *)
(* what is picked is a sequence of what is kept (PickedFacts), and with it *)
(* every profile of a call is one its packet may go to (Sendable).         *)
(***************************************************************************)
EXTENDS Routing, FiniteSetTheorems, FunctionTheorems, SequenceTheorems, TLAPS

-----------------------------------------------------------------------------
(* Sorting.                                                                *)

\* A strict total order of K.
Sorts(before, K) ==
    /\ \A j \in K : <<j, j>> \notin before
    /\ \A i, j, k \in K : <<i, j>> \in before /\ <<j, k>> \in before => <<i, k>> \in before
    /\ \A j, k \in K : j # k => <<j, k>> \in before \/ <<k, j>> \in before

Below(before, K, k) == {j \in K : <<j, k>> \in before}

LEMMA RankBounds ==
    ASSUME NEW K, IsFiniteSet(K), NEW before, Sorts(before, K), NEW k \in K
    PROVE  Cardinality(Below(before, K, k)) \in 0 .. Cardinality(K) - 1
<1> DEFINE B == Below(before, K, k)
<1>1. B \in SUBSET K /\ k \notin B
  BY DEF Sorts, Below
<1> HIDE DEF B
<1>2. IsFiniteSet(B) /\ Cardinality(B) <= Cardinality(K)
      /\ (Cardinality(K) = Cardinality(B) => K = B)
  BY <1>1, FS_Subset
<1>3. Cardinality(B) \in Nat /\ Cardinality(K) \in Nat
  BY <1>2, FS_CardinalityType
<1>4. B # K
  BY <1>1
<1>5. QED BY <1>2, <1>3, <1>4 DEF B

LEMMA RankGrows ==
    ASSUME NEW K, IsFiniteSet(K), NEW before, Sorts(before, K), NEW j \in K, NEW k \in K,
           <<j, k>> \in before
    PROVE  Cardinality(Below(before, K, j)) < Cardinality(Below(before, K, k))
<1> DEFINE A == Below(before, K, j)
<1> DEFINE B == Below(before, K, k)
<1>1. A \in SUBSET B /\ A # B /\ B \in SUBSET K
  BY DEF Sorts, Below
<1> HIDE DEF A, B
<1>2. IsFiniteSet(B)
  BY <1>1, FS_Subset
<1>3. IsFiniteSet(A) /\ Cardinality(A) <= Cardinality(B)
      /\ (Cardinality(B) = Cardinality(A) => B = A)
  BY <1>1, <1>2, FS_Subset
<1>4. Cardinality(A) \in Nat /\ Cardinality(B) \in Nat
  BY <1>2, <1>3, FS_CardinalityType
<1>5. QED BY <1>1, <1>3, <1>4 DEF A, B

LEMMA RankBijective ==
    ASSUME NEW K, IsFiniteSet(K), NEW before, Sorts(before, K)
    PROVE  /\ \A j, k \in K :
                 Cardinality(Below(before, K, j)) = Cardinality(Below(before, K, k)) => j = k
           /\ \A n \in 0 .. Cardinality(K) - 1 :
                 \E k \in K : Cardinality(Below(before, K, k)) = n
<1> DEFINE size == Cardinality(K)
<1> DEFINE rank == [k \in K |-> Cardinality(Below(before, K, k))]
<1>1. size \in Nat
  BY FS_CardinalityType
<1>2. rank \in [K -> 0 .. size - 1]
  BY RankBounds
<1>3. \A j, k \in K : rank[j] = rank[k] => j = k
  <2>1. ASSUME NEW j \in K, NEW k \in K, j # k PROVE rank[j] # rank[k]
    <3>1. <<j, k>> \in before \/ <<k, j>> \in before
      BY <2>1 DEF Sorts
    <3>2. rank[j] \in Int /\ rank[k] \in Int
      BY <1>1, <1>2
    <3>3. rank[j] < rank[k] \/ rank[k] < rank[j]
      BY <3>1, RankGrows
    <3>4. QED BY <3>2, <3>3
  <2>2. QED BY <2>1
<1>4. IsFiniteSet(0 .. size - 1) /\ Cardinality(0 .. size - 1) = size
  BY <1>1, FS_Interval, SMTT(20)
<1> HIDE DEF rank, size
<1>5. rank \in Injection(K, 0 .. size - 1)
  BY <1>2, <1>3, Fun_IsInj
<1>6. rank \in Surjection(K, 0 .. size - 1)
  BY <1>4, <1>5, FS_Injection DEF size
<1>7. \A n \in 0 .. size - 1 : \E k \in K : rank[k] = n
  BY <1>6, Fun_SurjectionProperties
<1>8. QED BY <1>3, <1>7 DEF rank, size

\* Picked is a sequence of the elements at K, the first position first.
LEMMA PickedFacts ==
    ASSUME NEW K, IsFiniteSet(K), NEW before, Sorts(before, K), NEW T, NEW s,
           \A k \in K : s[k] \in T
    PROVE  /\ Picked(s, K, before) \in Seq(T)
           /\ Len(Picked(s, K, before)) = Cardinality(K)
           /\ \A k \in K : (\A j \in K : <<j, k>> \notin before) =>
                 Picked(s, K, before) # <<>> /\ Picked(s, K, before)[1] = s[k]
<1> DEFINE size == Cardinality(K)
<1> DEFINE Nth(n) == CHOOSE k \in K : Cardinality(Below(before, K, k)) = n - 1
<1>1. size \in Nat
  BY FS_CardinalityType
<1>2. \A n \in 1 .. size : n - 1 \in 0 .. size - 1
  BY <1>1
<1>3. \A n \in 1 .. size : Nth(n) \in K /\ Cardinality(Below(before, K, Nth(n))) = n - 1
  BY <1>2, RankBijective
<1>4. Picked(s, K, before) = [n \in 1 .. size |-> s[Nth(n)]]
  BY DEF Picked, Below
<1> HIDE DEF Nth, size
<1>5. Picked(s, K, before) \in [1 .. size -> T]
  BY <1>3, <1>4
<1>6. Picked(s, K, before) \in Seq(T) /\ Len(Picked(s, K, before)) = size
  BY <1>1, <1>5
<1>7. ASSUME NEW k \in K, \A j \in K : <<j, k>> \notin before
      PROVE  Picked(s, K, before) # <<>> /\ Picked(s, K, before)[1] = s[k]
  <2>1. Below(before, K, k) = {}
    BY <1>7 DEF Below
  <2>2. Cardinality(Below(before, K, k)) = 0
    BY <2>1, FS_EmptySet
  <2>3. size # 0
    BY FS_EmptySet DEF size
  <2>4. 1 \in 1 .. size /\ 1 - 1 = 0
    BY <1>1, <2>3
  <2>5. Nth(1) \in K /\ Cardinality(Below(before, K, Nth(1))) = 0
    BY <1>3, <2>4
  <2>6. Nth(1) = k
    BY <2>2, <2>5, RankBijective
  <2>7. Picked(s, K, before)[1] = s[k]
    BY <1>4, <2>4, <2>6
  <2>8. QED BY <1>6, <2>3, <2>7
<1>8. QED BY <1>6, <1>7 DEF size


-----------------------------------------------------------------------------
(* The choice of the profiles.                                             *)

LEMMA FirstOfEachFacts ==
    ASSUME NEW R, NEW s \in Seq(R), NEW A
    PROVE  /\ FirstOfEach(s, A) \in Seq(A \cap R)
           /\ s # <<>> /\ s[1] \in A =>
                 FirstOfEach(s, A) # <<>> /\ FirstOfEach(s, A)[1] = s[1]
<1> DEFINE K == {k \in DOMAIN s : s[k] \in A /\ \A j \in 1 .. k - 1 : s[j] # s[k]}
<1> DEFINE before == {e \in K \X K : e[1] < e[2]}
<1>1. DOMAIN s = 1 .. Len(s) /\ Len(s) \in Nat /\ \A k \in 1 .. Len(s) : s[k] \in R
  BY LenProperties, ElementOfSeq
<1>2. K \in SUBSET (1 .. Len(s)) /\ \A k \in K : s[k] \in A \cap R
  BY <1>1
<1>3. s # <<>> /\ s[1] \in A => 1 \in K
  BY <1>1, EmptySeq
<1>4. FirstOfEach(s, A) = Picked(s, K, before)
  BY DEF FirstOfEach
<1> HIDE DEF K
<1>5. IsFiniteSet(K)
  <2>1. IsFiniteSet(1 .. Len(s))
    BY <1>1, FS_Interval
  <2>2. QED BY <1>2, <2>1, FS_Subset
<1>6. \A k \in K : k \in Int /\ k >= 1
  BY <1>1, <1>2
<1>7. \A j, k \in K : <<j, k>> \in before <=> j < k
  OBVIOUS
<1> HIDE DEF before
<1>8. Sorts(before, K)
  BY <1>6, <1>7 DEF Sorts
<1>9. 1 \in K => \A j \in K : <<j, 1>> \notin before
  BY <1>6, <1>7
<1>10. /\ Picked(s, K, before) \in Seq(A \cap R)
       /\ \A k \in K : (\A j \in K : <<j, k>> \notin before) =>
             Picked(s, K, before) # <<>> /\ Picked(s, K, before)[1] = s[k]
  <2>1. IsFiniteSet(K) /\ Sorts(before, K) /\ \A k \in K : s[k] \in A \cap R
    BY <1>2, <1>5, <1>8
  <2> DEFINE T == A \cap R
  <2> HIDE DEF T
  <2>2. \A k \in K : s[k] \in T
    BY <2>1 DEF T
  <2>3. /\ Picked(s, K, before) \in Seq(T)
        /\ Len(Picked(s, K, before)) = Cardinality(K)
        /\ \A k \in K : (\A j \in K : <<j, k>> \notin before) =>
              Picked(s, K, before) # <<>> /\ Picked(s, K, before)[1] = s[k]
    BY <2>1, <2>2, PickedFacts
  <2>4. QED BY <2>3 DEF T
<1>11. s # <<>> /\ s[1] \in A =>
          Picked(s, K, before) # <<>> /\ Picked(s, K, before)[1] = s[1]
  BY <1>3, <1>9, <1>10
<1>12. QED BY <1>4, <1>10, <1>11

\* The profiles a packet of the class may be sent to on route r, and those that
\* may be asked first.
Usable(r, class) == Allowed(r, class) \cap Referenced(r)
Firsts(r, class) == IF class \in Clean THEN {r.primary, r.clean} ELSE {r.primary}

LEMMA ProfileNamesFacts ==
    ASSUME NEW r \in Routes, NEW class \in Classes
    PROVE  /\ ProfileNames(r, class) \in Seq(Usable(r, class))
           /\ ProfileNames(r, class) # <<>> /\ ProfileNames(r, class)[1] \in Firsts(r, class)
<1> DEFINE clean == class \in Clean /\ r.clean # NoProfile
<1> DEFINE first == IF r.gemini /\ class \in Clean /\ r.clean # NoProfile
                    THEN r.clean ELSE r.primary
<1> DEFINE last == IF clean THEN <<r.primary>> ELSE <<>>
<1> DEFINE named == <<first>> \o r.fallbacks \o last
<1>1. /\ r.primary \in Profiles /\ Provider[r.primary] # "gemini"
      /\ r.clean \in Profiles \cup {NoProfile} /\ r.fallbacks \in Seq(Profiles)
      /\ NoProfile \notin Profiles
  BY RoutingAssumption
<1>2. first \in Referenced(r) /\ first \in Allowed(r, class) /\ first \in Firsts(r, class)
  BY <1>1 DEF Referenced, Allowed, GeminiAllowed, Firsts
<1>3. r.fallbacks \in Seq(Referenced(r))
  <2>1. DOMAIN r.fallbacks = 1 .. Len(r.fallbacks) /\ Len(r.fallbacks) \in Nat
        /\ r.fallbacks \in [1 .. Len(r.fallbacks) -> Profiles]
    BY <1>1, LenProperties
  <2>2. \A k \in 1 .. Len(r.fallbacks) : r.fallbacks[k] \in Referenced(r)
    BY <2>1 DEF Referenced, Range
  <2> DEFINE f == r.fallbacks
  <2> HIDE DEF f
  <2>3. f \in [1 .. Len(f) -> Referenced(r)] /\ Len(f) \in Nat
    BY <2>1, <2>2 DEF f
  <2>4. f \in Seq(Referenced(r))
    BY <2>3
  <2>5. QED BY <2>4 DEF f
<1>4. last \in Seq(Referenced(r))
  <2>1. r.primary \in Referenced(r)
    BY <1>1 DEF Referenced
  <2>2. <<r.primary>> \in Seq(Referenced(r)) /\ <<>> \in Seq(Referenced(r))
    BY <2>1, EmptySeq
  <2>3. QED BY <2>2
<1> HIDE DEF first, last
<1>5. <<first>> \in Seq(Referenced(r)) /\ Len(<<first>>) = 1 /\ <<first>>[1] = first
  BY <1>2
<1>6. /\ <<first>> \o r.fallbacks \in Seq(Referenced(r))
      /\ Len(<<first>> \o r.fallbacks) = 1 + Len(r.fallbacks)
      /\ (<<first>> \o r.fallbacks)[1] = first /\ Len(r.fallbacks) \in Nat
  BY <1>3, <1>5
<1>7. named \in Seq(Referenced(r)) /\ named # <<>> /\ named[1] = first
  BY <1>4, <1>6
<1>8. ProfileNames(r, class) = FirstOfEach(named, Allowed(r, class))
  BY DEF ProfileNames, first, last
<1> HIDE DEF named
<1>9. QED BY <1>2, <1>7, <1>8, FirstOfEachFacts DEF Usable

\* The registry, as far as an order needs it.
CapTyped == cap \in [Sources -> Snapshot]

LEMMA ScoreTyped == ASSUME CapTyped, NEW s \in Sources PROVE Score(s) \in Int
<1> DEFINE left == (800 * cap[s].limit - 1000 * cap[s].used) \div cap[s].limit
<1>1. cap[s].limit \in {0, Limit} /\ cap[s].used \in 0 .. Limit
  BY DEF CapTyped, Snapshot
<1>2. CASE cap[s].limit = 0
  BY <1>2 DEF Score
<1>3. CASE cap[s].limit # 0
  <2>1. cap[s].limit \in Nat \ {0} /\ cap[s].used \in Int
    BY <1>1, <1>3, RoutingAssumption
  <2>2. left \in Int
    BY <2>1
  <2> HIDE DEF left
  <2>3. Max({0, left}) \in {0, left}
    <3>1. \E x \in {0, left} : \A y \in {0, left} : x >= y
      BY <2>2
    <3>2. QED BY <3>1 DEF Max
  <2>4. Score(s) = Max({0, left})
    BY <1>3 DEF Score, left
  <2>5. QED BY <2>2, <2>3, <2>4
<1>4. QED BY <1>2, <1>3

LEMMA OrderedFacts ==
    ASSUME CapTyped, NEW A, A \subseteq Profiles, NEW names \in Seq(A), names # <<>>
    PROVE  Ordered(names) \in Seq(A) /\ Ordered(names) # <<>> /\ Ordered(names)[1] = names[1]
<1> DEFINE K == Free(names) \ {1}
<1>1. DOMAIN names = 1 .. Len(names) /\ Len(names) \in Nat \ {0}
      /\ \A k \in 1 .. Len(names) : names[k] \in A
  BY LenProperties, ElementOfSeq, EmptySeq
<1>2. K \in SUBSET (1 .. Len(names)) /\ \A k \in K : names[k] \in A
  BY <1>1 DEF Free
<1>3. IsFiniteSet(K)
  <2>1. IsFiniteSet(1 .. Len(names))
    BY <1>1, FS_Interval
  <2>2. QED BY <1>2, <2>1, FS_Subset
<1> HIDE DEF K
<1> DEFINE score == [k \in K |-> Score(Source[names[k]])]
<1>4. \A k \in K : score[k] \in Int /\ k \in Int
  <2>1. \A k \in K : Source[names[k]] \in Sources
    BY <1>2 DEF Sources
  <2>2. QED BY <1>1, <1>2, <2>1, ScoreTyped
<1>5. \A j, k \in K : <<j, k>> \in Roomier(names)
                      <=> score[j] > score[k] \/ (score[j] = score[k] /\ j < k)
  BY <1>2 DEF Roomier
<1> HIDE DEF score
<1>6. Sorts(Roomier(names), K)
  <2>1. \A j \in K : <<j, j>> \notin Roomier(names)
    BY <1>4, <1>5
  <2>2. \A i, j, k \in K : <<i, j>> \in Roomier(names) /\ <<j, k>> \in Roomier(names)
                           => <<i, k>> \in Roomier(names)
    BY <1>4, <1>5
  <2>3. \A j, k \in K : j # k => <<j, k>> \in Roomier(names) \/ <<k, j>> \in Roomier(names)
    BY <1>4, <1>5
  <2>4. QED BY <2>1, <2>2, <2>3 DEF Sorts
<1>7. Picked(names, K, Roomier(names)) \in Seq(A)
  BY <1>2, <1>3, <1>6, PickedFacts
<1>8. names[1] \in A
  BY <1>1
<1>9. CASE Len(names) <= 1
  BY <1>9 DEF Ordered
<1>10. CASE ~ (Len(names) <= 1)
  <2>1. Ordered(names) = <<names[1]>> \o Picked(names, K, Roomier(names))
    BY <1>10 DEF Ordered, K
  <2>2. QED BY <1>7, <1>8, <2>1
<1>11. QED BY <1>9, <1>10

\* What a call of the class may try on route r.
LEMMA CandidatesFacts ==
    ASSUME CapTyped, NEW r \in Routes, NEW class \in Classes
    PROVE  /\ Candidates(r, class) \in Seq(Usable(r, class))
           /\ Candidates(r, class) # <<>> /\ Candidates(r, class)[1] \in Firsts(r, class)
<1> DEFINE names == Ordered(ProfileNames(r, class))
<1>1. names \in Seq(Usable(r, class)) /\ names # <<>> /\ names[1] \in Firsts(r, class)
  <2>1. Usable(r, class) \subseteq Profiles
    BY DEF Usable, Allowed
  <2>2. QED BY <2>1, ProfileNamesFacts, OrderedFacts
<1> HIDE DEF names
<1>2. names \o names \in Seq(Usable(r, class)) /\ Len(names) \in Nat \ {0}
  BY <1>1, EmptySeq
<1>3. names \o names # <<>> /\ (names \o names)[1] = names[1]
  BY <1>1, <1>2
<1>4. Candidates(r, class) \in {names, names \o names}
  BY DEF Candidates, names
<1>5. QED BY <1>1, <1>2, <1>3, <1>4


-----------------------------------------------------------------------------
(* The invariant.                                                          *)

\* Every profile a call may try, or tried, is one its packet may go to.
Sendable(r, c, x) ==
    /\ x.names \in Seq(Usable(r, x.class))
    /\ x.asked \subseteq Allowed(r, x.class)
    /\ c \in Stages /\ x.names # <<>> => x.names[1] \in Firsts(r, x.class)
    /\ x.pc \in {"reserve", "wait", "settle"} => x.i \in 1 .. Len(x.names)
    /\ x.pc = "idle" => x.class = "personal" /\ x.i = 1 /\ x.asked = {}

\* The reservations a call leaves open.
Balanced(x) ==
    /\ x.pc \in {"idle", "reserve", "done"} => x.open = 0
    /\ x.pc \in {"wait", "settle"} => x.open = 1
    /\ x.pc = "failed" => x.open = 0 \/ (x.open = 1 /\ x.why = "settlement")
    /\ x.pc = "cancelled" => x.open \in {0, 1}

IInv ==
    /\ TypeOK
    /\ \A p \in Referenced(route) : Valid(p)
    /\ \A c \in Calls : Sendable(route, c, call[c]) /\ Balanced(call[c])

\* Everything but the calls.
Surroundings ==
    /\ cap \in [Sources -> Snapshot] /\ receipt \in [Profiles -> Nat]
    /\ now \in 0 .. MaxNow /\ faults \in 0 .. MaxFaults

LEMMA StateTypes ==
    ASSUME IInv
    PROVE  /\ route \in Routes /\ call \in [Calls -> Call] /\ Surroundings /\ CapTyped
           /\ now \in Nat
           /\ \A c \in Calls : /\ call[c] \in Call /\ Sendable(route, c, call[c])
                               /\ Balanced(call[c])
  BY RoutingAssumption DEF IInv, TypeOK, Surroundings, CapTyped

\* One call changes.
LEMMA SetKeeps ==
    ASSUME IInv, NEW c \in Calls, NEW y, Set(c, y), UNCHANGED route, Surroundings',
           y \in Call, Sendable(route, c, y), Balanced(y)
    PROVE  IInv'
<1>1. call' = [call EXCEPT ![c] = y]
  BY DEF Set
<1>2. /\ call' \in [Calls -> Call] /\ call'[c] = y
      /\ \A d \in Calls : d # c => call'[d] = call[d]
  BY <1>1, StateTypes
<1>3. TypeOK'
  BY <1>2, StateTypes DEF TypeOK, Surroundings
<1>4. \A d \in Calls : Sendable(route, d, call'[d]) /\ Balanced(call'[d])
  BY <1>2, StateTypes
<1>5. QED BY <1>3, <1>4 DEF IInv

\* A step leaves the surroundings typed when it leaves them.
LEMMA SameSurroundings ==
    ASSUME IInv, UNCHANGED <<cap, receipt, now>>, faults' = faults \/ Fault
    PROVE  Surroundings'
<1>1. Surroundings
  BY StateTypes
<1>2. faults' \in 0 .. MaxFaults
  BY <1>1, RoutingAssumption DEF Surroundings, Fault
<1>3. QED BY <1>1, <1>2 DEF Surroundings

LEMMA NoCallFacts ==
    /\ NoCall \in Call /\ NoCall.pc = "idle" /\ NoCall.class = "personal" /\ NoCall.names = <<>>
    /\ NoCall.i = 1 /\ NoCall.asked = {} /\ NoCall.open = 0
<1>1. <<>> \in Seq(Profiles)
  BY EmptySeq
<1>2. QED BY <1>1 DEF NoCall, Call, Classes, Results

LEMMA EndedFacts ==
    ASSUME NEW x, x.sent \in BOOLEAN, x.open \in Nat, NEW pc \in {"done", "failed", "cancelled"},
           NEW retry \in BOOLEAN,
           NEW why \in {"none", "route", "ledger", "settlement", "provider"}
    PROVE  LET y == Ended(x, pc, retry, why)
           IN  /\ y \in Call /\ y.pc = pc /\ y.open = x.open /\ y.why = why
               /\ y.names = <<>> /\ y.asked = {}
  BY NoCallFacts DEF Ended, Call

\* A call ends.
LEMMA EndKeeps ==
    ASSUME IInv, NEW c \in Calls, UNCHANGED route, Surroundings',
           NEW x, x.sent \in BOOLEAN, x.open \in Nat, NEW pc \in {"done", "failed", "cancelled"},
           NEW retry \in BOOLEAN,
           NEW why \in {"none", "route", "ledger", "settlement", "provider"},
           Set(c, Ended(x, pc, retry, why)),
           pc = "done" => x.open = 0,
           pc = "failed" => x.open = 0 \/ (x.open = 1 /\ why = "settlement"),
           pc = "cancelled" => x.open \in {0, 1}
    PROVE  IInv'
<1> DEFINE y == Ended(x, pc, retry, why)
<1>1. /\ y \in Call /\ y.pc = pc /\ y.open = x.open /\ y.why = why
      /\ y.names = <<>> /\ y.asked = {}
  BY EndedFacts
<1>2. Set(c, y)
  OBVIOUS
<1> HIDE DEF y
<1>3. Sendable(route, c, y)
  <2>1. <<>> \in Seq(Usable(route, y.class))
    BY EmptySeq
  <2>2. QED BY <1>1, <2>1 DEF Sendable
<1>4. Balanced(y)
  BY <1>1 DEF Balanced
<1>5. QED BY <1>1, <1>2, <1>3, <1>4, SetKeeps

-----------------------------------------------------------------------------
(* The steps of a stage.                                                   *)

LEMMA CallTyped ==
    ASSUME NEW x \in Call
    PROVE  /\ x.names \in Seq(Profiles) /\ x.i \in Nat /\ x.normal \in Nat /\ x.recovery \in Nat
           /\ x.sent \in BOOLEAN /\ x.posts \in Nat /\ x.asked \in SUBSET Profiles
           /\ x.open \in Nat /\ x.delay \in Nat /\ x.out \in Results /\ x.class \in Classes
  BY DEF Call

LEMMA StartKeeps ==
    ASSUME IInv, NEW c \in Calls, Start(c) PROVE IInv'
<1>1. /\ At(c, "idle") /\ UNCHANGED <<route, cap, receipt, now, faults>>
      /\ call[c] \in Call /\ Sendable(route, c, call[c]) /\ Balanced(call[c])
  BY StateTypes DEF Start
<1>2. PICK class \in Classes :
         Set(c, IF Candidates(route, class) = <<>> THEN Failed(call[c], FALSE, "route")
                ELSE [call[c] EXCEPT !.pc = "reserve", !.class = class,
                                     !.names = Candidates(route, class),
                                     !.i = 1, !.normal = @ + 1, !.asked = {}])
  BY DEF Start
<1> DEFINE names == Candidates(route, class)
<1> DEFINE y == [call[c] EXCEPT !.pc = "reserve", !.class = class, !.names = names,
                                !.i = 1, !.normal = @ + 1, !.asked = {}]
<1>3. names \in Seq(Usable(route, class)) /\ names # <<>> /\ names[1] \in Firsts(route, class)
  BY CandidatesFacts, StateTypes
<1>4. names \in Seq(Profiles) /\ Len(names) \in Nat \ {0}
  <2>1. Usable(route, class) \subseteq Profiles
    BY DEF Usable, Allowed
  <2>2. QED BY <1>3, <2>1, SeqMonotonic, EmptySeq
<1>5. Set(c, y)
  BY <1>2, <1>3
<1> HIDE DEF names
<1>6. /\ y \in Call /\ y.pc = "reserve" /\ y.class = class /\ y.names = names /\ y.i = 1
      /\ y.asked = {} /\ y.open = call[c].open
  <2>1. call[c] \in Call /\ call[c].normal + 1 \in Nat /\ 1 \in Nat
    BY <1>1, CallTyped
  <2>2. class \in Classes /\ names \in Seq(Profiles) /\ {} \in SUBSET Profiles
    BY <1>4
  <2>3. QED BY <2>1, <2>2 DEF Call
<1> HIDE DEF y
<1>7. Sendable(route, c, y)
  BY <1>3, <1>4, <1>6 DEF Sendable
<1>8. Balanced(y)
  BY <1>1, <1>6 DEF Balanced, At
<1>9. Surroundings'
  BY <1>1, SameSurroundings
<1>10. QED BY <1>1, <1>5, <1>6, <1>7, <1>8, <1>9, SetKeeps


LEMMA RejectKeeps ==
    ASSUME IInv, NEW c \in Calls, Reject(c) PROVE IInv'
<1>1. /\ At(c, "idle") /\ UNCHANGED <<route, cap, receipt, now, faults>>
      /\ call[c] \in Call /\ Balanced(call[c])
  BY StateTypes DEF Reject
<1>2. call[c].open = 0 /\ call[c].sent \in BOOLEAN /\ call[c].open \in Nat
  BY <1>1, CallTyped DEF Balanced, At
<1>3. Surroundings'
  BY <1>1, SameSurroundings
<1>4. PICK again \in BOOLEAN : Set(c, Ended(call[c], "failed", again, "route"))
  BY DEF Reject, Failed
<1>5. QED BY <1>1, <1>2, <1>3, <1>4, EndKeeps

LEMMA DeniedKeeps ==
    ASSUME IInv, NEW c \in Calls, Denied(c) PROVE IInv'
<1>1. PICK again \in BOOLEAN : Set(c, Ended(call[c], "failed", again, "ledger"))
  BY DEF Denied, Failed
<1>2. /\ At(c, "reserve") /\ UNCHANGED <<route, cap, receipt, now, faults>>
      /\ call[c] \in Call /\ Balanced(call[c])
  BY StateTypes DEF Denied
<1>3. call[c].open = 0 /\ call[c].sent \in BOOLEAN /\ call[c].open \in Nat
  BY <1>2, CallTyped DEF Balanced, At
<1>4. Surroundings'
  BY <1>2, SameSurroundings
<1>5. QED BY <1>1, <1>2, <1>3, <1>4, EndKeeps

\* The profile a call is at.
LEMMA CurrentFacts ==
    ASSUME IInv, NEW c \in Calls, call[c].pc \in {"reserve", "wait", "settle"}
    PROVE  /\ Current(c) \in Profiles /\ Valid(Current(c))
           /\ Current(c) \in Allowed(route, call[c].class)
           /\ Source[Current(c)] \in Sources
<1> DEFINE x == call[c]
<1>1. x.names \in Seq(Usable(route, x.class)) /\ x.i \in 1 .. Len(x.names)
  BY StateTypes DEF Sendable
<1>2. x.names[x.i] \in Usable(route, x.class)
  BY <1>1, ElementOfSeq
<1>3. QED BY <1>2 DEF Current, Usable, Allowed, IInv, Sources

LEMMA SendKeeps ==
    ASSUME IInv, NEW c \in Calls, Send(c) PROVE IInv'
<1> DEFINE p == Current(c)
<1> DEFINE x == call[c]
<1> DEFINE y1 == [x EXCEPT !.sent = c \in Stages, !.open = @ + 1]
<1> DEFINE y == IF p \in Keyed
                THEN [y1 EXCEPT !.pc = "wait", !.posts = 1, !.asked = @ \cup {p}]
                ELSE [y1 EXCEPT !.pc = "settle", !.out = "refused", !.delay = 0]
<1>1. x.pc = "reserve" /\ UNCHANGED <<route, cap, receipt, now, faults>> /\ Set(c, y)
  BY DEF Send, At
<1>2. x \in Call /\ Sendable(route, c, x) /\ Balanced(x) /\ x.open = 0
  BY <1>1, StateTypes DEF Balanced
<1>3. p \in Profiles /\ p \in Allowed(route, x.class)
  BY <1>1, CurrentFacts
<1> HIDE DEF p, x
<1>4. y1 \in Call /\ y1.open = 1 /\ y1.names = x.names /\ y1.class = x.class
      /\ y1.i = x.i /\ y1.asked = x.asked
  <2>1. \A b \in BOOLEAN, n \in Nat :
           LET z == [x EXCEPT !.sent = b, !.open = n]
           IN  /\ z \in Call /\ z.open = n /\ z.names = x.names /\ z.class = x.class
               /\ z.i = x.i /\ z.asked = x.asked
    BY <1>2 DEF Call
  <2>2. x.open + 1 = 1 /\ 1 \in Nat /\ (c \in Stages) \in BOOLEAN
    BY <1>2
  <2>3. y1 = [x EXCEPT !.sent = c \in Stages, !.open = 1]
    BY <1>2, <2>2 DEF Call
  <2>4. QED BY <2>1, <2>2, <2>3
<1> HIDE DEF y1
<1>5. /\ y \in Call /\ y.pc \in {"wait", "settle"} /\ y.open = 1 /\ y.names = x.names
      /\ y.class = x.class /\ y.i = x.i /\ y.asked \subseteq x.asked \cup {p}
  <2>1. CASE p \in Keyed
    <3>1. y1.asked \cup {p} \in SUBSET Profiles /\ 1 \in Nat
      BY <1>3, <1>4, CallTyped
    <3>2. y = [y1 EXCEPT !.pc = "wait", !.posts = 1, !.asked = @ \cup {p}]
      BY <2>1
    <3>3. QED BY <1>4, <3>1, <3>2 DEF Call
  <2>2. CASE p \notin Keyed
    BY <1>4, <2>2 DEF Call, Results
  <2>3. QED BY <2>1, <2>2
<1> HIDE DEF y
<1>6. Sendable(route, c, y)
  BY <1>1, <1>2, <1>3, <1>5 DEF Sendable
<1>7. Balanced(y)
  BY <1>5 DEF Balanced
<1>8. Surroundings'
  BY <1>1, SameSurroundings
<1>9. QED BY <1>1, <1>5, <1>6, <1>7, <1>8, SetKeeps

\* A call stays at its profile, to wait for it or to settle what it answered.
LEMMA StaysKeeps ==
    ASSUME IInv, NEW c \in Calls, call[c].pc \in {"wait", "settle"}, UNCHANGED route,
           Surroundings', NEW y \in Call, Set(c, y), y.pc \in {"wait", "settle"},
           y.open = call[c].open, y.names = call[c].names, y.class = call[c].class,
           y.i = call[c].i, y.asked = call[c].asked
    PROVE  IInv'
<1>1. Sendable(route, c, call[c]) /\ Balanced(call[c])
  BY StateTypes
<1>2. Sendable(route, c, y) /\ Balanced(y)
  BY <1>1 DEF Sendable, Balanced
<1>3. QED BY <1>2, SetKeeps

LEMMA KindsMean ==
    ASSUME NEW provider \in {"openai", "anthropic", "gemini"}, NEW raw \in Raw
    PROVE  Meaning(Kind(provider, raw)) \in Results
<1> DEFINE Kinds == {"refused", "limited", "timeout", "broken", "final", "good", "defect"}
<1>1. Kind(provider, raw) \in Kinds
  <2>1. CASE raw \in Statuses
    BY <2>1 DEF Kind, HttpKind
  <2>2. CASE raw \notin Statuses
    <3>1. raw \in Raised \cup Bodies
      BY <2>2 DEF Raw
    <3>2. \A other : raw \in Raised => RaisedKind(raw, other) \in {"timeout", "broken", other}
      BY DEF Raised, RaisedKind
    <3>3. OpenAIKind(raw) \in Kinds
      BY <3>2 DEF OpenAIKind
    <3>4. GeminiKind(raw) \in Kinds
      BY <3>2 DEF GeminiKind
    <3>5. AnthropicKind(raw) \in Kinds
      BY <3>2 DEF AnthropicKind
    <3>6. QED BY <2>2, <3>3, <3>4, <3>5 DEF Kind
  <2>3. QED BY <2>1, <2>2
<1>2. QED BY <1>1 DEF Meaning, Results

LEMMA OutcomesTyped ==
    ASSUME NEW provider \in {"openai", "anthropic", "gemini"}, NEW raws \in SUBSET Raw,
           NEW out \in Outcomes(provider, raws)
    PROVE  out[1] \in Results /\ out[2] \in Nat
<1>1. CASE out = <<"passing", 0>>
  BY <1>1 DEF Results
<1>2. ASSUME NEW raw \in raws, out \in {Meaning(Kind(provider, raw))} \X Delays(raw)
      PROVE  out[1] \in Results /\ out[2] \in Nat
  <2>1. Meaning(Kind(provider, raw)) \in Results
    BY KindsMean
  <2>2. \A d \in Delays(raw) : d \in Nat
    BY DEF Delays
  <2>3. QED BY <1>2, <2>1, <2>2
<1>3. QED BY <1>1, <1>2 DEF Outcomes


LEMMA AnswerKeeps ==
    ASSUME IInv, NEW c \in Calls, Answer(c) PROVE IInv'
<1> DEFINE p == Current(c)
<1> DEFINE x == call[c]
<1>1. x.pc = "wait" /\ UNCHANGED <<route, cap, receipt, now, faults>> /\ x \in Call
  BY StateTypes DEF Answer, At
<1>2. Provider[p] \in {"openai", "anthropic", "gemini"}
  BY <1>1, CurrentFacts DEF Valid
<1>3. Surroundings'
  BY <1>1, SameSurroundings
<1>4. ASSUME NEW out \in OutcomesOf[IF Repeating(p, x.posts) THEN "repeating" ELSE Provider[p]],
             Set(c, [x EXCEPT !.pc = "settle", !.out = out[1],
                              !.delay = IF c \in Stages THEN out[2] ELSE 0])
      PROVE  IInv'
  <2> DEFINE delay == IF c \in Stages THEN out[2] ELSE 0
  <2> DEFINE y == [x EXCEPT !.pc = "settle", !.out = out[1], !.delay = delay]
  <2>1. out[1] \in Results /\ out[2] \in Nat
    <3>1. /\ OutcomesOf["openai"] = Outcomes("openai", Raw)
          /\ OutcomesOf["gemini"] = Outcomes("gemini", Raw)
          /\ OutcomesOf["anthropic"] = Outcomes("anthropic", Raw)
          /\ OutcomesOf["repeating"] = Outcomes("anthropic", Raw \ Repeats)
      BY DEF OutcomesOf
    <3>2. PICK provider \in {"openai", "anthropic", "gemini"}, raws \in SUBSET Raw :
             out \in Outcomes(provider, raws)
      BY <1>2, <1>4, <3>1
    <3>3. QED BY <3>2, OutcomesTyped
  <2>2. delay \in Nat
    BY <2>1
  <2> HIDE DEF delay
  <2>3. /\ y \in Call /\ y.pc = "settle" /\ y.open = x.open /\ y.names = x.names
        /\ y.class = x.class /\ y.i = x.i /\ y.asked = x.asked
    BY <1>1, <2>1, <2>2 DEF Call
  <2>4. Set(c, y)
    BY <1>4 DEF delay
  <2>5. QED BY <1>1, <1>3, <2>3, <2>4, StaysKeeps
<1>5. ASSUME Set(c, [x EXCEPT !.posts = @ + 1]) PROVE IInv'
  <2> DEFINE y == [x EXCEPT !.posts = @ + 1]
  <2>1. x.posts + 1 \in Nat
    BY <1>1, CallTyped
  <2>2. /\ y \in Call /\ y.pc = "wait" /\ y.open = x.open /\ y.names = x.names
        /\ y.class = x.class /\ y.i = x.i /\ y.asked = x.asked
    BY <1>1, <2>1 DEF Call
  <2>3. Set(c, y)
    BY <1>5
  <2>4. QED BY <1>1, <1>3, <2>2, <2>3, StaysKeeps
<1>6. QED BY <1>4, <1>5 DEF Answer

\* What a settled call is, once its reservation is settled.
LEMMA SettledFacts ==
    ASSUME NEW x \in Call, x.open = 1
    PROVE  LET y == Settled(x)
           IN  /\ y \in Call /\ y.open = 0 /\ y.pc = x.pc /\ y.names = x.names
               /\ y.class = x.class /\ y.i = x.i /\ y.asked = x.asked
               /\ y.delay = x.delay /\ y.out = x.out
<1>1. \A n \in Nat :
         LET y == [x EXCEPT !.open = n, !.posts = 0]
         IN  /\ y \in Call /\ y.open = n /\ y.pc = x.pc /\ y.names = x.names
             /\ y.class = x.class /\ y.i = x.i /\ y.asked = x.asked
             /\ y.delay = x.delay /\ y.out = x.out
  BY DEF Call
<1>2. Settled(x) = [x EXCEPT !.open = x.open - 1, !.posts = 0]
  BY DEF Settled
<1>3. x.open - 1 = 0 /\ 0 \in Nat
  OBVIOUS
<1>4. Settled(x) = [x EXCEPT !.open = 0, !.posts = 0]
  BY <1>2, <1>3
<1>5. QED BY <1>1, <1>3, <1>4

LEMMA TwoNumbers ==
    ASSUME NEW a \in Int, NEW b \in Int
    PROVE  /\ Min({a, b}) \in {a, b} /\ Min({a, b}) <= a /\ Min({a, b}) <= b
           /\ Max({a, b}) \in {a, b} /\ Max({a, b}) >= a /\ Max({a, b}) >= b
<1>1. \E x \in {a, b} : \A y \in {a, b} : x <= y
  OBVIOUS
<1>2. \E x \in {a, b} : \A y \in {a, b} : x >= y
  OBVIOUS
<1>3. QED BY <1>1, <1>2 DEF Min, Max

\* What the registry is told, or what is observed of a source, does not end its
\* cooldown early.
NoneCooledLess == \A s \in Sources : cap'[s].cool >= cap[s].cool

LEMMA SourceChanges ==
    ASSUME IInv, NEW s \in Sources, NEW z \in Snapshot, cap' = [cap EXCEPT ![s] = z],
           z.cool >= cap[s].cool
    PROVE  cap' \in [Sources -> Snapshot] /\ NoneCooledLess
<1>1. cap \in [Sources -> Snapshot] /\ \A q \in Sources : cap[q].cool \in Nat
  BY StateTypes DEF CapTyped, Snapshot
<1>2. QED BY <1>1 DEF NoneCooledLess

LEMMA MarkSuccessFacts ==
    ASSUME IInv, NEW s \in Sources, MarkSuccess(s)
    PROVE  cap' \in [Sources -> Snapshot] /\ NoneCooledLess
<1> DEFINE used == Min({cap[s].used + 1, cap[s].limit})
<1> DEFINE z == [cap[s] EXCEPT !.used = used]
<1>1. /\ cap[s] \in Snapshot /\ cap[s].limit \in {0, Limit} /\ cap[s].used \in 0 .. Limit
      /\ cap[s].cool \in Nat /\ Limit \in Nat /\ cap \in [Sources -> Snapshot]
  BY StateTypes, RoutingAssumption DEF CapTyped, Snapshot
<1>2. used \in 0 .. Limit
  <2>1. cap[s].used + 1 \in Int /\ cap[s].limit \in Int /\ cap[s].used + 1 >= 0
        /\ cap[s].limit \in 0 .. Limit
    BY <1>1
  <2> DEFINE a == cap[s].used + 1
  <2> DEFINE b == cap[s].limit
  <2> HIDE DEF a, b
  <2>2. Min({a, b}) \in {a, b} /\ Min({a, b}) <= b
    BY <2>1, TwoNumbers DEF a, b
  <2>3. a \in Nat /\ b \in 0 .. Limit /\ Limit \in Nat
    BY <1>1, <2>1 DEF a, b
  <2>4. Min({a, b}) \in 0 .. Limit
    BY <2>2, <2>3
  <2>5. QED BY <2>4 DEF a, b
<1>3. cap' = [cap EXCEPT ![s] = z]
  BY <1>1 DEF MarkSuccess
<1> HIDE DEF used
<1>4. z \in Snapshot /\ z.cool >= cap[s].cool
  BY <1>1, <1>2 DEF Snapshot
<1>5. QED BY <1>3, <1>4, SourceChanges

LEMMA MarkFailureFacts ==
    ASSUME IInv, NEW s \in Sources, NEW delay \in Nat, MarkFailure(s, delay)
    PROVE  cap' \in [Sources -> Snapshot] /\ NoneCooledLess
<1> DEFINE cool == IF delay > 0 THEN Max({cap[s].cool, now + delay}) ELSE cap[s].cool
<1> DEFINE z == [cap[s] EXCEPT !.cool = cool]
<1>1. /\ cap[s] \in Snapshot /\ cap[s].cool \in Nat /\ now \in Nat
      /\ cap \in [Sources -> Snapshot]
  BY StateTypes DEF CapTyped, Snapshot
<1>2. cool \in Nat /\ cool >= cap[s].cool
  <2> DEFINE a == cap[s].cool
  <2> DEFINE b == now + delay
  <2>1. a \in Nat /\ b \in Nat
    BY <1>1
  <2> HIDE DEF a, b
  <2>2. Max({a, b}) \in {a, b} /\ Max({a, b}) >= a
    <3>1. a \in Int /\ b \in Int
      BY <2>1
    <3>2. QED BY <3>1, TwoNumbers
  <2>3. Max({a, b}) \in Nat /\ a >= a
    BY <2>1, <2>2
  <2>4. cool = IF delay > 0 THEN Max({a, b}) ELSE a
    BY DEF a, b
  <2>5. cool \in Nat /\ cool >= a
    BY <2>1, <2>2, <2>3, <2>4
  <2>6. QED BY <2>5 DEF a
<1>3. cap' = [cap EXCEPT ![s] = z]
  BY <1>1 DEF MarkFailure
<1> HIDE DEF cool
<1>4. z \in Snapshot /\ z.cool >= cap[s].cool
  BY <1>1, <1>2 DEF Snapshot
<1>5. QED BY <1>3, <1>4, SourceChanges

\* The settlement tells the registry of the profile that was called.
LEMMA SettleTells ==
    ASSUME IInv, NEW c \in Calls, Settle(c)
    PROVE  cap' \in [Sources -> Snapshot] /\ NoneCooledLess
<1>1. call[c].pc = "settle" /\ call[c] \in Call /\ Balanced(call[c])
  BY StateTypes DEF Settle, At
<1>2. call[c].open = 1
  BY <1>1 DEF Balanced
<1>3. Source[Current(c)] \in Sources
  BY <1>1, CurrentFacts
<1>4. Settled(call[c]).delay \in Nat
  BY <1>1, <1>2, SettledFacts, CallTyped
<1>5. MarkSuccess(Source[Current(c)]) \/ MarkFailure(Source[Current(c)], Settled(call[c]).delay)
  BY DEF Settle
<1>6. QED BY <1>3, <1>4, <1>5, MarkSuccessFacts, MarkFailureFacts


LEMMA SettleKeeps ==
    ASSUME IInv, NEW c \in Calls, Settle(c) PROVE IInv'
<1> DEFINE x == Settled(call[c])
<1>1. call[c].pc = "settle" /\ call[c] \in Call /\ Sendable(route, c, call[c])
      /\ Balanced(call[c]) /\ UNCHANGED <<route, receipt, now, faults>>
  BY StateTypes DEF Settle, At
<1>2. call[c].open = 1
  BY <1>1 DEF Balanced
<1>3. /\ x \in Call /\ x.open = 0 /\ x.pc = "settle" /\ x.names = call[c].names
      /\ x.class = call[c].class /\ x.i = call[c].i /\ x.asked = call[c].asked
  BY <1>1, <1>2, SettledFacts
<1>4. Surroundings'
  BY <1>1, SettleTells, StateTypes DEF Surroundings
<1>5. \/ Set(c, [NoCall EXCEPT !.normal = x.normal, !.recovery = x.recovery, !.sent = x.sent])
      \/ Set(c, Ended(x, "done", FALSE, "none"))
      \/ CanRecover(x) /\ Set(c, [x EXCEPT !.pc = "reserve", !.i = @ + 1, !.recovery = @ + 1,
                                           !.out = "good", !.delay = 0])
      \/ Set(c, Ended(x, "failed", Retryable(x.out) /\ ~x.sent, "provider"))
  BY DEF Settle, Failure, Failed
<1> HIDE DEF x
<1>6. x.sent \in BOOLEAN /\ x.open \in Nat /\ x.normal \in Nat /\ x.recovery \in Nat
  BY <1>3, CallTyped
<1>7. ASSUME Set(c, [NoCall EXCEPT !.normal = x.normal, !.recovery = x.recovery,
                                   !.sent = x.sent])
      PROVE  IInv'
  <2> DEFINE y == [NoCall EXCEPT !.normal = x.normal, !.recovery = x.recovery, !.sent = x.sent]
  <2>1. /\ y \in Call /\ y.pc = "idle" /\ y.class = "personal" /\ y.names = <<>> /\ y.i = 1
        /\ y.asked = {} /\ y.open = 0
    BY <1>6, NoCallFacts DEF Call
  <2>2. Set(c, y)
    BY <1>7
  <2> HIDE DEF y
  <2>3. Sendable(route, c, y)
    BY <2>1, EmptySeq DEF Sendable
  <2>4. Balanced(y)
    BY <2>1 DEF Balanced
  <2>5. QED BY <1>1, <1>4, <2>1, <2>2, <2>3, <2>4, SetKeeps
<1>8. ASSUME NEW retry \in BOOLEAN, NEW pc \in {"done", "failed"},
             NEW why \in {"none", "provider"}, Set(c, Ended(x, pc, retry, why))
      PROVE  IInv'
  BY <1>1, <1>3, <1>4, <1>6, <1>8, EndKeeps
<1>9. ASSUME CanRecover(x),
             Set(c, [x EXCEPT !.pc = "reserve", !.i = @ + 1, !.recovery = @ + 1,
                              !.out = "good", !.delay = 0])
      PROVE  IInv'
  <2> DEFINE y == [x EXCEPT !.pc = "reserve", !.i = x.i + 1, !.recovery = x.recovery + 1,
                            !.out = "good", !.delay = 0]
  <2>1. x.i \in 1 .. Len(x.names) /\ x.i < Len(x.names)
    BY <1>1, <1>3, <1>9 DEF Sendable, CanRecover
  <2>2. x.i + 1 \in 1 .. Len(x.names) /\ x.i + 1 \in Nat /\ x.recovery + 1 \in Nat
    BY <1>3, <1>6, <2>1, CallTyped
  <2>3. /\ y \in Call /\ y.pc = "reserve" /\ y.i = x.i + 1 /\ y.open = 0 /\ y.names = x.names
        /\ y.class = x.class /\ y.asked = x.asked
    BY <1>3, <2>2 DEF Call, Results
  <2>4. Set(c, y)
    BY <1>9
  <2> HIDE DEF y
  <2>5. Sendable(route, c, y)
    BY <1>1, <1>3, <2>2, <2>3 DEF Sendable
  <2>6. Balanced(y)
    BY <2>3 DEF Balanced
  <2>7. QED BY <1>1, <1>4, <2>3, <2>4, <2>5, <2>6, SetKeeps
<1>10. PICK retry \in BOOLEAN : retry = FALSE
  OBVIOUS
<1>11. (Retryable(x.out) /\ ~x.sent) \in BOOLEAN
  BY DEF Retryable
<1>12. QED BY <1>5, <1>7, <1>8, <1>9, <1>10, <1>11

LEMMA SettleFailsKeeps ==
    ASSUME IInv, NEW c \in Calls, SettleFails(c) PROVE IInv'
<1>1. /\ call[c].pc = "settle" /\ call[c] \in Call /\ Balanced(call[c])
      /\ Fault /\ UNCHANGED <<route, cap, receipt, now>>
  BY StateTypes DEF SettleFails, At
<1>2. call[c].open = 1 /\ call[c].sent \in BOOLEAN /\ call[c].open \in Nat
  BY <1>1, CallTyped DEF Balanced
<1>3. Surroundings'
  BY <1>1, SameSurroundings
<1>4. PICK again \in BOOLEAN : Set(c, Ended(call[c], "failed", again, "settlement"))
  BY DEF SettleFails, Failed
<1>5. QED BY <1>1, <1>2, <1>3, <1>4, EndKeeps

LEMMA CancelKeeps ==
    ASSUME IInv, NEW c \in Calls, Cancel(c) PROVE IInv'
<1>1. /\ call[c].pc \in {"reserve", "wait", "settle"} /\ call[c] \in Call /\ Balanced(call[c])
      /\ Fault /\ UNCHANGED <<route, cap, receipt, now>>
  BY StateTypes DEF Cancel
<1>2. PICK committed \in BOOLEAN :
         LET change == CASE At(c, "reserve") /\ committed -> 1
                         [] At(c, "settle") /\ committed -> -1
                         [] OTHER -> 0
         IN  Set(c, Ended([call[c] EXCEPT !.open = @ + change], "cancelled", FALSE, "none"))
  BY DEF Cancel
<1> DEFINE change == CASE At(c, "reserve") /\ committed -> 1
                       [] At(c, "settle") /\ committed -> -1
                       [] OTHER -> 0
<1> DEFINE x == [call[c] EXCEPT !.open = call[c].open + change]
<1>3. call[c].open + change \in {0, 1}
  <2>1. CASE call[c].pc = "reserve"
    <3>1. call[c].open = 0 /\ change \in {0, 1}
      BY <1>1, <2>1 DEF Balanced, At
    <3>2. QED BY <3>1
  <2>2. CASE call[c].pc = "wait"
    <3>1. call[c].open = 1 /\ change = 0
      BY <1>1, <2>2 DEF Balanced, At
    <3>2. QED BY <3>1
  <2>3. CASE call[c].pc = "settle"
    <3>1. call[c].open = 1 /\ change \in {0, -1}
      BY <1>1, <2>3 DEF Balanced, At
    <3>2. QED BY <3>1
  <2>4. QED BY <1>1, <2>1, <2>2, <2>3
<1>4. PICK again \in BOOLEAN : Set(c, Ended(x, "cancelled", again, "none"))
  BY <1>2
<1> HIDE DEF change
<1>5. x.open \in {0, 1} /\ x.sent \in BOOLEAN /\ x.open \in Nat
  BY <1>1, <1>3 DEF Call
<1> HIDE DEF x
<1>6. Surroundings'
  BY <1>1, SameSurroundings
<1>7. QED BY <1>1, <1>4, <1>5, <1>6, EndKeeps

-----------------------------------------------------------------------------
(* The steps of a preflight.                                               *)

LEMMA PreflightKeeps ==
    ASSUME IInv, NEW c \in Calls, Preflight(c) PROVE IInv'
<1> DEFINE p == ProfileNames(route, "personal")[1]
<1> DEFINE y == [call[c] EXCEPT !.pc = "reserve", !.names = <<p>>]
<1>1. /\ c \in Checks /\ call[c].pc = "idle" /\ call[c] \in Call /\ Sendable(route, c, call[c])
      /\ Balanced(call[c]) /\ UNCHANGED <<route, cap, receipt, now, faults>>
  BY StateTypes DEF Preflight, At
<1>2. call[c].open = 0 /\ call[c].sent \in BOOLEAN /\ call[c].open \in Nat
  BY <1>1, CallTyped DEF Balanced
<1>3. Surroundings'
  BY <1>1, SameSurroundings
<1>4. p \in Usable(route, "personal")
  <2> DEFINE names == ProfileNames(route, "personal")
  <2>1. "personal" \in Classes /\ route \in Routes
    BY StateTypes DEF Classes
  <2>2. names \in Seq(Usable(route, "personal")) /\ names # <<>>
    BY <2>1, ProfileNamesFacts
  <2> HIDE DEF names
  <2>3. names[1] \in Usable(route, "personal")
    BY <2>2, EmptySeq
  <2>4. QED BY <2>3 DEF names
<1>5. \/ \E again \in BOOLEAN : Set(c, Ended(call[c], "failed", again, "route"))
      \/ \E again \in BOOLEAN : Set(c, Ended(call[c], "done", again, "none"))
      \/ Set(c, y)
  BY DEF Preflight, Failed
<1> HIDE DEF p
<1>6. CASE \E again \in BOOLEAN : Set(c, Ended(call[c], "failed", again, "route"))
  <2>1. PICK again \in BOOLEAN : Set(c, Ended(call[c], "failed", again, "route"))
    BY <1>6
  <2>2. QED BY <1>1, <1>2, <1>3, <2>1, EndKeeps
<1>7. CASE \E again \in BOOLEAN : Set(c, Ended(call[c], "done", again, "none"))
  <2>1. PICK again \in BOOLEAN : Set(c, Ended(call[c], "done", again, "none"))
    BY <1>7
  <2>2. QED BY <1>1, <1>2, <1>3, <2>1, EndKeeps
<1>8. CASE Set(c, y)
  <2>1. <<p>> \in Seq(Profiles) /\ <<p>> \in Seq(Usable(route, "personal")) /\ Len(<<p>>) = 1
    BY <1>4 DEF Usable, Allowed
  <2>2. /\ y \in Call /\ y.pc = "reserve" /\ y.names = <<p>> /\ y.class = "personal" /\ y.i = 1
        /\ y.asked = {} /\ y.open = 0
    BY <1>1, <1>2, <2>1 DEF Call, Sendable
  <2>3. Set(c, y)
    BY <1>8
  <2> HIDE DEF y
  <2>4. c \notin Stages
    BY <1>1, RoutingAssumption
  <2>5. Sendable(route, c, y)
    BY <2>1, <2>2, <2>4 DEF Sendable
  <2>6. Balanced(y)
    BY <2>2 DEF Balanced
  <2>7. QED BY <1>1, <1>3, <2>2, <2>3, <2>5, <2>6, SetKeeps
<1>9. QED BY <1>5, <1>6, <1>7, <1>8

LEMMA SettleCheckKeeps ==
    ASSUME IInv, NEW c \in Calls, SettleCheck(c) PROVE IInv'
<1> DEFINE x == Settled(call[c])
<1>1. /\ call[c].pc = "settle" /\ call[c] \in Call /\ Balanced(call[c])
      /\ UNCHANGED <<route, cap, now, faults>>
  BY StateTypes DEF SettleCheck, At
<1>2. call[c].open = 1
  BY <1>1 DEF Balanced
<1>3. x.open = 0 /\ x.sent \in BOOLEAN /\ x.open \in Nat
  <2>1. x \in Call /\ x.open = 0
    BY <1>1, <1>2, SettledFacts
  <2> HIDE DEF x
  <2>2. QED BY <2>1, CallTyped
<1>4. PICK pc \in {"done", "failed"}, again \in BOOLEAN, why \in {"none", "provider"} :
         Set(c, Ended(x, pc, again, why))
  BY DEF SettleCheck, Failed
<1>5. receipt' \in [Profiles -> Nat]
  <2>1. receipt \in [Profiles -> Nat] /\ now + Ttl \in Nat /\ Current(c) \in Profiles
    BY <1>1, StateTypes, CurrentFacts, RoutingAssumption DEF Surroundings
  <2>2. UNCHANGED receipt \/ receipt' = [receipt EXCEPT ![Current(c)] = now + Ttl]
    BY DEF SettleCheck
  <2>3. QED BY <2>1, <2>2
<1>6. Surroundings'
  BY <1>1, <1>5, StateTypes DEF Surroundings
<1> HIDE DEF x
<1>7. QED BY <1>1, <1>3, <1>4, <1>6, EndKeeps

LEMMA CancelCheckKeeps ==
    ASSUME IInv, NEW c \in Calls, CancelCheck(c) PROVE IInv'
<1> DEFINE y == [call[c] EXCEPT !.pc = "settle", !.out = "cancelled", !.delay = 0]
<1>1. /\ call[c].pc = "wait" /\ call[c] \in Call /\ Fault
      /\ UNCHANGED <<route, cap, receipt, now>>
  BY StateTypes DEF CancelCheck, At
<1>2. Surroundings'
  BY <1>1, SameSurroundings
<1>3. /\ y \in Call /\ y.pc = "settle" /\ y.open = call[c].open /\ y.names = call[c].names
      /\ y.class = call[c].class /\ y.i = call[c].i /\ y.asked = call[c].asked
  BY <1>1 DEF Call, Results
<1>4. Set(c, y)
  BY DEF CancelCheck
<1>5. QED BY <1>1, <1>2, <1>3, <1>4, StaysKeeps

-----------------------------------------------------------------------------
(* The reconciler and the clock.                                           *)

\* A refresh keeps the cooldown of the snapshot it replaces.
LEMMA ReconcileTells ==
    ASSUME IInv, NEW s \in Sources, Reconcile(s)
    PROVE  cap' \in [Sources -> Snapshot] /\ NoneCooledLess
<1>1. PICK r \in Reported(s) : cap' = [cap EXCEPT ![s] = Observed(s, r)]
  BY DEF Reconcile
<1>2. r.limit \in {0, Limit} /\ Usage(r) \in Nat
  <2>1. r \in Reports \/ r = Unreported
    BY DEF Reported
  <2>2. CASE r \in Reports
    <3>1. /\ r.limit \in {0, Limit} /\ r.total \in {-1} \cup Nat /\ r.events \in Nat
          /\ r.daily \in Nat
      BY <2>2, RoutingAssumption DEF Reports
    <3>2. QED BY <3>1 DEF Usage
  <2>3. CASE r = Unreported
    BY <2>3 DEF Unreported, Usage
  <2>4. QED BY <2>1, <2>2, <2>3
<1>3. Min({Usage(r), r.limit}) \in 0 .. Limit
  <2> DEFINE a == Usage(r)
  <2> DEFINE b == r.limit
  <2>1. a \in Nat /\ b \in 0 .. Limit /\ Limit \in Nat
    BY <1>2, RoutingAssumption
  <2> HIDE DEF a, b
  <2>2. a \in Int /\ b \in Int
    BY <2>1
  <2>3. Min({a, b}) \in {a, b} /\ Min({a, b}) <= b
    BY <2>2, TwoNumbers
  <2>4. Min({a, b}) \in 0 .. Limit
    BY <2>1, <2>3
  <2>5. QED BY <2>4 DEF a, b
<1> DEFINE z == Observed(s, r)
<1>4. cap[s] \in Snapshot /\ cap[s].cool \in Nat
  BY StateTypes DEF CapTyped, Snapshot
<1>5. z \in Snapshot /\ z.cool >= cap[s].cool
  BY <1>2, <1>3, <1>4 DEF Observed, Snapshot
<1>6. cap' = [cap EXCEPT ![s] = z]
  BY <1>1
<1> HIDE DEF z
<1>7. QED BY <1>5, <1>6, SourceChanges

\* No call changes.
LEMMA CallsStay ==
    ASSUME IInv, UNCHANGED <<route, call>>, Surroundings' PROVE IInv'
<1>1. TypeOK'
  BY StateTypes DEF TypeOK, Surroundings
<1>2. QED BY <1>1 DEF IInv

LEMMA ReconcileKeeps ==
    ASSUME IInv, NEW s \in Sources, Reconcile(s) PROVE IInv'
<1>1. UNCHANGED <<route, call, receipt, now>> /\ faults' = faults + 1 /\ faults < MaxFaults
  BY DEF Reconcile, Fault
<1>2. Surroundings'
  BY <1>1, StateTypes, ReconcileTells, RoutingAssumption DEF Surroundings
<1>3. QED BY <1>1, <1>2, CallsStay

LEMMA TickKeeps ==
    ASSUME IInv, Tick PROVE IInv'
<1>1. Surroundings'
  BY StateTypes, RoutingAssumption DEF Tick, Surroundings
<1>2. QED BY <1>1, CallsStay DEF Tick

-----------------------------------------------------------------------------
(* The theorems.                                                           *)

LEMMA InitKeeps == ASSUME Init PROVE IInv
<1>1. \A c \in Calls : Sendable(route, c, NoCall) /\ Balanced(NoCall)
  BY NoCallFacts, EmptySeq DEF Sendable, Balanced
<1>2. [limit |-> 0, used |-> 0, cool |-> 0] \in Snapshot
  BY RoutingAssumption DEF Snapshot
<1>3. TypeOK
  BY <1>2, NoCallFacts, RoutingAssumption DEF Init, TypeOK
<1>4. \A c \in Calls : call[c] = NoCall
  BY DEF Init
<1>5. QED BY <1>1, <1>3, <1>4 DEF Init, IInv

LEMMA NextKeeps == ASSUME IInv, [Next]_vars PROVE IInv'
<1>1. ASSUME NEW c \in Calls,
             Step(c) \/ Start(c) \/ Reject(c) \/ SettleFails(c) \/ Cancel(c) \/ Preflight(c)
             \/ CancelCheck(c)
      PROVE  IInv'
  BY <1>1, SendKeeps, DeniedKeeps, AnswerKeeps, SettleKeeps, SettleCheckKeeps, StartKeeps,
     RejectKeeps, SettleFailsKeeps, CancelKeeps, PreflightKeeps, CancelCheckKeeps DEF Step
<1>2. CASE UNCHANGED vars
  <2>1. Surroundings' /\ UNCHANGED <<route, call>>
    BY <1>2, StateTypes DEF vars, Surroundings
  <2>2. QED BY <2>1, CallsStay
<1>3. QED BY <1>1, <1>2, ReconcileKeeps, TickKeeps DEF Next

\* Every reachable state satisfies the invariant.
THEOREM RoutingInvariant == Spec => []IInv
<1>1. Init => IInv
  BY InitKeeps
<1>2. IInv /\ [Next]_vars => IInv'
  BY NextKeeps
<1>3. QED BY <1>1, <1>2, PTL DEF Spec

\* The calls, the registry and the receipts keep their types.
THEOREM RoutingTypes == Spec => []TypeOK
<1>1. IInv => TypeOK
  BY DEF IInv
<1>2. QED BY <1>1, RoutingInvariant, PTL

\* However the registry orders the profiles and whichever of them fails, a call
\* starts with the profile its route puts first, and a packet that is not clean
\* reaches Gemini only where the route opts in twice (model_router.py).
THEOREM PacketsAreSentWhereAllowed == Spec => []PacketsGoWhereAllowed
<1>1. IInv => PacketsGoWhereAllowed
  <2>1. SUFFICES ASSUME IInv, NEW c \in Stages
                 PROVE  /\ call[c].names # <<>> => call[c].names[1] \in Firsts(route, call[c].class)
                        /\ \A p \in call[c].asked :
                             Provider[p] = "gemini" /\ call[c].class \notin Clean
                             => route.gemini /\ route.personal
    BY DEF PacketsGoWhereAllowed, Firsts
  <2>2. Sendable(route, c, call[c]) /\ call[c] \in Call
    BY <2>1, StateTypes DEF Calls
  <2>3. QED BY <2>1, <2>2, CallTyped DEF Sendable, Allowed, GeminiAllowed
<1>2. QED BY <1>1, RoutingInvariant, PTL

\* A call never leaves two reservations open, and leaves one only where the code
\* was cut off or could not write its settlement (model_execution.py).
THEOREM ReservationsAreAccounted == Spec => []OpenIsAccounted
<1>1. IInv => OpenIsAccounted
  <2>1. SUFFICES ASSUME IInv, NEW c \in Calls
                 PROVE  /\ call[c].open <= 1
                        /\ call[c].open = 1 => \/ call[c].pc \in {"wait", "settle", "cancelled"}
                                               \/ (call[c].pc = "failed"
                                                   /\ call[c].why = "settlement")
    BY DEF OpenIsAccounted, At
  <2>2. call[c] \in Call /\ Balanced(call[c])
    BY <2>1, StateTypes
  <2>3. QED BY <2>2 DEF Balanced, Call
<1>2. QED BY <1>1, RoutingInvariant, PTL

\* No step, of a call or of the reconciler, ends a source's cooldown before the
\* time a provider asked for (model_quota.py).
THEOREM CooldownsAreKept == Spec => CooldownKept
<1>1. IInv /\ [Next]_vars => [NoneCooledLess]_cap
  <2>1. SUFFICES ASSUME IInv, Next, cap' # cap PROVE NoneCooledLess
    BY DEF vars
  <2>2. (\E c \in Calls : Settle(c)) \/ \E s \in Sources : Reconcile(s)
    BY <2>1 DEF Next, Step, Send, Denied, Answer, SettleCheck, Start, Reject, SettleFails,
                Cancel, Preflight, CancelCheck, Tick
  <2>3. QED BY <2>1, <2>2, SettleTells, ReconcileTells
<1>2. QED BY <1>1, RoutingInvariant, PTL DEF Spec, CooldownKept, NoneCooledLess

=============================================================================
