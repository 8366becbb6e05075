--------------------------- MODULE AccountsProofs ---------------------------
(***************************************************************************)
(* Proofs about accounts and their administration, for every number of     *)
(* accounts, portfolios, requests and operations and every limit.          *)
(***************************************************************************)
EXTENDS Accounts, TLAPS, FiniteSetTheorems

-----------------------------------------------------------------------------
(* The inductive invariant.                                                 *)

\* An account that is an administrator's, or that does not exist, has no
\* entitlement.
EntitlementsOfUsers ==
    \A a \in Accounts : ~ Exists(a) \/ user[a].role = "admin" => ent[a] = NoEntitlement

\* Every portfolio has an owner.
OwnersExist ==
    \A p \in Portfolios :
        HasRow(p) => portfolio[p].owner \in Accounts /\ Exists(portfolio[p].owner)

\* What an operation names exists.
OpsNamed ==
    \A o \in Ops :
        /\ op[o].pc \in {"restoring", "creating"} \/ op[o].action = "delete" =>
             op[o].target \in Accounts /\ Exists(op[o].target)
        /\ op[o].pc \in {"cleaning", "resetting"} => op[o].at \in Portfolios
        /\ op[o].action = "delete" => op[o].pc \in {"checking", "cleaning", "retryable"}

\* A portfolio that is to be removed stays fenced, and once its running work
\* was counted none runs, but for a reset.
Withheld(o, p) ==
    /\ portfolio[p].status # "none"
    /\ \/ portfolio[p].status = "removed" \/ portfolio[p].was_reset
       \/ /\ portfolio[p].status = "deletion_pending"
          /\ op[o].pc = "cleaning" /\ op[o].at = p => portfolio[p].work # "running"

RemovalsFenced ==
    \A o \in Ops : \A p \in Portfolios :
        p \in op[o].todo \/ (op[o].pc = "cleaning" /\ op[o].at = p) => Withheld(o, p)

\* The part about accounts, and the part about portfolios and requests.
AccountsOK ==
    /\ user \in [Accounts -> User] /\ tomb \subseteq Accounts /\ ent \in [Accounts -> Entitlement]
    /\ \A a \in Accounts :
         /\ Exists(a) /\ user[a].email = Released => user[a].status = "deleted"
         /\ user[a].status = "deleted" => a \in tomb
         /\ ent[a].dead => ent[a].live = 0
    /\ LimitsKept /\ EntitlementsOfUsers /\ OwnersExist

RequestsOK ==
    /\ portfolio \in [Portfolios -> Portfolio] /\ op \in [Ops -> Op] /\ acts \in 0 .. MaxActs
    /\ OpsNamed /\ RemovalsFenced

IInv == AccountsOK /\ RequestsOK

LEMMA Parts ==
    IInv <=> /\ TypeOK /\ LimitsKept /\ EntitlementsOfUsers /\ OwnersExist
             /\ OpsNamed /\ RemovalsFenced
  BY DEF IInv, AccountsOK, RequestsOK, TypeOK

LEMMA InitInv == Init => IInv
<1> SUFFICES ASSUME Init PROVE IInv
  OBVIOUS
<1>1. Counted \ tomb = {} /\ \A a \in Accounts : Owned(a) = {}
  BY DEF Init, Counted, Owned, HasRow, NoPortfolio
<1>2. LimitsKept
  BY <1>1, FS_EmptySet, AccountsAssumption DEF LimitsKept
<1>3. /\ user \in [Accounts -> User] /\ tomb \subseteq Accounts /\ ent \in [Accounts -> Entitlement]
      /\ \A a \in Accounts : user[a].status # "deleted" /\ ent[a].dead = FALSE
      /\ \A a \in Accounts : Exists(a) => user[a].email = FirstAdmin
  BY AccountsAssumption DEF Init, User, Entitlement, NoEntitlement, Exists
<1>4. AccountsOK
  BY <1>2, <1>3, AccountsAssumption
  DEF AccountsOK, EntitlementsOfUsers, OwnersExist, Init, HasRow, NoPortfolio
<1>5. portfolio \in [Portfolios -> Portfolio] /\ op \in [Ops -> Op] /\ acts \in 0 .. MaxActs
  BY AccountsAssumption DEF Init, Portfolio, NoPortfolio, Op, NoOp
<1>6. OpsNamed /\ RemovalsFenced
  BY DEF Init, OpsNamed, RemovalsFenced, NoOp
<1>7. QED BY <1>4, <1>5, <1>6 DEF IInv, RequestsOK

-----------------------------------------------------------------------------
(* What keeps the part about accounts.                                      *)

\* No portfolio is created, or changes hands.
NoNewPortfolio ==
    \A p \in Portfolios :
        HasRow(p)' => /\ HasRow(p) /\ portfolio'[p].owner = portfolio[p].owner
                      /\ portfolio'[p].late = portfolio[p].late

LEMMA OwnedLess ==
    ASSUME NoNewPortfolio, NEW b \in Accounts
    PROVE  /\ Owned(b)' \subseteq Owned(b)
           /\ \A S : Owned(b) \subseteq S \cup Late => Owned(b)' \subseteq S \cup Late'
  BY DEF NoNewPortfolio, Owned, Late

\* Account a may change, in a way the tables allow; the others do not.
MayChange(a) ==
    /\ user' \in [Accounts -> User] /\ tomb \subseteq tomb' /\ tomb' \subseteq Accounts
    /\ \A b \in Accounts : b # a => user'[b] = user[b]
    /\ Exists(a) /\ Exists(a)'
    /\ user'[a].email = Released => user'[a].status = "deleted"
    /\ user'[a].status = "deleted" => a \in tomb'

LEMMA CountedFinite == IsFiniteSet(Counted) /\ IsFiniteSet(Counted \ tomb)
<1>1. IsFiniteSet(Accounts)
  BY FS_Interval, AccountsAssumption DEF Accounts
<1>2. QED BY <1>1, FS_Subset DEF Counted

\* A change of one account's status, name or address keeps all of it.
LEMMA StatusChange ==
    ASSUME IInv, NEW a \in Accounts, MayChange(a), NoNewPortfolio,
           user'[a].role = user[a].role, UNCHANGED ent
    PROVE  AccountsOK'
<1>1. \A b \in Accounts : Exists(b)' <=> Exists(b)
  BY DEF MayChange, Exists
<1>2. \A b \in Accounts : user'[b].role = user[b].role
  BY DEF MayChange
<1>3. Counted' \ tomb' \subseteq Counted \ tomb
  BY DEF Counted, MayChange, Exists, IInv, AccountsOK, User
<1>4. Cardinality(Counted' \ tomb') <= NormalLimit
  <2>1. /\ Cardinality(Counted' \ tomb') <= Cardinality(Counted \ tomb)
        /\ IsFiniteSet(Counted' \ tomb')
    BY <1>3, CountedFinite, FS_Subset
  <2>2. Cardinality(Counted \ tomb) \in Nat /\ Cardinality(Counted' \ tomb') \in Nat
    BY <2>1, CountedFinite, FS_CardinalityType
  <2>3. Cardinality(Counted \ tomb) <= NormalLimit
    BY DEF IInv, AccountsOK, LimitsKept
  <2>4. QED BY <2>1, <2>2, <2>3, AccountsAssumption
<1>5. \A b \in Accounts : Owned(b) \subseteq {ent[b].live} \cup Late =>
                           Owned(b)' \subseteq {ent[b].live} \cup Late'
  BY OwnedLess
<1>6. LimitsKept'
  BY <1>1, <1>2, <1>4, <1>5 DEF LimitsKept, IInv, AccountsOK
<1>7. EntitlementsOfUsers'
  BY <1>1, <1>2 DEF EntitlementsOfUsers, IInv, AccountsOK
<1>8. OwnersExist'
  BY <1>1 DEF OwnersExist, NoNewPortfolio, IInv, AccountsOK
<1>9. \A b \in Accounts :
        /\ Exists(b)' /\ user'[b].email = Released => user'[b].status = "deleted"
        /\ user'[b].status = "deleted" => b \in tomb'
        /\ ent'[b].dead => ent'[b].live = 0
  BY <1>1 DEF MayChange, IInv, AccountsOK, Exists
<1>10. QED BY <1>6, <1>7, <1>8, <1>9 DEF AccountsOK, MayChange, IInv

\* So does a step that leaves accounts and entitlements alone.
LEMMA AccountsUntouched ==
    ASSUME IInv, NoNewPortfolio, UNCHANGED <<user, tomb, ent>>
    PROVE  AccountsOK'
<1>1. \A b \in Accounts :
        /\ Exists(b)' <=> Exists(b)
        /\ Owned(b) \subseteq {ent[b].live} \cup Late =>
             Owned(b)' \subseteq {ent[b].live} \cup Late'
  BY OwnedLess DEF Exists
<1>2. LimitsKept'
  BY <1>1 DEF LimitsKept, Counted, IInv, AccountsOK
<1>3. EntitlementsOfUsers' /\ OwnersExist'
  BY <1>1 DEF EntitlementsOfUsers, OwnersExist, NoNewPortfolio, IInv, AccountsOK
<1>4. QED BY <1>1, <1>2, <1>3 DEF AccountsOK, IInv

-----------------------------------------------------------------------------
(* What keeps the part about portfolios and requests.                       *)

\* A fence is lifted by a reset alone, and no job starts behind one.
KeepsFence ==
    \A p \in Portfolios :
        portfolio[p].status # "none" =>
            /\ portfolio'[p].status # "none"
            /\ portfolio[p].was_reset => portfolio'[p].was_reset
            /\ portfolio[p].status = "removed" => portfolio'[p].status = "removed"
            /\ portfolio[p].status = "deletion_pending" =>
                 \/ portfolio'[p].status = "removed" \/ portfolio'[p].was_reset
                 \/ /\ portfolio'[p].status = "deletion_pending"
                    /\ portfolio'[p].work = "running" => portfolio[p].work = "running"

\* A step of no request's
LEMMA RequestsUntouched ==
    ASSUME IInv, UNCHANGED op, acts' \in 0 .. MaxActs, portfolio' \in [Portfolios -> Portfolio],
           KeepsFence, \A a \in Accounts : Exists(a) => Exists(a)'
    PROVE  RequestsOK'
<1>1. OpsNamed'
  BY DEF OpsNamed, IInv, RequestsOK
<1>2. \A o \in Ops : \A p \in Portfolios : Withheld(o, p) => Withheld(o, p)'
  BY DEF Withheld, KeepsFence
<1>3. RemovalsFenced'
  BY <1>2 DEF RemovalsFenced, IInv, RequestsOK
<1>4. QED BY <1>1, <1>3 DEF RequestsOK, IInv

\* A step of request o, that leaves w of it.
LEMMA RequestStep ==
    ASSUME IInv, NEW o \in Ops, NEW w \in Op, op' = [op EXCEPT ![o] = w],
           acts' \in 0 .. MaxActs, portfolio' \in [Portfolios -> Portfolio], KeepsFence,
           \A a \in Accounts : Exists(a) => Exists(a)',
           w.pc \in {"restoring", "creating"} \/ w.action = "delete" =>
             w.target \in Accounts /\ Exists(w.target)',
           w.pc \in {"cleaning", "resetting"} => w.at \in Portfolios,
           w.action = "delete" => w.pc \in {"checking", "cleaning", "retryable"},
           \A p \in Portfolios :
             p \in w.todo \/ (w.pc = "cleaning" /\ w.at = p) => Withheld(o, p)'
    PROVE  RequestsOK'
<1>1. op \in [Ops -> Op]
  BY DEF IInv, RequestsOK
<1>2. op' \in [Ops -> Op] /\ op'[o] = w /\ \A q \in Ops : q # o => op'[q] = op[q]
  BY <1>1
<1>3. OpsNamed'
  <2>1. \A a \in Accounts : Exists(a)' <=> user'[a].status # "none"
    BY DEF Exists
  <2>2. \A q \in Ops : q # o =>
          /\ op'[q].pc \in {"restoring", "creating"} \/ op'[q].action = "delete" =>
               op'[q].target \in Accounts /\ user'[op'[q].target].status # "none"
          /\ op'[q].pc \in {"cleaning", "resetting"} => op'[q].at \in Portfolios
          /\ op'[q].action = "delete" => op'[q].pc \in {"checking", "cleaning", "retryable"}
    BY <1>2, <2>1 DEF OpsNamed, IInv, RequestsOK
  <2>3. QED BY <1>2, <2>1, <2>2 DEF OpsNamed, Exists
<1>4. \A q \in Ops : \A p \in Portfolios : q # o /\ Withheld(q, p) => Withheld(q, p)'
  BY <1>2 DEF Withheld, KeepsFence
<1>5. RemovalsFenced'
  BY <1>2, <1>4 DEF RemovalsFenced, IInv, RequestsOK
<1>6. QED BY <1>2, <1>3, <1>5 DEF RequestsOK

LEMMA Idle == /\ NoOp \in Op /\ NoOp.pc = "idle" /\ NoOp.action = "none"
              /\ NoOp.todo = {} /\ NoOp.at = 0 /\ NoOp.target = 0
  BY AccountsAssumption DEF NoOp, Op

\* A request that ends leaves nothing that needs a fence.
LEMMA RequestEnds ==
    ASSUME IInv, NEW o \in Ops, op' = [op EXCEPT ![o] = NoOp],
           acts' \in 0 .. MaxActs, portfolio' \in [Portfolios -> Portfolio], KeepsFence,
           \A a \in Accounts : Exists(a) => Exists(a)'
    PROVE  RequestsOK'
  BY Idle, RequestStep

LEMMA ActCounts == ASSUME Act, acts \in 0 .. MaxActs PROVE acts' \in 0 .. MaxActs
  BY AccountsAssumption DEF Act

\* The portfolios of a fence
LEMMA FencedPortfolios ==
    ASSUME IInv, NEW ps \in SUBSET Portfolios, \A p \in ps : HasRow(p), portfolio' = Fenced(ps)
    PROVE  /\ portfolio' \in [Portfolios -> Portfolio] /\ KeepsFence /\ NoNewPortfolio
           /\ \A p \in ps : portfolio'[p].status = "deletion_pending"
<1>1. portfolio \in [Portfolios -> Portfolio]
  BY DEF IInv, RequestsOK
<1> DEFINE f(p) == [portfolio[p] EXCEPT !.status = "deletion_pending",
                                        !.work = IF @ = "queued" THEN "idle" ELSE @]
<1>2. \A p \in Portfolios :
        /\ f(p) \in Portfolio /\ f(p).status = "deletion_pending"
        /\ f(p).owner = portfolio[p].owner /\ f(p).was_reset = portfolio[p].was_reset
        /\ f(p).late = portfolio[p].late
        /\ f(p).work = "running" => portfolio[p].work = "running"
  BY <1>1 DEF Portfolio
<1>3. \A p \in Portfolios : portfolio'[p] = IF p \notin ps THEN portfolio[p] ELSE f(p)
  BY DEF Fenced
<1> HIDE DEF f
<1>4. portfolio' \in [Portfolios -> Portfolio]
  <2>1. DOMAIN portfolio' = Portfolios /\ portfolio' = [p \in Portfolios |-> portfolio'[p]]
    BY DEF Fenced
  <2>2. QED BY <1>1, <1>2, <1>3, <2>1
<1>5. \A p \in ps : portfolio'[p].status = "deletion_pending"
  BY <1>2, <1>3
<1>6. KeepsFence
  BY <1>2, <1>3 DEF KeepsFence, HasRow
<1>7. NoNewPortfolio
  BY <1>2, <1>3 DEF NoNewPortfolio, HasRow
<1>8. QED BY <1>4, <1>5, <1>6, <1>7

LEMMA PortfoliosUntouched ==
    ASSUME IInv, UNCHANGED portfolio
    PROVE  portfolio' \in [Portfolios -> Portfolio] /\ KeepsFence /\ NoNewPortfolio
  BY DEF IInv, RequestsOK, KeepsFence, NoNewPortfolio, HasRow

-----------------------------------------------------------------------------
(* Every action keeps the invariant: the accounts' own requests.            *)

LEMMA AdmitStep ==
    ASSUME IInv, NEW a \in Accounts, NEW e \in Emails, Admit(a, e)
    PROVE  IInv'
<1> DEFINE r == IF e \in AdminEmails THEN "admin" ELSE "user"
<1>1. user' \in [Accounts -> User] /\ user[a].status = "none"
  BY DEF Admit, NextAccount, Exists, IInv, AccountsOK, User
<1>2. /\ user'[a] = [status |-> "active", role |-> r, email |-> e, named |-> FALSE]
      /\ \A b \in Accounts : b # a => user'[b] = user[b]
  BY DEF Admit, IInv, AccountsOK
<1>3. UNCHANGED <<tomb, ent, portfolio, op, acts>>
  BY DEF Admit
<1>4. \A b \in Accounts : Exists(b)' <=> Exists(b) \/ b = a
  BY <1>1, <1>2 DEF Exists
<1>5. Late' = Late /\ \A b \in Accounts : Owned(b)' = Owned(b)
  BY <1>3 DEF Owned, HasRow, Late
<1>6. Owned(a) = {}
  BY <1>1 DEF IInv, AccountsOK, OwnersExist, Owned, Exists
<1>7. Cardinality(Counted' \ tomb') <= NormalLimit
  <2>1. CASE e \in AdminEmails
    <3>1. Counted' = Counted
      BY <1>1, <1>2, <2>1 DEF Counted
    <3>2. QED BY <3>1, <1>3 DEF IInv, AccountsOK, LimitsKept
  <2>2. CASE e \notin AdminEmails
    <3>1. Counted' \ tomb' \subseteq Counted \cup {a}
      BY <1>2 DEF Counted
    <3>2. IsFiniteSet(Counted) /\ Cardinality(Counted) \in Nat /\ Cardinality(Counted) < NormalLimit
      BY <2>2, CountedFinite, FS_CardinalityType DEF Admit
    <3>3. /\ IsFiniteSet(Counted \cup {a})
          /\ Cardinality(Counted \cup {a}) <= Cardinality(Counted) + 1
      <4>1. /\ IsFiniteSet(Counted \cup {a})
            /\ \/ Cardinality(Counted \cup {a}) = Cardinality(Counted)
               \/ Cardinality(Counted \cup {a}) = Cardinality(Counted) + 1
        BY <3>2, FS_AddElement
      <4>2. QED BY <3>2, <4>1
    <3>4. /\ Cardinality(Counted' \ tomb') <= Cardinality(Counted \cup {a})
          /\ Cardinality(Counted' \ tomb') \in Nat /\ Cardinality(Counted \cup {a}) \in Nat
      BY <3>1, <3>3, FS_Subset, FS_CardinalityType
    <3>5. QED BY <3>2, <3>3, <3>4, AccountsAssumption
  <2>3. QED BY <2>1, <2>2
<1>8. LimitsKept'
  BY <1>2, <1>3, <1>4, <1>5, <1>6, <1>7 DEF LimitsKept, IInv, AccountsOK
<1>9. EntitlementsOfUsers' /\ OwnersExist'
  BY <1>1, <1>2, <1>3, <1>4
  DEF EntitlementsOfUsers, OwnersExist, HasRow, Exists, IInv, AccountsOK
<1>10. \A b \in Accounts :
         /\ Exists(b)' /\ user'[b].email = Released => user'[b].status = "deleted"
         /\ user'[b].status = "deleted" => b \in tomb'
         /\ ent'[b].dead => ent'[b].live = 0
  BY <1>2, <1>3, <1>4, AccountsAssumption DEF IInv, AccountsOK
<1>11. AccountsOK'
  BY <1>1, <1>3, <1>8, <1>9, <1>10 DEF AccountsOK, IInv
<1>12. RequestsOK'
  BY <1>3, <1>4, PortfoliosUntouched, RequestsUntouched DEF IInv, RequestsOK
<1>13. QED BY <1>11, <1>12 DEF IInv

\* A step of one account's that touches neither portfolios nor requests
LEMMA AccountStep ==
    ASSUME IInv, NEW a \in Accounts, MayChange(a), user'[a].role = user[a].role,
           UNCHANGED <<ent, portfolio, op>>, acts' \in 0 .. MaxActs
    PROVE  IInv'
<1>1. \A b \in Accounts : Exists(b) => Exists(b)'
  BY DEF MayChange, Exists
<1>2. QED BY <1>1, PortfoliosUntouched, StatusChange, RequestsUntouched DEF IInv

LEMMA ClaimUsernameStep ==
    ASSUME IInv, NEW a \in Accounts, ClaimUsername(a)
    PROVE  IInv'
<1>1. MayChange(a) /\ user'[a].role = user[a].role
  BY DEF ClaimUsername, MayChange, Exists, IInv, AccountsOK, User
<1>2. QED BY <1>1, AccountStep DEF ClaimUsername, IInv, RequestsOK

LEMMA SuspendStep ==
    ASSUME IInv, NEW b \in Accounts, NEW a \in Accounts, Suspend(b, a)
    PROVE  IInv'
<1>1. MayChange(a) /\ user'[a].role = user[a].role
  BY DEF Suspend, MayChange, Exists, IInv, AccountsOK, User
<1>2. QED BY <1>1, AccountStep, ActCounts DEF Suspend, IInv, RequestsOK

LEMMA ReadmitStep ==
    ASSUME IInv, NEW a \in Accounts, Readmit(a)
    PROVE  IInv'
<1>1. MayChange(a) /\ user'[a].role = user[a].role
  BY DEF Readmit, MayChange, Exists, IInv, AccountsOK, User
<1>2. QED BY <1>1, AccountStep, ActCounts DEF Readmit, IInv, RequestsOK

\* A portfolio p that did not exist becomes r, account a's.
LEMMA NewPortfolio ==
    ASSUME IInv, NEW a \in Accounts, NEW p \in Portfolios, NEW r \in Portfolio,
           portfolio[p].status = "none", portfolio' = [portfolio EXCEPT ![p] = r],
           r.status = "active", r.owner = a, Exists(a), UNCHANGED <<user, tomb>>
    PROVE  /\ portfolio' \in [Portfolios -> Portfolio] /\ KeepsFence /\ OwnersExist'
           /\ Cardinality(Counted' \ tomb') <= NormalLimit
           /\ Owned(a)' = Owned(a) \cup {p} /\ \A b \in Accounts : b # a => Owned(b)' = Owned(b)
           /\ Late' \ {p} = Late \ {p} /\ (p \in Late' <=> r.late)
           /\ \A b \in Accounts : p \notin Owned(b)
<1>1. portfolio \in [Portfolios -> Portfolio]
  BY DEF IInv, RequestsOK
<1>2. /\ portfolio' \in [Portfolios -> Portfolio] /\ portfolio'[p] = r
      /\ \A q \in Portfolios : q # p => portfolio'[q] = portfolio[q]
  BY <1>1
<1>3. KeepsFence
  BY <1>2 DEF KeepsFence
<1>4. OwnersExist'
  BY <1>2 DEF OwnersExist, HasRow, Exists, IInv, AccountsOK
<1>5. Cardinality(Counted' \ tomb') <= NormalLimit
  BY DEF Counted, IInv, AccountsOK, LimitsKept
<1>6. Owned(a)' = Owned(a) \cup {p} /\ \A b \in Accounts : b # a => Owned(b)' = Owned(b)
  BY <1>2 DEF Owned, HasRow
<1>7. Late' \ {p} = Late \ {p} /\ (p \in Late' <=> r.late)
  BY <1>2 DEF Late
<1>8. \A b \in Accounts : p \notin Owned(b)
  BY DEF Owned, HasRow
<1>9. QED BY <1>2, <1>3, <1>4, <1>5, <1>6, <1>7, <1>8

LEMMA CreatePortfolioStep ==
    ASSUME IInv, NEW a \in Accounts, NEW p \in Portfolios, CreatePortfolio(a, p)
    PROVE  IInv'
<1> DEFINE r == [portfolio[p] EXCEPT !.status = "active", !.owner = a]
           n == [NoEntitlement EXCEPT !.live = p]
<1>1. /\ UNCHANGED <<user, tomb, op, acts>> /\ user[a].role = "user" /\ Exists(a)
      /\ portfolio[p].status = "none" /\ ent[a] = NoEntitlement
  BY DEF CreatePortfolio, NextPortfolio, SignedIn, Exists
<1>2. /\ portfolio \in [Portfolios -> Portfolio] /\ ent \in [Accounts -> Entitlement]
      /\ a \in 0 .. MaxAccounts /\ p \in 0 .. MaxPortfolios
  BY AccountsAssumption DEF IInv, AccountsOK, RequestsOK, Accounts, Portfolios
<1>3. r \in Portfolio /\ r.status = "active" /\ r.owner = a /\ r.late = portfolio[p].late
  BY <1>2 DEF Portfolio
<1>4. n \in Entitlement /\ n.live = p /\ ~ n.dead
  BY <1>2 DEF Entitlement, NoEntitlement
<1>5. portfolio' = [portfolio EXCEPT ![p] = r]
  BY <1>2 DEF CreatePortfolio
<1>6. ent' = [ent EXCEPT ![a] = n]
  BY <1>1, <1>2 DEF CreatePortfolio
<1> HIDE DEF r, n
<1>7. /\ ent' \in [Accounts -> Entitlement] /\ ent'[a] = n
      /\ \A b \in Accounts : b # a => ent'[b] = ent[b]
  BY <1>2, <1>4, <1>6
<1>8. /\ portfolio' \in [Portfolios -> Portfolio] /\ KeepsFence /\ OwnersExist'
      /\ Cardinality(Counted' \ tomb') <= NormalLimit
      /\ Owned(a)' = Owned(a) \cup {p} /\ \A b \in Accounts : b # a => Owned(b)' = Owned(b)
      /\ Late' \ {p} = Late \ {p} /\ \A b \in Accounts : p \notin Owned(b)
  BY <1>1, <1>3, <1>5, NewPortfolio
<1>9. LimitsKept'
  <2>1. ASSUME NEW b \in Accounts, Exists(b)', user'[b].role = "user"
        PROVE  Owned(b)' \subseteq {ent'[b].live} \cup Late'
    <3>1. Owned(b) \subseteq {ent[b].live} \cup Late
      BY <1>1, <2>1 DEF IInv, AccountsOK, LimitsKept, Exists
    <3>2. CASE b # a
      BY <1>7, <1>8, <3>1, <3>2
    <3>3. CASE b = a
      <4>1. 0 \notin Owned(a)
        BY DEF Owned, Portfolios
      <4>2. Owned(a) \subseteq Late
        BY <1>1, <3>1, <3>3, <4>1 DEF NoEntitlement
      <4>3. QED BY <1>4, <1>7, <1>8, <3>3, <4>2
    <3>4. QED BY <3>2, <3>3
  <2>2. QED BY <1>8, <2>1 DEF LimitsKept
<1>10. EntitlementsOfUsers'
  BY <1>1, <1>7 DEF EntitlementsOfUsers, Exists, IInv, AccountsOK
<1>11. \A b \in Accounts : ent'[b].dead => ent'[b].live = 0
  BY <1>4, <1>7 DEF IInv, AccountsOK
<1>12. AccountsOK'
  BY <1>1, <1>7, <1>8, <1>9, <1>10, <1>11 DEF AccountsOK, IInv, Exists
<1>13. RequestsOK'
  BY <1>1, <1>8, RequestsUntouched DEF IInv, RequestsOK, Exists
<1>14. QED BY <1>12, <1>13 DEF IInv

\* A step of a portfolio's job: it passes the fence only where there is none.
LEMMA WorkStep ==
    ASSUME IInv, NEW p \in Portfolios, NEW w \in {"idle", "queued", "claimed", "running"},
           NEW v \in BOOLEAN,
           portfolio' = [portfolio EXCEPT ![p] = [@ EXCEPT !.work = w, !.outlived = v]],
           w = "running" => portfolio[p].status = "active" \/ portfolio[p].work = "running",
           UNCHANGED <<user, tomb, ent, op>>, acts' \in 0 .. MaxActs
    PROVE  IInv'
<1>1. /\ portfolio' \in [Portfolios -> Portfolio]
      /\ \A q \in Portfolios :
           /\ portfolio'[q].status = portfolio[q].status
           /\ portfolio'[q].owner = portfolio[q].owner
           /\ portfolio'[q].was_reset = portfolio[q].was_reset
           /\ portfolio'[q].late = portfolio[q].late
           /\ portfolio'[q].work = IF q = p THEN w ELSE portfolio[q].work
  <2> DEFINE r == [portfolio[p] EXCEPT !.work = w, !.outlived = v]
  <2>1. portfolio \in [Portfolios -> Portfolio] /\ portfolio' = [portfolio EXCEPT ![p] = r]
    BY DEF IInv, RequestsOK
  <2>2. /\ r \in Portfolio /\ r.status = portfolio[p].status /\ r.owner = portfolio[p].owner
        /\ r.was_reset = portfolio[p].was_reset /\ r.late = portfolio[p].late /\ r.work = w
    BY <2>1 DEF Portfolio
  <2> HIDE DEF r
  <2>3. QED BY <2>1, <2>2
<1>2. KeepsFence
  BY <1>1 DEF KeepsFence
<1>3. NoNewPortfolio
  BY <1>1 DEF NoNewPortfolio, HasRow
<1>4. QED
  BY <1>1, <1>2, <1>3, AccountsUntouched, RequestsUntouched DEF IInv, RequestsOK, Exists

\* What the steps of a job do to a portfolio
LEMMA WorkChanges ==
    ASSUME portfolio \in [Portfolios -> Portfolio], NEW p \in Portfolios,
           \/ (\E a \in Accounts : Enqueue(a, p)) \/ ClaimWork(p) \/ StartWork(p) \/ EndWork(p)
           \/ LoseLease(p) \/ EndOutlived(p)
    PROVE  /\ \E w \in {"idle", "queued", "claimed", "running"}, v \in BOOLEAN :
                /\ portfolio' = [portfolio EXCEPT ![p] = [@ EXCEPT !.work = w, !.outlived = v]]
                /\ w = "running" =>
                     portfolio[p].status = "active" \/ portfolio[p].work = "running"
           /\ UNCHANGED <<user, tomb, ent, op>> /\ (Act \/ UNCHANGED acts)
<1>1. portfolio[p] \in Portfolio
  OBVIOUS
<1>2. portfolio[p].outlived \in BOOLEAN
      /\ portfolio[p].work \in {"idle", "queued", "claimed", "running"}
  BY <1>1 DEF Portfolio
<1>3. ASSUME NEW w
      PROVE  [portfolio EXCEPT ![p].work = w] =
             [portfolio EXCEPT ![p] = [@ EXCEPT !.work = w, !.outlived = portfolio[p].outlived]]
  <2>1. [portfolio[p] EXCEPT !.work = w] =
        [portfolio[p] EXCEPT !.work = w, !.outlived = portfolio[p].outlived]
    BY <1>1 DEF Portfolio
  <2>2. QED BY <2>1
<1>4. CASE (\E a \in Accounts : Enqueue(a, p)) \/ ClaimWork(p) \/ StartWork(p) \/ EndWork(p)
  <2>1. UNCHANGED <<user, tomb, ent, op, acts>>
    BY <1>4 DEF Enqueue, ClaimWork, StartWork, EndWork
  <2>2. PICK w \in {"idle", "queued", "claimed", "running"} :
          /\ portfolio' = [portfolio EXCEPT ![p].work = w]
          /\ w = "running" => portfolio[p].status = "active"
    BY <1>4 DEF Enqueue, ClaimWork, StartWork, EndWork, MayWork
  <2>3. QED BY <1>2, <1>3, <2>1, <2>2
<1>5. CASE LoseLease(p)
  <2>1. UNCHANGED <<user, tomb, ent, op>> /\ Act
    BY <1>5 DEF LoseLease
  <2>2. PICK w \in {"idle", "queued"} :
          portfolio' = [portfolio EXCEPT ![p] = [@ EXCEPT !.work = w, !.outlived = TRUE]]
    BY <1>5 DEF LoseLease
  <2>3. QED BY <2>1, <2>2
<1>6. CASE EndOutlived(p)
  <2>1. UNCHANGED <<user, tomb, ent, op, acts>>
    BY <1>6 DEF EndOutlived
  <2>2. [portfolio[p] EXCEPT !.outlived = FALSE] =
        [portfolio[p] EXCEPT !.work = portfolio[p].work, !.outlived = FALSE]
    BY <1>1 DEF Portfolio
  <2>3. portfolio' = [portfolio EXCEPT ![p] = [@ EXCEPT !.work = portfolio[p].work,
                                                       !.outlived = FALSE]]
    BY <1>6, <2>2 DEF EndOutlived
  <2>4. QED BY <1>2, <2>1, <2>3
<1>7. QED BY <1>4, <1>5, <1>6

LEMMA WorkSteps ==
    ASSUME IInv, NEW p \in Portfolios,
           \/ (\E a \in Accounts : Enqueue(a, p)) \/ ClaimWork(p) \/ StartWork(p) \/ EndWork(p)
           \/ LoseLease(p) \/ EndOutlived(p)
    PROVE  IInv'
<1>1. portfolio \in [Portfolios -> Portfolio]
  BY DEF IInv, RequestsOK
<1>2. UNCHANGED <<user, tomb, ent, op>> /\ acts' \in 0 .. MaxActs
  BY <1>1, WorkChanges, ActCounts DEF IInv, RequestsOK
<1>3. PICK w \in {"idle", "queued", "claimed", "running"}, v \in BOOLEAN :
        /\ portfolio' = [portfolio EXCEPT ![p] = [@ EXCEPT !.work = w, !.outlived = v]]
        /\ w = "running" => portfolio[p].status = "active" \/ portfolio[p].work = "running"
  BY <1>1, WorkChanges
<1>4. QED BY <1>2, <1>3, WorkStep

-----------------------------------------------------------------------------
(* The administrator's operations of one transaction.                       *)

\* A step that changes one account's role or entitlement, and nothing else
LEMMA RoleStep ==
    ASSUME IInv, NEW a \in Accounts, UNCHANGED <<tomb, portfolio, op>>, acts' \in 0 .. MaxActs,
           user' \in [Accounts -> User], ent' \in [Accounts -> Entitlement],
           \A b \in Accounts : /\ user'[b].status = user[b].status
                               /\ user'[b].email = user[b].email
                               /\ b # a => user'[b].role = user[b].role /\ ent'[b] = ent[b],
           Exists(a), Cardinality(Counted' \ tomb') <= NormalLimit,
           user'[a].role = "user" => Owned(a) \subseteq {ent'[a].live} \cup Late,
           user'[a].role = "admin" => ent'[a] = NoEntitlement,
           ent'[a].dead => ent'[a].live = 0
    PROVE  IInv'
<1>1. Late' = Late /\ \A b \in Accounts : (Exists(b)' <=> Exists(b)) /\ Owned(b)' = Owned(b)
  BY DEF Exists, Owned, HasRow, Late
<1>2. LimitsKept'
  BY <1>1 DEF LimitsKept, IInv, AccountsOK
<1>3. EntitlementsOfUsers' /\ OwnersExist'
  BY <1>1 DEF EntitlementsOfUsers, OwnersExist, HasRow, IInv, AccountsOK
<1>4. AccountsOK'
  BY <1>1, <1>2, <1>3 DEF AccountsOK, IInv
<1>5. RequestsOK'
  BY <1>1, PortfoliosUntouched, RequestsUntouched
<1>6. QED BY <1>4, <1>5 DEF IInv

LEMMA ResetEntitlementStep ==
    ASSUME IInv, NEW a \in Accounts, ResetEntitlement(a)
    PROVE  IInv'
<1> DEFINE n == [ent[a] EXCEPT !.dead = FALSE]
<1>1. ent[a] \in Entitlement /\ ent \in [Accounts -> Entitlement]
  BY DEF IInv, AccountsOK
<1>2. n \in Entitlement /\ n.live = ent[a].live /\ ~ n.dead
  BY <1>1 DEF Entitlement
<1> HIDE DEF n
<1>3. ent' = [ent EXCEPT ![a] = n] /\ UNCHANGED <<user, tomb, portfolio, op>>
  BY DEF ResetEntitlement, n
<1>4. user[a].role = "user" /\ ent[a].dead /\ Exists(a) /\ acts' \in 0 .. MaxActs
  <2>1. user[a].role = "user" /\ ent[a].dead /\ Act
    BY DEF ResetEntitlement
  <2>2. Exists(a)
    BY <2>1 DEF IInv, AccountsOK, EntitlementsOfUsers, NoEntitlement
  <2>3. QED BY <2>1, <2>2, ActCounts DEF IInv, RequestsOK
<1>5. Owned(a) \subseteq {n.live} \cup Late
  BY <1>2, <1>4 DEF IInv, AccountsOK, LimitsKept
<1>6. Cardinality(Counted' \ tomb') <= NormalLimit
  BY <1>3 DEF Counted, IInv, AccountsOK, LimitsKept
<1>7. /\ ent' \in [Accounts -> Entitlement] /\ ent'[a] = n
      /\ \A b \in Accounts : b # a => ent'[b] = ent[b]
  BY <1>1, <1>2, <1>3
<1>8. QED BY <1>2, <1>3, <1>4, <1>5, <1>6, <1>7, RoleStep DEF IInv, AccountsOK

LEMMA PromoteStep ==
    ASSUME IInv, NEW a \in Accounts, Promote(a)
    PROVE  IInv'
<1>1. /\ user' = [user EXCEPT ![a].role = "admin"] /\ user[a].status = "active"
      /\ ent' = [ent EXCEPT ![a] = NoEntitlement] /\ UNCHANGED <<tomb, portfolio, op>>
      /\ acts' \in 0 .. MaxActs /\ Exists(a)
  BY ActCounts DEF Promote, Exists, IInv, RequestsOK
<1>2. /\ user' \in [Accounts -> User] /\ user'[a].role = "admin"
      /\ \A b \in Accounts : /\ user'[b].status = user[b].status
                             /\ user'[b].email = user[b].email
                             /\ b # a => user'[b].role = user[b].role
  BY <1>1 DEF IInv, AccountsOK, User
<1>3. NoEntitlement \in Entitlement
  BY AccountsAssumption DEF NoEntitlement, Entitlement
<1>4. /\ ent' \in [Accounts -> Entitlement] /\ ent'[a] = NoEntitlement
      /\ \A b \in Accounts : b # a => ent'[b] = ent[b]
  BY <1>1, <1>3 DEF IInv, AccountsOK
<1>5. Cardinality(Counted' \ tomb') <= NormalLimit
  <2>1. Counted' \ tomb' \subseteq Counted \ tomb
    BY <1>1, <1>2 DEF Counted
  <2>2. /\ Cardinality(Counted' \ tomb') <= Cardinality(Counted \ tomb)
        /\ IsFiniteSet(Counted' \ tomb')
    BY <2>1, CountedFinite, FS_Subset
  <2>3. Cardinality(Counted' \ tomb') \in Nat /\ Cardinality(Counted \ tomb) \in Nat
    BY <2>2, CountedFinite, FS_CardinalityType
  <2>4. QED BY <2>2, <2>3, AccountsAssumption DEF IInv, AccountsOK, LimitsKept
<1>6. ~ ent'[a].dead
  BY <1>4 DEF NoEntitlement
<1>7. QED BY <1>1, <1>2, <1>4, <1>5, <1>6, RoleStep

\* A set of at most one portfolio is bound as a whole.
LEMMA AtMostOne ==
    ASSUME NEW S \in SUBSET Portfolios, Cardinality(S) <= 1, NEW x \in S
    PROVE  S = {x}
<1>1. IsFiniteSet(S)
  <2>1. IsFiniteSet(Portfolios)
    BY FS_Interval, AccountsAssumption DEF Portfolios
  <2>2. QED BY <2>1, FS_Subset
<1>2. IsFiniteSet(S \ {x}) /\ Cardinality(S \ {x}) = Cardinality(S) - 1
  BY <1>1, FS_RemoveElement
<1>3. Cardinality(S) \in Nat /\ Cardinality(S \ {x}) \in Nat
  BY <1>1, <1>2, FS_CardinalityType
<1>4. Cardinality(S \ {x}) = 0
  BY <1>2, <1>3
<1>5. QED BY <1>2, <1>4, FS_EmptySet

LEMMA DemoteStep ==
    ASSUME IInv, NEW b \in Accounts, NEW a \in Accounts, Demote(b, a)
    PROVE  IInv'
<1> DEFINE v == IF Owned(a) = {} THEN ent[a].live ELSE CHOOSE p \in Owned(a) : TRUE
           n == [NoEntitlement EXCEPT !.live = v]
<1>1. /\ user' = [user EXCEPT ![a].role = "user"]
      /\ user[a].status = "active" /\ user[a].role = "admin"
      /\ UNCHANGED <<tomb, portfolio, op>>
      /\ acts' \in 0 .. MaxActs /\ Exists(a)
  BY ActCounts DEF Demote, Exists, IInv, RequestsOK
<1>2. /\ user' \in [Accounts -> User] /\ user'[a].role = "user"
      /\ \A c \in Accounts : /\ user'[c].status = user[c].status
                             /\ user'[c].email = user[c].email
                             /\ c # a => user'[c].role = user[c].role
  BY <1>1 DEF IInv, AccountsOK, User
<1>3. ent[a] = NoEntitlement /\ ent \in [Accounts -> Entitlement]
  BY <1>1 DEF IInv, AccountsOK, EntitlementsOfUsers
<1>4. v \in 0 .. MaxPortfolios /\ Owned(a) \subseteq {v}
  <2>1. CASE Owned(a) = {}
    BY <1>3, <2>1, AccountsAssumption DEF NoEntitlement
  <2>2. CASE Owned(a) # {}
    <3>1. v \in Owned(a)
      BY <2>2
    <3>2. Owned(a) = {v}
      BY <3>1, AtMostOne DEF Demote, Owned
    <3>3. QED BY <3>1, <3>2, AccountsAssumption DEF Owned, Portfolios
  <2>3. QED BY <2>1, <2>2
<1>5. ent' = [ent EXCEPT ![a] = n]
  BY <1>3 DEF Demote
<1> HIDE DEF v
<1>6. n \in Entitlement /\ n.live = v /\ ~ n.dead
  BY <1>4 DEF Entitlement, NoEntitlement
<1> HIDE DEF n
<1>7. /\ ent' \in [Accounts -> Entitlement] /\ ent'[a] = n
      /\ \A c \in Accounts : c # a => ent'[c] = ent[c]
  BY <1>3, <1>5, <1>6
<1>8. Cardinality(Counted' \ tomb') <= NormalLimit
  <2>1. Counted' \ tomb' \subseteq Counted \cup {a}
    BY <1>1, <1>2 DEF Counted
  <2>2. IsFiniteSet(Counted) /\ Cardinality(Counted) \in Nat /\ Cardinality(Counted) < NormalLimit
    BY CountedFinite, FS_CardinalityType DEF Demote
  <2>3. /\ IsFiniteSet(Counted \cup {a})
        /\ \/ Cardinality(Counted \cup {a}) = Cardinality(Counted)
           \/ Cardinality(Counted \cup {a}) = Cardinality(Counted) + 1
    BY <2>2, FS_AddElement
  <2>4. /\ Cardinality(Counted' \ tomb') <= Cardinality(Counted \cup {a})
        /\ Cardinality(Counted' \ tomb') \in Nat
    BY <2>1, <2>3, FS_Subset, FS_CardinalityType
  <2>5. QED BY <2>2, <2>3, <2>4, AccountsAssumption
<1>9. QED BY <1>1, <1>2, <1>4, <1>6, <1>7, <1>8, RoleStep

-----------------------------------------------------------------------------
(* Requests of several transactions.                                        *)

\* A request that is lost or fails, and one that ends without a change
LEMMA RequestOnly ==
    ASSUME IInv, NEW o \in Ops, NEW w \in Op, op' = [op EXCEPT ![o] = w],
           acts' \in 0 .. MaxActs, UNCHANGED <<user, tomb, ent, portfolio>>,
           w.pc \in {"restoring", "creating"} \/ w.action = "delete" =>
             w.target \in Accounts /\ Exists(w.target),
           w.pc \in {"cleaning", "resetting"} => w.at \in Portfolios,
           w.action = "delete" => w.pc \in {"checking", "cleaning", "retryable"},
           \A p \in Portfolios :
             p \in w.todo \/ (w.pc = "cleaning" /\ w.at = p) => Withheld(o, p)'
    PROVE  IInv'
<1>1. AccountsOK'
  BY PortfoliosUntouched, AccountsUntouched
<1>2. RequestsOK'
  BY PortfoliosUntouched, RequestStep DEF Exists
<1>3. QED BY <1>1, <1>2 DEF IInv

LEMMA RestoreStep ==
    ASSUME IInv, NEW o \in Ops, NEW a \in Accounts, Restore(o, a)
    PROVE  IInv'
<1> DEFINE w == [NoOp EXCEPT !.pc = "restoring", !.action = "restore",
                             !.target = a, !.seen = user[a].status]
<1>1. w \in Op /\ w.pc = "restoring" /\ w.action = "restore" /\ w.target = a /\ w.todo = {}
  <2>1. user[a].status \in {"active", "suspended", "deletion_pending"} /\ a \in 0 .. MaxAccounts
    BY AccountsAssumption DEF Restore, Exists, IInv, AccountsOK, User, Accounts
  <2>2. QED BY <2>1, Idle DEF Op
<1>2. op' = [op EXCEPT ![o] = w] /\ Exists(a) /\ UNCHANGED <<user, tomb, ent, portfolio>>
  BY DEF Restore
<1>3. acts' \in 0 .. MaxActs
  BY ActCounts DEF Restore, IInv, RequestsOK
<1> HIDE DEF w
<1>4. QED BY <1>1, <1>2, <1>3, RequestOnly

LEMMA EnterAsAdminStep ==
    ASSUME IInv, NEW o \in Ops, NEW a \in Accounts, EnterAsAdmin(o, a)
    PROVE  IInv'
<1> DEFINE w == [NoOp EXCEPT !.pc = "creating", !.action = "create", !.target = a]
<1>1. w \in Op /\ w.pc = "creating" /\ w.action = "create" /\ w.target = a /\ w.todo = {}
  <2>1. a \in 0 .. MaxAccounts
    BY AccountsAssumption DEF Accounts
  <2>2. QED BY <2>1, Idle DEF Op
<1>2. op' = [op EXCEPT ![o] = w] /\ Exists(a) /\ UNCHANGED <<user, tomb, ent, portfolio>>
  BY DEF EnterAsAdmin, ActiveAdmin, SignedIn, Exists
<1>3. acts' \in 0 .. MaxActs
  BY ActCounts DEF EnterAsAdmin, IInv, RequestsOK
<1> HIDE DEF w
<1>4. QED BY <1>1, <1>2, <1>3, RequestOnly

\* A portfolio whose owner is a user by now is late.
LEMMA CreateAsAdminStep ==
    ASSUME IInv, NEW o \in Ops, NEW p \in Portfolios, CreateAsAdmin(o, p)
    PROVE  IInv'
<1>1. PICK a \in Accounts : a = op[o].target /\ Exists(a)
  BY DEF CreateAsAdmin, IInv, RequestsOK, OpsNamed
<1> DEFINE r == [portfolio[p] EXCEPT !.status = "active", !.owner = a,
                                     !.late = user[a].role = "user"]
<1>2. /\ UNCHANGED <<user, tomb, ent, acts>> /\ op' = [op EXCEPT ![o] = NoOp]
      /\ portfolio[p].status = "none"
  BY DEF CreateAsAdmin, NextPortfolio
<1>3. portfolio \in [Portfolios -> Portfolio] /\ a \in 0 .. MaxAccounts
  BY AccountsAssumption DEF IInv, RequestsOK, Accounts
<1>4. r \in Portfolio /\ r.status = "active" /\ r.owner = a /\ (r.late <=> user[a].role = "user")
  BY <1>3 DEF Portfolio
<1>5. portfolio' = [portfolio EXCEPT ![p] = r]
  BY <1>1, <1>3 DEF CreateAsAdmin
<1> HIDE DEF r
<1>6. /\ portfolio' \in [Portfolios -> Portfolio] /\ KeepsFence /\ OwnersExist'
      /\ Cardinality(Counted' \ tomb') <= NormalLimit
      /\ Owned(a)' = Owned(a) \cup {p} /\ \A b \in Accounts : b # a => Owned(b)' = Owned(b)
      /\ Late' \ {p} = Late \ {p} /\ (p \in Late' <=> r.late)
      /\ \A b \in Accounts : p \notin Owned(b)
  BY <1>1, <1>2, <1>4, <1>5, NewPortfolio
<1>7. LimitsKept'
  <2>1. ASSUME NEW b \in Accounts, Exists(b)', user'[b].role = "user"
        PROVE  Owned(b)' \subseteq {ent'[b].live} \cup Late'
    <3>1. Owned(b) \subseteq {ent[b].live} \cup Late
      BY <1>2, <2>1 DEF IInv, AccountsOK, LimitsKept, Exists
    <3>2. CASE b # a
      BY <1>2, <1>6, <3>1, <3>2
    <3>3. CASE b = a
      <4>1. p \in Late'
        BY <1>2, <1>4, <1>6, <2>1, <3>3
      <4>2. QED BY <1>2, <1>6, <3>1, <3>3, <4>1
    <3>4. QED BY <3>2, <3>3
  <2>2. QED BY <1>6, <2>1 DEF LimitsKept
<1>8. EntitlementsOfUsers'
  BY <1>2 DEF EntitlementsOfUsers, Exists, IInv, AccountsOK
<1>9. AccountsOK'
  BY <1>2, <1>6, <1>7, <1>8 DEF AccountsOK, IInv, Exists
<1>10. RequestsOK'
  BY <1>2, <1>6, RequestEnds DEF IInv, RequestsOK, Exists
<1>11. QED BY <1>9, <1>10 DEF IInv

LEMMA AbandonStep ==
    ASSUME IInv, NEW o \in Ops, Abandon(o)
    PROVE  IInv'
  BY Idle, RequestOnly DEF Abandon, IInv, RequestsOK

LEMMA RestoreFinalStep ==
    ASSUME IInv, NEW o \in Ops, RestoreFinal(o)
    PROVE  IInv'
<1>1. PICK a \in Accounts : a = op[o].target /\ Exists(a)
  BY DEF RestoreFinal, IInv, RequestsOK, OpsNamed
<1>2. UNCHANGED <<tomb, ent, portfolio, acts>> /\ op' = [op EXCEPT ![o] = NoOp]
  BY DEF RestoreFinal
<1>3. user' = user \/ /\ user' = [user EXCEPT ![a].status = "active"]
                      /\ user[a].email # Released
  BY <1>1 DEF RestoreFinal
<1>4. MayChange(a) /\ user'[a].role = user[a].role
  <2>1. CASE user' = user
    BY <1>1, <1>2, <2>1 DEF MayChange, Exists, IInv, AccountsOK
  <2>2. CASE user' = [user EXCEPT ![a].status = "active"] /\ user[a].email # Released
    BY <1>1, <1>2, <2>2 DEF MayChange, Exists, IInv, AccountsOK, User
  <2>3. QED BY <1>3, <2>1, <2>2
<1>5. AccountsOK'
  BY <1>2, <1>4, PortfoliosUntouched, StatusChange
<1>6. \A b \in Accounts : Exists(b) => Exists(b)'
  BY <1>4 DEF MayChange, Exists
<1>7. RequestsOK'
  BY <1>2, <1>6, PortfoliosUntouched, RequestEnds DEF IInv, RequestsOK
<1>8. QED BY <1>5, <1>7 DEF IInv

LEMMA FinishDeleteStep ==
    ASSUME IInv, NEW o \in Ops, FinishDelete(o)
    PROVE  IInv'
<1>1. PICK a \in Accounts : a = op[o].target /\ Exists(a)
  BY DEF FinishDelete, IInv, RequestsOK, OpsNamed
<1>2. UNCHANGED <<ent, portfolio, acts>> /\ op' = [op EXCEPT ![o] = NoOp] /\ tomb' = tomb \cup {a}
  BY <1>1 DEF FinishDelete
<1> DEFINE n == [user[a] EXCEPT !.status = "deleted", !.named = @ /\ ~ op[o].named]
<1>3. user' = [user EXCEPT ![a] = n]
  BY <1>1 DEF FinishDelete
<1>4. n \in User /\ n.role = user[a].role /\ n.status = "deleted"
  <2>1. user[a] \in User
    BY DEF IInv, AccountsOK
  <2>2. (user[a].named /\ ~ op[o].named) \in BOOLEAN
    OBVIOUS
  <2>3. QED BY <2>1, <2>2 DEF User
<1> HIDE DEF n
<1>5. MayChange(a) /\ user'[a].role = user[a].role
  BY <1>1, <1>2, <1>3, <1>4 DEF MayChange, Exists, IInv, AccountsOK
<1>6. AccountsOK'
  BY <1>2, <1>5, PortfoliosUntouched, StatusChange
<1>7. \A b \in Accounts : Exists(b) => Exists(b)'
  BY <1>5 DEF MayChange, Exists
<1>8. RequestsOK'
  BY <1>2, <1>7, PortfoliosUntouched, RequestEnds DEF IInv, RequestsOK
<1>9. QED BY <1>6, <1>8 DEF IInv

\* What is left of a request that failed
LEMMA RetryableKeeps ==
    ASSUME IInv, NEW o \in Ops
    PROVE  /\ Retryable(o) \in Op /\ Retryable(o).pc = "retryable"
           /\ Retryable(o).action = op[o].action /\ Retryable(o).target = op[o].target
           /\ Retryable(o).todo \subseteq op[o].todo
<1>1. op[o] \in Op
  BY DEF IInv, RequestsOK
<1>2. PICK t \in SUBSET op[o].todo : t = IF op[o].action = "delete" THEN {} ELSE op[o].todo
  OBVIOUS
<1>3. Retryable(o) = [NoOp EXCEPT !.pc = "retryable", !.action = op[o].action,
                                  !.target = op[o].target, !.todo = t]
  BY <1>2 DEF Retryable
<1>4. QED BY <1>1, <1>2, <1>3, Idle DEF Op

LEMMA FailureStep ==
    ASSUME IInv, NEW o \in Ops, op' = [op EXCEPT ![o] = Retryable(o)],
           UNCHANGED <<user, tomb, ent, portfolio, acts>>
    PROVE  IInv'
<1>1. PICK w \in Op : w = Retryable(o)
  BY RetryableKeeps
<1>2. op' = [op EXCEPT ![o] = w] /\ op \in [Ops -> Op] /\ acts' \in 0 .. MaxActs
  BY <1>1 DEF IInv, RequestsOK
<1>3. /\ w.pc = "retryable" /\ w.todo \subseteq op[o].todo
      /\ w.action = op[o].action /\ w.target = op[o].target
  BY <1>1, RetryableKeeps
<1>4. w.action = "delete" => w.target \in Accounts /\ Exists(w.target)
  BY <1>3 DEF IInv, RequestsOK, OpsNamed
<1>5. \A p \in Portfolios : p \in w.todo => Withheld(o, p)'
  <2>1. \A p \in Portfolios : p \in w.todo => Withheld(o, p)
    BY <1>3 DEF IInv, RequestsOK, RemovalsFenced
  <2>2. op'[o].pc = "retryable"
    BY <1>2, <1>3
  <2>3. QED BY <2>1, <2>2 DEF Withheld
<1>6. QED BY <1>2, <1>3, <1>4, <1>5, RequestOnly

LEMMA CleanupFailsStep ==
    ASSUME IInv, NEW o \in Ops, CleanupFails(o)
    PROVE  IInv'
  BY FailureStep DEF CleanupFails

LEMMA CheckIdleStep ==
    ASSUME IInv, NEW o \in Ops, NEW p \in Portfolios, CheckIdle(o, p)
    PROVE  IInv'
<1>1. CASE MustWait(p)
  BY <1>1, FailureStep DEF CheckIdle
<1>2. CASE ~ MustWait(p)
  <2> DEFINE w == [op[o] EXCEPT !.pc = "cleaning", !.at = p]
  <2>1. op[o] \in Op /\ op \in [Ops -> Op] /\ p \in 0 .. MaxPortfolios
    BY AccountsAssumption DEF IInv, RequestsOK, Portfolios
  <2>2. /\ w \in Op /\ w.pc = "cleaning" /\ w.at = p /\ w.todo = op[o].todo
        /\ w.action = op[o].action /\ w.target = op[o].target
    BY <2>1 DEF Op
  <2>3. /\ op' = [op EXCEPT ![o] = w] /\ UNCHANGED <<user, tomb, ent, portfolio, acts>>
        /\ p \in op[o].todo
    BY <1>2 DEF CheckIdle
  <2> HIDE DEF w
  <2>4. w.action = "delete" => w.target \in Accounts /\ Exists(w.target)
    BY <2>2 DEF IInv, RequestsOK, OpsNamed
  <2>5. ASSUME NEW q \in Portfolios, q \in w.todo \/ w.at = q PROVE Withheld(o, q)'
    <3>1. Withheld(o, q)
      BY <2>2, <2>3, <2>5 DEF IInv, RequestsOK, RemovalsFenced
    <3>2. op'[o] = w
      BY <2>1, <2>3
    <3>3. QED BY <1>2, <2>2, <2>3, <3>1, <3>2 DEF Withheld, MustWait
  <2>6. acts' \in 0 .. MaxActs
    BY <2>3 DEF IInv, RequestsOK
  <2>7. QED BY <2>2, <2>3, <2>4, <2>5, <2>6, RequestOnly
<1>3. QED BY <1>1, <1>2

\* A fence put up by request o, that leaves w of it
LEMMA FenceStep ==
    ASSUME IInv, NEW o \in Ops, NEW w \in Op, op' = [op EXCEPT ![o] = w],
           acts' \in 0 .. MaxActs, NEW ps \in SUBSET Portfolios, \A p \in ps : HasRow(p),
           portfolio' = Fenced(ps), w.todo \subseteq ps,
           \A a \in Accounts : Exists(a) => Exists(a)',
           w.pc \in {"checking", "resetting"},
           w.action = "delete" => w.target \in Accounts /\ Exists(w.target)' /\ w.pc = "checking",
           w.pc = "resetting" => w.at \in Portfolios
    PROVE  RequestsOK'
<1>1. /\ portfolio' \in [Portfolios -> Portfolio] /\ KeepsFence
      /\ \A p \in ps : portfolio'[p].status = "deletion_pending"
  BY FencedPortfolios
<1>2. op'[o] = w
  BY DEF IInv, RequestsOK
<1>3. \A p \in Portfolios : p \in w.todo => Withheld(o, p)'
  BY <1>1, <1>2 DEF Withheld
<1>4. QED BY <1>1, <1>3, RequestStep

LEMMA FenceAccountStep ==
    ASSUME IInv, NEW o \in Ops, NEW a \in Accounts, Exists(a), user[a].status # "deleted",
           FenceAccount(o, a), acts' \in 0 .. MaxActs
    PROVE  IInv'
<1> DEFINE w == [NoOp EXCEPT !.pc = "checking", !.action = "delete", !.target = a,
                             !.todo = Owned(a), !.named = user[a].named]
<1>1. /\ w \in Op /\ w.pc = "checking" /\ w.action = "delete" /\ w.target = a
      /\ w.todo = Owned(a)
  <2>1. user[a].named \in BOOLEAN /\ a \in 0 .. MaxAccounts /\ Owned(a) \in SUBSET Portfolios
    BY AccountsAssumption DEF IInv, AccountsOK, User, Accounts, Owned
  <2>2. QED BY <2>1, Idle DEF Op
<1>2. /\ op' = [op EXCEPT ![o] = w] /\ UNCHANGED <<tomb, ent>> /\ portfolio' = Fenced(Owned(a))
      /\ user' = [user EXCEPT ![a].status = "deletion_pending"]
  BY DEF FenceAccount
<1> HIDE DEF w
<1>3. MayChange(a) /\ user'[a].role = user[a].role
  BY <1>2 DEF MayChange, Exists, IInv, AccountsOK, User
<1>4. Owned(a) \in SUBSET Portfolios /\ \A p \in Owned(a) : HasRow(p)
  BY DEF Owned
<1>5. AccountsOK'
  BY <1>2, <1>3, <1>4, FencedPortfolios, StatusChange
<1>6. (\A b \in Accounts : Exists(b) => Exists(b)') /\ Exists(a)'
  BY <1>3 DEF MayChange, Exists
<1>7. RequestsOK'
  BY <1>1, <1>2, <1>4, <1>6, FenceStep
<1>8. QED BY <1>5, <1>7 DEF IInv

LEMMA DeleteUserStep ==
    ASSUME IInv, NEW o \in Ops, NEW b \in Accounts, NEW a \in Accounts, DeleteUser(o, b, a)
    PROVE  IInv'
  BY FenceAccountStep, ActCounts DEF DeleteUser, IInv, RequestsOK

LEMMA DeleteProjectStep ==
    ASSUME IInv, NEW o \in Ops, NEW p \in Portfolios, DeleteProject(o, p)
    PROVE  IInv'
<1> DEFINE w == [NoOp EXCEPT !.pc = "checking", !.action = "project_delete", !.todo = {p}]
<1>1. w \in Op /\ w.pc = "checking" /\ w.action = "project_delete" /\ w.todo = {p}
  <2>1. {p} \in SUBSET Portfolios
    OBVIOUS
  <2>2. QED BY <2>1, Idle DEF Op
<1>2. /\ op' = [op EXCEPT ![o] = w] /\ UNCHANGED <<user, tomb, ent>> /\ HasRow(p)
      /\ portfolio' = Fenced({p})
  BY DEF DeleteProject
<1> HIDE DEF w
<1>3. acts' \in 0 .. MaxActs
  BY ActCounts DEF DeleteProject, IInv, RequestsOK
<1>4. AccountsOK'
  BY <1>2, FencedPortfolios, AccountsUntouched
<1>5. RequestsOK'
  BY <1>1, <1>2, <1>3, FenceStep DEF Exists
<1>6. QED BY <1>4, <1>5 DEF IInv

LEMMA ResetStep ==
    ASSUME IInv, NEW o \in Ops, NEW p \in Portfolios, Reset(o, p)
    PROVE  IInv'
<1> DEFINE w == [NoOp EXCEPT !.pc = "resetting", !.action = "reset", !.at = p]
<1>1. w \in Op /\ w.pc = "resetting" /\ w.action = "reset" /\ w.todo = {} /\ w.at = p
  <2>1. p \in 0 .. MaxPortfolios
    BY AccountsAssumption DEF Portfolios
  <2>2. QED BY <2>1, Idle DEF Op
<1>2. /\ op' = [op EXCEPT ![o] = w] /\ UNCHANGED <<user, tomb, ent>> /\ HasRow(p)
      /\ portfolio' = Fenced({p})
  BY DEF Reset
<1> HIDE DEF w
<1>3. acts' \in 0 .. MaxActs
  BY ActCounts DEF Reset, IInv, RequestsOK
<1>4. AccountsOK'
  BY <1>2, FencedPortfolios, AccountsUntouched
<1>5. RequestsOK'
  BY <1>1, <1>2, <1>3, FenceStep DEF Exists
<1>6. QED BY <1>4, <1>5 DEF IInv

LEMMA ResumeStep ==
    ASSUME IInv, NEW o \in Ops, Resume(o)
    PROVE  IInv'
<1>1. acts' \in 0 .. MaxActs
  BY ActCounts DEF Resume, IInv, RequestsOK
<1>2. CASE op[o].action = "delete" /\ user[op[o].target].status = "deleted"
  BY <1>1, <1>2, Idle, RequestOnly DEF Resume
<1>3. CASE op[o].action = "delete" /\ user[op[o].target].status # "deleted"
  <2>1. PICK a \in Accounts : a = op[o].target /\ Exists(a)
    BY <1>3 DEF IInv, RequestsOK, OpsNamed
  <2>2. FenceAccount(o, a) /\ user[a].status # "deleted"
    BY <1>3, <2>1 DEF Resume
  <2>3. QED BY <1>1, <2>1, <2>2, FenceAccountStep
<1>4. CASE op[o].action # "delete"
  <2> DEFINE w == [op[o] EXCEPT !.pc = "checking"]
  <2>1. op[o] \in Op /\ op \in [Ops -> Op]
    BY DEF IInv, RequestsOK
  <2>2. w \in Op /\ w.pc = "checking" /\ w.action = op[o].action /\ w.todo = op[o].todo
    BY <2>1 DEF Op
  <2>3. op' = [op EXCEPT ![o] = w] /\ UNCHANGED <<user, tomb, ent, portfolio>>
    BY <1>4 DEF Resume
  <2> HIDE DEF w
  <2>4. \A p \in Portfolios : p \in w.todo => Withheld(o, p)'
    <3>1. \A p \in Portfolios : p \in w.todo => Withheld(o, p)
      BY <2>2 DEF IInv, RequestsOK, RemovalsFenced
    <3>2. op'[o].pc = "checking"
      BY <2>1, <2>2, <2>3
    <3>3. QED BY <2>3, <3>1, <3>2 DEF Withheld
  <2>5. QED BY <1>1, <1>4, <2>2, <2>3, <2>4, RequestOnly
<1>5. QED BY <1>2, <1>3, <1>4

LEMMA JobDropped ==
    ASSUME portfolio \in [Portfolios -> Portfolio], NEW p \in Portfolios,
           NEW st \in {"active", "removed"}
    PROVE  /\ WithoutJob(p, st) \in Portfolio
           /\ WithoutJob(p, st).status = st /\ WithoutJob(p, st).work = "idle"
           /\ WithoutJob(p, st).owner = portfolio[p].owner
           /\ WithoutJob(p, st).was_reset = portfolio[p].was_reset
           /\ WithoutJob(p, st).late = portfolio[p].late
<1>1. PICK v \in BOOLEAN : v = (portfolio[p].outlived \/ portfolio[p].work = "running")
  BY DEF Portfolio
<1>2. WithoutJob(p, st) = [portfolio[p] EXCEPT !.status = st, !.work = "idle", !.outlived = v]
  BY <1>1 DEF WithoutJob, Portfolio
<1>3. portfolio[p] \in Portfolio
  OBVIOUS
<1> DEFINE n == [portfolio[p] EXCEPT !.status = st, !.work = "idle", !.outlived = v]
<1>4. /\ n.status = st /\ n.work = "idle" /\ n.owner = portfolio[p].owner
      /\ n.was_reset = portfolio[p].was_reset /\ n.late = portfolio[p].late
  BY <1>3 DEF Portfolio
<1>5. n \in Portfolio
  BY <1>3 DEF Portfolio
<1> HIDE DEF n
<1>6. WithoutJob(p, st) = n
  BY <1>2 DEF n
<1>7. QED BY <1>4, <1>5, <1>6

LEMMA ResetFinalStep ==
    ASSUME IInv, NEW o \in Ops, ResetFinal(o)
    PROVE  IInv'
<1>1. PICK p \in Portfolios : p = op[o].at
  BY DEF ResetFinal, IInv, RequestsOK, OpsNamed
<1>2. UNCHANGED <<user, tomb, ent, acts>> /\ op' = [op EXCEPT ![o] = NoOp]
  BY DEF ResetFinal
<1> DEFINE n == [WithoutJob(p, "active") EXCEPT !.was_reset = TRUE]
<1>3. portfolio' = portfolio \/ (HasRow(p) /\ portfolio' = [portfolio EXCEPT ![p] = n])
  BY <1>1 DEF ResetFinal
<1>4. portfolio' \in [Portfolios -> Portfolio] /\ KeepsFence /\ NoNewPortfolio
  <2>1. CASE portfolio' = portfolio
    BY <2>1, PortfoliosUntouched
  <2>2. CASE HasRow(p) /\ portfolio' = [portfolio EXCEPT ![p] = n]
    <3>1. portfolio \in [Portfolios -> Portfolio]
      BY DEF IInv, RequestsOK
    <3>2. /\ n \in Portfolio /\ n.status = "active" /\ n.was_reset
          /\ n.owner = portfolio[p].owner /\ n.late = portfolio[p].late
      BY <3>1, JobDropped DEF Portfolio
    <3> HIDE DEF n
    <3>3. /\ portfolio' \in [Portfolios -> Portfolio] /\ portfolio'[p] = n
          /\ \A q \in Portfolios : q # p => portfolio'[q] = portfolio[q]
      BY <2>2, <3>1, <3>2
    <3>4. QED BY <2>2, <3>2, <3>3 DEF KeepsFence, NoNewPortfolio, HasRow
  <2>3. QED BY <1>3, <2>1, <2>2
<1>5. AccountsOK'
  BY <1>2, <1>4, AccountsUntouched
<1>6. RequestsOK'
  BY <1>2, <1>4, RequestEnds DEF IInv, RequestsOK, Exists
<1>7. QED BY <1>5, <1>6 DEF IInv

LEMMA FinalizeProjectStep ==
    ASSUME IInv, NEW o \in Ops, FinalizeProject(o)
    PROVE  IInv'
<1>1. PICK p \in Portfolios : p = op[o].at
  BY DEF FinalizeProject, IInv, RequestsOK, OpsNamed
<1>2. /\ UNCHANGED <<user, tomb, acts>> /\ op' = AfterRemoval(o) /\ op[o].pc = "cleaning"
      /\ portfolio \in [Portfolios -> Portfolio] /\ ent \in [Accounts -> Entitlement]
  BY DEF FinalizeProject, IInv, AccountsOK, RequestsOK
<1>3. portfolio' \in [Portfolios -> Portfolio] /\ KeepsFence /\ AccountsOK'
  <2>1. CASE ~ HasRow(p)
    <3>1. UNCHANGED <<portfolio, ent>>
      BY <1>1, <2>1 DEF FinalizeProject
    <3>2. QED BY <1>2, <3>1, PortfoliosUntouched, AccountsUntouched
  <2>2. CASE HasRow(p)
    <3> DEFINE n == WithoutJob(p, "removed")
    <3>1. PICK a \in Accounts : a = portfolio[p].owner /\ Exists(a)
      BY <2>2 DEF IInv, AccountsOK, OwnersExist
    <3>2. /\ portfolio' = [portfolio EXCEPT ![p] = n]
          /\ ent' = IF ent[a].live = p THEN [ent EXCEPT ![a] = [live |-> 0, dead |-> TRUE]]
                    ELSE ent
      BY <1>1, <2>2, <3>1 DEF FinalizeProject
    <3>3. /\ n \in Portfolio /\ n.status = "removed" /\ n.was_reset = portfolio[p].was_reset
      BY <1>2, JobDropped
    <3> HIDE DEF n
    <3>4. /\ portfolio' \in [Portfolios -> Portfolio] /\ portfolio'[p] = n
          /\ \A q \in Portfolios : q # p => portfolio'[q] = portfolio[q]
      BY <1>2, <3>2, <3>3
    <3>5. KeepsFence
      BY <3>3, <3>4 DEF KeepsFence
    <3>6. NoNewPortfolio /\ ~ HasRow(p)'
      BY <3>3, <3>4 DEF NoNewPortfolio, HasRow
    <3>7. CASE ent[a].live # p
      BY <1>2, <3>2, <3>4, <3>5, <3>6, <3>7, AccountsUntouched
    <3>8. CASE ent[a].live = p
      <4>1. /\ ent' \in [Accounts -> Entitlement] /\ ent'[a].live = 0
            /\ \A b \in Accounts : b # a => ent'[b] = ent[b]
        <5>1. [live |-> 0, dead |-> TRUE] \in Entitlement
          BY AccountsAssumption DEF Entitlement
        <5>2. QED BY <1>2, <3>2, <3>8, <5>1
      <4>2. user[a].role = "user"
        <5>1. ent[a] # NoEntitlement
          BY <3>8, AccountsAssumption DEF NoEntitlement, Portfolios
        <5>2. QED BY <5>1 DEF IInv, AccountsOK, EntitlementsOfUsers, User
      <4>3. ASSUME NEW b \in Accounts, Exists(b), user[b].role = "user"
            PROVE  Owned(b)' \subseteq {ent'[b].live} \cup Late'
        <5>1. Owned(b) \subseteq {ent[b].live} \cup Late
          BY <4>3 DEF IInv, AccountsOK, LimitsKept
        <5>2. Owned(b)' \subseteq {ent[b].live} \cup Late'
          BY <3>6, <5>1, OwnedLess
        <5>3. p \notin Owned(b)'
          BY <3>6 DEF Owned
        <5>4. QED BY <3>8, <4>1, <5>2, <5>3
      <4>4. LimitsKept'
        BY <1>2, <4>1, <4>3 DEF LimitsKept, Counted, Exists, IInv, AccountsOK
      <4>5. EntitlementsOfUsers' /\ OwnersExist'
        BY <1>2, <3>1, <3>6, <4>1, <4>2
        DEF EntitlementsOfUsers, OwnersExist, NoNewPortfolio, Exists, IInv, AccountsOK
      <4>6. AccountsOK'
        BY <1>2, <4>1, <4>4, <4>5 DEF AccountsOK, IInv, Exists
      <4>7. QED BY <3>4, <3>5, <4>6
    <3>9. QED BY <3>7, <3>8
  <2>3. QED BY <2>1, <2>2
<1>4. RequestsOK'
  <2>1. (\A a \in Accounts : Exists(a) => Exists(a)') /\ acts' \in 0 .. MaxActs
    BY <1>2 DEF Exists, IInv, RequestsOK
  <2>2. CASE op[o].action # "delete"
    BY <1>2, <1>3, <2>1, <2>2, RequestEnds DEF AfterRemoval
  <2>3. CASE op[o].action = "delete"
    <3>1. op[o] \in Op /\ op \in [Ops -> Op]
      BY DEF IInv, RequestsOK
    <3>2. PICK w \in Op :
            /\ op' = [op EXCEPT ![o] = w] /\ w.pc = "checking" /\ w.action = "delete"
            /\ w.target = op[o].target /\ w.todo \subseteq op[o].todo
      <4> DEFINE t == op[o].todo \ {p}
                 w == [op[o] EXCEPT !.pc = "checking", !.todo = t, !.at = 0]
      <4>1. op' = [op EXCEPT ![o] = w]
        BY <1>1, <1>2, <2>3, <3>1 DEF AfterRemoval
      <4>2. t \in SUBSET Portfolios /\ t \subseteq op[o].todo /\ 0 \in 0 .. MaxPortfolios
        BY <3>1, AccountsAssumption DEF Op
      <4> HIDE DEF t
      <4>3. /\ w \in Op /\ w.pc = "checking" /\ w.action = "delete"
            /\ w.target = op[o].target /\ w.todo \subseteq op[o].todo
        BY <2>3, <3>1, <4>2 DEF Op
      <4> HIDE DEF w
      <4>4. QED BY <4>1, <4>3
    <3>3. w.pc = "checking" /\ w.action = "delete" /\ w.todo \subseteq op[o].todo
      BY <3>2
    <3>4. w.target \in Accounts /\ Exists(w.target)'
      <4>1. op[o].target \in Accounts /\ Exists(op[o].target)
        BY <2>3 DEF IInv, RequestsOK, OpsNamed
      <4>2. QED BY <1>2, <3>2, <4>1 DEF Exists
    <3>5. \A q \in Portfolios : q \in w.todo => Withheld(o, q)'
      <4>1. \A q \in Portfolios : q \in w.todo => Withheld(o, q)
        BY <3>3 DEF IInv, RequestsOK, RemovalsFenced
      <4>2. op'[o].pc = "checking"
        BY <3>1, <3>2, <3>3
      <4>3. QED BY <1>3, <4>1, <4>2 DEF Withheld, KeepsFence
    <3>6. QED BY <1>3, <2>1, <3>2, <3>3, <3>4, <3>5, RequestStep
  <2>4. QED BY <2>2, <2>3
<1>5. QED BY <1>3, <1>4 DEF IInv

-----------------------------------------------------------------------------
LEMMA NextInv == IInv /\ [Next]_vars => IInv'
<1> SUFFICES ASSUME IInv, [Next]_vars PROVE IInv'
  OBVIOUS
<1>1. CASE UNCHANGED vars
  <2>1. AccountsOK'
    BY <1>1, PortfoliosUntouched, AccountsUntouched DEF vars
  <2>2. RequestsOK'
    BY <1>1, PortfoliosUntouched, RequestsUntouched DEF vars, IInv, RequestsOK, Exists
  <2>3. QED BY <2>1, <2>2 DEF IInv
<1>2. ASSUME NEW a \in Accounts,
             \/ \E e \in Emails : Admit(a, e)
             \/ ClaimUsername(a) \/ ResetEntitlement(a) \/ Promote(a) \/ Readmit(a)
             \/ \E p \in Portfolios : CreatePortfolio(a, p) \/ Enqueue(a, p)
             \/ \E b \in Accounts : Suspend(b, a) \/ Demote(b, a)
      PROVE  IInv'
  BY <1>2, AdmitStep, ClaimUsernameStep, ResetEntitlementStep, PromoteStep, ReadmitStep,
     CreatePortfolioStep, WorkSteps, SuspendStep, DemoteStep
<1>3. ASSUME NEW p \in Portfolios,
             ClaimWork(p) \/ StartWork(p) \/ EndWork(p) \/ LoseLease(p) \/ EndOutlived(p)
      PROVE  IInv'
  BY <1>3, WorkSteps
<1>4. ASSUME NEW o \in Ops,
             \/ \E a \in Accounts : EnterAsAdmin(o, a) \/ Restore(o, a)
             \/ \E a \in Accounts, b \in Accounts : DeleteUser(o, b, a)
             \/ \E p \in Portfolios : CreateAsAdmin(o, p) \/ DeleteProject(o, p)
             \/ \E p \in Portfolios : CheckIdle(o, p) \/ Reset(o, p)
             \/ RestoreFinal(o) \/ FinalizeProject(o) \/ FinishDelete(o) \/ CleanupFails(o)
             \/ Resume(o) \/ Abandon(o) \/ ResetFinal(o)
      PROVE  IInv'
  BY <1>4, EnterAsAdminStep, CreateAsAdminStep, RestoreStep, DeleteUserStep, DeleteProjectStep, CheckIdleStep, ResetStep,
     RestoreFinalStep, FinalizeProjectStep, FinishDeleteStep, CleanupFailsStep, ResumeStep,
     AbandonStep, ResetFinalStep
<1>5. QED BY <1>1, <1>2, <1>3, <1>4 DEF Next

LEMMA AlwaysIInv == Spec => []IInv
  BY InitInv, NextInv, PTL DEF Spec

\* In every run the state has its types and satisfies the constraints that
\* the tables declare: no operation of accounts makes a commit fail.
THEOREM TypeCorrect == Spec => []TypeOK
<1>1. IInv => TypeOK
  BY Parts
<1>2. QED BY <1>1, AlwaysIInv, PTL

\* However sign-ins and administration interleave, the users that were never
\* deleted stay within normal_user_limit, and every portfolio of a user is the
\* one of the entitlement, but for those that a request created which had read
\* the account as an administrator's before it was demoted.
THEOREM LimitsAreKept == Spec => []LimitsKept
<1>1. IInv => LimitsKept
  BY Parts
<1>2. QED BY <1>1, AlwaysIInv, PTL

-----------------------------------------------------------------------------
(* The last administrator.                                                  *)

LEMMA OthersRemain ==
    ASSUME NEW a \in Accounts, \A b \in Accounts : b # a => user'[b] = user[b],
           ActiveAdmins' = {}
    PROVE  /\ ActiveAdmins \subseteq {a}
           /\ \A b \in Accounts : ActiveAdmin(b) => b = a
  BY DEF ActiveAdmins, ActiveAdmin, SignedIn

\* What a step that loses the last active administrator is
LEMMA AdminLost ==
    ASSUME IInv, Next, ActiveAdmins # {}, ActiveAdmins' = {}
    PROVE  \E o \in Ops : /\ op[o].action = "delete" /\ ActiveAdmins = {op[o].target}
                          /\ op[o].pc \in {"retryable", "checking"}
<1>1. user \in [Accounts -> User]
  BY DEF IInv, AccountsOK
<1>2. user' # user
  BY DEF ActiveAdmins, ActiveAdmin, SignedIn
<1>3. ASSUME NEW a \in Accounts,
             \/ \E e \in Emails : Admit(a, e)
             \/ ClaimUsername(a) \/ ResetEntitlement(a) \/ Promote(a) \/ Readmit(a)
             \/ \E p \in Portfolios : CreatePortfolio(a, p) \/ Enqueue(a, p)
             \/ \E b \in Accounts : Suspend(b, a) \/ Demote(b, a)
      PROVE  FALSE
  <2>1. \A b \in Accounts : b # a => user'[b] = user[b]
    BY <1>1, <1>3 DEF Admit, ClaimUsername, ResetEntitlement, Promote, Readmit,
                      CreatePortfolio, Enqueue, Suspend, Demote
  <2>2. ActiveAdmin(a) /\ \A b \in Accounts : ActiveAdmin(b) => b = a
    BY <2>1, OthersRemain DEF ActiveAdmins
  <2>3. ActiveAdmin(a)'
    BY <1>1, <1>2, <1>3, <2>2
    DEF Admit, NextAccount, Exists, ClaimUsername, ResetEntitlement, Promote, Readmit,
        CreatePortfolio, Enqueue, Suspend, MayRemove, Demote, ActiveAdmin, SignedIn
  <2>4. QED BY <2>3 DEF ActiveAdmins
<1>4. ASSUME NEW o \in Ops, RestoreFinal(o)
      PROVE  FALSE
  <2>1. PICK a \in Accounts : a = op[o].target
    BY <1>4 DEF RestoreFinal, IInv, RequestsOK, OpsNamed
  <2>2. user' = [user EXCEPT ![a].status = "active"]
    BY <1>2, <1>4, <2>1 DEF RestoreFinal
  <2>3. \A b \in Accounts : ActiveAdmin(b) => ActiveAdmin(b)'
    BY <1>1, <2>2 DEF ActiveAdmin, SignedIn
  <2>4. QED BY <2>3 DEF ActiveAdmins
<1>5. ASSUME NEW o \in Ops, NEW b \in Accounts, NEW a \in Accounts, DeleteUser(o, b, a)
      PROVE  FALSE
  <2>1. \A c \in Accounts : c # a => user'[c] = user[c]
    BY <1>1, <1>5 DEF DeleteUser, FenceAccount
  <2>2. QED BY <1>5, <2>1, OthersRemain DEF DeleteUser, MayRemove
<1>6. ASSUME NEW o \in Ops, Resume(o) \/ FinishDelete(o)
      PROVE  /\ op[o].action = "delete" /\ ActiveAdmins = {op[o].target}
             /\ op[o].pc \in {"retryable", "checking"}
  <2>1. op[o].action = "delete" /\ op[o].pc \in {"retryable", "checking"}
    BY <1>2, <1>6 DEF Resume, FinishDelete
  <2>2. PICK a \in Accounts : a = op[o].target
    BY <2>1 DEF IInv, RequestsOK, OpsNamed
  <2>3. \A c \in Accounts : c # a => user'[c] = user[c]
    BY <1>1, <1>2, <1>6, <2>1, <2>2 DEF Resume, FenceAccount, FinishDelete
  <2>4. QED BY <2>1, <2>2, <2>3, OthersRemain
<1>7. ASSUME NEW o \in Ops,
             \/ \E a \in Accounts : EnterAsAdmin(o, a) \/ Restore(o, a)
             \/ \E p \in Portfolios : CreateAsAdmin(o, p) \/ DeleteProject(o, p)
             \/ \E p \in Portfolios : CheckIdle(o, p) \/ Reset(o, p)
             \/ FinalizeProject(o) \/ CleanupFails(o) \/ Abandon(o) \/ ResetFinal(o)
      PROVE  FALSE
  BY <1>2, <1>7 DEF EnterAsAdmin, CreateAsAdmin, Restore, DeleteProject, CheckIdle, Reset,
                    FinalizeProject, CleanupFails, Abandon, ResetFinal
<1>8. ASSUME NEW p \in Portfolios,
             ClaimWork(p) \/ StartWork(p) \/ EndWork(p) \/ LoseLease(p) \/ EndOutlived(p)
      PROVE  FALSE
  BY <1>2, <1>8 DEF ClaimWork, StartWork, EndWork, LoseLease, EndOutlived
<1>9. QED BY <1>3, <1>4, <1>5, <1>6, <1>7, <1>8 DEF Next

\* The checks of suspend_user, delete_user and demote_user never let the last
\* active administrator go, except through a deletion that was accepted earlier.
THEOREM LastAdminIsKept == Spec => LastAdminKept
<1>1. IInv /\ [Next]_vars =>
        [ActiveAdmins # {} /\ ActiveAdmins' = {} =>
           \E o \in Ops : /\ op[o].action = "delete" /\ ActiveAdmins = {op[o].target}
                          /\ op[o].pc \in {"retryable", "checking"}]_vars
  BY AdminLost
<1>2. QED BY <1>1, AlwaysIInv, PTL DEF Spec, LastAdminKept

-----------------------------------------------------------------------------
(* Portfolios are removed at rest.                                          *)

\* Nothing works on a portfolio that was removed.
RemovedAtRest == \A p \in Portfolios : portfolio[p].status = "removed" => portfolio[p].work = "idle"

\* A portfolio is removed only by the operation that has fenced it, and then
\* no job of it begins.
LEMMA Removals ==
    ASSUME IInv, RemovedAtRest, [Next]_vars, NEW p \in Portfolios, portfolio'[p].status = "removed"
    PROVE  /\ portfolio'[p].work = "idle"
           /\ \/ portfolio[p].status = "removed"
              \/ \E o \in Ops : op[o].pc = "cleaning" /\ op[o].at = p
<1> DEFINE Goal == /\ portfolio'[p].work = "idle"
                   /\ \/ portfolio[p].status = "removed"
                      \/ \E o \in Ops : op[o].pc = "cleaning" /\ op[o].at = p
<1>1. portfolio \in [Portfolios -> Portfolio]
  BY DEF IInv, RequestsOK
<1>2. CASE portfolio'[p] = portfolio[p]
  BY <1>2 DEF RemovedAtRest
<1>3. ASSUME NEW ps \in SUBSET Portfolios, \A q \in ps : HasRow(q), portfolio' = Fenced(ps)
      PROVE  Goal
  <2>1. p \notin ps
    BY <1>3, FencedPortfolios
  <2>2. QED BY <1>2, <1>3, <2>1 DEF Fenced
<1>4. ASSUME NEW q \in Portfolios, NEW w, NEW v,
             portfolio' = [portfolio EXCEPT ![q] = [@ EXCEPT !.work = w, !.outlived = v]],
             w = portfolio[q].work \/ portfolio[q].status # "removed"
      PROVE  Goal
  <2>1. portfolio'[q].status = portfolio[q].status /\ portfolio'[q].work = w
    BY <1>1, <1>4 DEF Portfolio
  <2>2. CASE p # q
    BY <1>1, <1>2, <1>4, <2>2
  <2>3. CASE p = q
    BY <1>4, <2>1, <2>3 DEF RemovedAtRest
  <2>4. QED BY <2>2, <2>3
<1>5. ASSUME NEW a \in Accounts,
             \/ \E e \in Emails : Admit(a, e)
             \/ ClaimUsername(a) \/ ResetEntitlement(a) \/ Promote(a) \/ Readmit(a)
             \/ \E b \in Accounts : Suspend(b, a) \/ Demote(b, a)
      PROVE  Goal
  BY <1>2, <1>5 DEF Admit, ClaimUsername, ResetEntitlement, Promote, Readmit, Suspend, Demote
<1>6. ASSUME NEW q \in Portfolios,
             \/ \E a \in Accounts : CreatePortfolio(a, q)
             \/ \E o \in Ops : CreateAsAdmin(o, q)
      PROVE  Goal
  <2>1. CASE \E a \in Accounts : CreatePortfolio(a, q)
    <3>1. /\ portfolio'[q].status = "active"
          /\ \A r \in Portfolios : r # q => portfolio'[r] = portfolio[r]
      BY <1>1, <2>1 DEF CreatePortfolio, Portfolio
    <3>2. QED BY <1>2, <3>1
  <2>2. CASE \E o \in Ops : CreateAsAdmin(o, q)
    <3>1. /\ portfolio'[q].status = "active"
          /\ \A r \in Portfolios : r # q => portfolio'[r] = portfolio[r]
      BY <1>1, <2>2 DEF CreateAsAdmin, Portfolio
    <3>2. QED BY <1>2, <3>1
  <2>3. QED BY <1>6, <2>1, <2>2
<1>7. ASSUME NEW q \in Portfolios,
             \/ (\E a \in Accounts : Enqueue(a, q)) \/ ClaimWork(q) \/ StartWork(q)
             \/ EndWork(q) \/ LoseLease(q)
      PROVE  Goal
  <2>1. portfolio[q].status # "removed"
    BY <1>7 DEF Enqueue, Owned, HasRow, ClaimWork, StartWork, EndWork, LoseLease, RemovedAtRest
  <2>2. \E w, v : portfolio' = [portfolio EXCEPT ![q] = [@ EXCEPT !.work = w, !.outlived = v]]
    BY <1>1, <1>7, WorkChanges
  <2>3. QED BY <1>4, <2>1, <2>2
<1>8. ASSUME NEW q \in Portfolios, EndOutlived(q)
      PROVE  Goal
  <2>1. /\ portfolio'[q].status = portfolio[q].status /\ portfolio'[q].work = portfolio[q].work
        /\ \A r \in Portfolios : r # q => portfolio'[r] = portfolio[r]
    BY <1>1, <1>8 DEF EndOutlived, Portfolio
  <2>2. QED BY <1>2, <2>1 DEF RemovedAtRest
<1>9. ASSUME NEW o \in Ops,
             \/ \E a \in Accounts : EnterAsAdmin(o, a) \/ Restore(o, a)
             \/ \E a \in Accounts, b \in Accounts : DeleteUser(o, b, a)
             \/ \E q \in Portfolios : DeleteProject(o, q) \/ CheckIdle(o, q) \/ Reset(o, q)
             \/ RestoreFinal(o) \/ FinishDelete(o) \/ CleanupFails(o) \/ Resume(o) \/ Abandon(o)
      PROVE  Goal
  <2>1. \/ UNCHANGED portfolio
        \/ \E a : portfolio' = Fenced(Owned(a))
        \/ \E q \in Portfolios : HasRow(q) /\ portfolio' = Fenced({q})
    BY <1>9 DEF EnterAsAdmin, Restore, DeleteUser, FenceAccount, DeleteProject, CheckIdle, Reset, RestoreFinal,
                FinishDelete, CleanupFails, Resume, Abandon
  <2>2. \A a : Owned(a) \in SUBSET Portfolios /\ \A q \in Owned(a) : HasRow(q)
    BY DEF Owned
  <2>3. QED BY <1>2, <1>3, <2>1, <2>2
<1>10. ASSUME NEW o \in Ops, FinalizeProject(o) \/ ResetFinal(o)
      PROVE  Goal
  <2>1. PICK q \in Portfolios : q = op[o].at
    BY <1>10 DEF FinalizeProject, ResetFinal, IInv, RequestsOK, OpsNamed
  <2>2. CASE UNCHANGED portfolio
    BY <1>2, <2>2
  <2>3. CASE ResetFinal(o) /\ ~ UNCHANGED portfolio
    <3>1. /\ portfolio'[q].status = "active"
          /\ \A r \in Portfolios : r # q => portfolio'[r] = portfolio[r]
      BY <1>1, <2>1, <2>3, JobDropped DEF ResetFinal, Portfolio
    <3>2. QED BY <1>2, <3>1
  <2>4. CASE FinalizeProject(o) /\ ~ UNCHANGED portfolio
    <3>1. /\ op[o].pc = "cleaning" /\ portfolio'[q].work = "idle"
          /\ \A r \in Portfolios : r # q => portfolio'[r] = portfolio[r]
      BY <1>1, <2>1, <2>4, JobDropped DEF FinalizeProject
    <3>2. QED BY <1>2, <2>1, <3>1
  <2>5. QED BY <1>10, <2>2, <2>3, <2>4
<1>11. CASE UNCHANGED vars
  BY <1>2, <1>11 DEF vars
<1>12. CASE Next
  BY <1>5, <1>6, <1>7, <1>8, <1>9, <1>10, <1>12 DEF Next
<1>13. QED BY <1>11, <1>12

\* No interleaving of deletions, resumptions and workers removes a portfolio
\* under a job that passed the fence and has its row: new jobs are fenced off
\* before the running ones are counted.  A reset lifts the fence, and a handler
\* that outlived its row is not counted.
THEOREM RemovedAreIdle == Spec => RemovedIsIdle
<1>1. Init => RemovedAtRest
  BY DEF Init, NoPortfolio, RemovedAtRest
<1>2. IInv /\ RemovedAtRest /\ [Next]_vars => RemovedAtRest'
  BY Removals DEF RemovedAtRest
<1>3. ASSUME IInv, RemovedAtRest, [Next]_vars, NEW p \in Portfolios,
             portfolio[p].status # "removed", portfolio'[p].status = "removed", AtWork(p)
      PROVE  portfolio[p].was_reset \/ OnlyOutlived(p)
  <2>1. PICK o \in Ops : op[o].pc = "cleaning" /\ op[o].at = p
    BY <1>3, Removals
  <2>2. Withheld(o, p)
    BY <1>3, <2>1 DEF IInv, RequestsOK, RemovalsFenced
  <2>3. portfolio[p].was_reset \/ portfolio[p].work # "running"
    BY <1>3, <2>1, <2>2 DEF Withheld
  <2>4. QED BY <1>3, <2>3 DEF AtWork, OnlyOutlived
<1>4. IInv /\ RemovedAtRest /\ [Next]_vars =>
        [\A p \in Portfolios :
           /\ portfolio[p].status # "removed" /\ portfolio'[p].status = "removed"
           /\ AtWork(p)
           => portfolio[p].was_reset \/ OnlyOutlived(p)]_portfolio
  BY <1>3
<1>5. Spec => []RemovedAtRest
  BY <1>1, <1>2, AlwaysIInv, PTL DEF Spec
<1>6. QED BY <1>4, <1>5, AlwaysIInv, PTL DEF Spec, RemovedIsIdle

=============================================================================
