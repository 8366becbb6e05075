---------------------------- MODULE PreviewProofs ----------------------------
(***************************************************************************)
(* What holds of Preview for every number of builds, processes, executions *)
(* and faults: types, what the gateway serves, and the history of the      *)
(* host's pointer.  What the invariant says is split by what it is about:  *)
(* the executions' numbers, the stored objects, one execution, and the     *)
(* request at the gateway.                                                 *)
(*                                                                         *)
(* Objects other than the pointer are written once, and the pointer that   *)
(* an execution's pending promotion saw is set once: both are facts that,  *)
(* once true of an execution, stay true whatever the others do (Grown).    *)
(***************************************************************************)
EXTENDS Preview, TLAPS

\* What stands in storage: the two files of a build, a pointer that leads to
\* its receipt, and the receipt of a build whose pending promotion saw a pointer.
File(p) == [by |-> p, n |-> 0]
Filed(d, p) == d[<<"index", p>>] = File(p) /\ d[<<"asset", p>>] = File(p)
Led(d, c) == c = Missing \/ (c \in Content /\ d[<<"receipt", c.by>>] = c)
Receipted(d, s, p, saw) ==
    LET receipt == d[<<"receipt", p>>]
    IN  receipt \in Content /\ receipt.by = p /\ receipt.n # 0 /\ s[receipt.n] = saw

Writing(x) == x.pc \in {"check", "write", "finish", "readback"}
Storing(x) == x.pc = "pending" \/ (Writing(x) /\ x.key[1] \in Stored)
Promoting(x) == x.pc # "idle" /\ ~ Storing(x)

\* On every backend: the types, and a promotion has a pending promotion.
ExecTyped(x, s) ==
    /\ x \in Exec
    /\ x.pc # "idle" => x.p \in Builds /\ x.n \in 1 .. MaxRuns
    /\ Writing(x) => x.want \in Content
    /\ Promoting(x) => s[x.n] # NoPending

\* Executions have numbers of their own, and one that still stores its candidate
\* has no pending promotion.
Numbered(e, s, r) ==
    /\ \A w \in Workers : e[w].pc # "idle" => e[w].n <= r
    /\ \A v, w \in Workers : v # w /\ e[v].pc # "idle" /\ e[w].pc # "idle" => e[v].n # e[w].n
    /\ \A n \in 1 .. MaxRuns : n > r => s[n] = NoPending
    /\ \A w \in Workers : Storing(e[w]) => s[e[w].n] = NoPending

\* Files come before the manifest and the receipt, and these before what refers to them.
Objects(d, s) ==
    /\ \A p \in Builds : d[<<"index", p>>] \in {Missing, File(p)}
    /\ \A p \in Builds : d[<<"asset", p>>] \in {Missing, File(p)}
    /\ \A p \in Builds : d[<<"manifest", p>>] # Missing => Filed(d, p)
    /\ \A p \in Builds : d[<<"receipt", p>>] # Missing =>
          /\ Receipted(d, s, p, s[d[<<"receipt", p>>].n]) /\ Filed(d, p)
          /\ s[d[<<"receipt", p>>].n] # NoPending
    /\ Led(d, d[Pointer])

Kept(d, s, pe, l) ==
    /\ \A p \in Builds : \A before \in pe[p] : Led(d, before) /\ Filed(d, p)
    /\ \A n \in 1 .. MaxRuns : s[n] = NoPending \/ Led(d, s[n])
    /\ \A p \in Builds : l[p] # 0 => d[<<"manifest", p>>] = [by |-> p, n |-> l[p]]

\* What an execution is about to write, and what it has seen written.
WritesFile(x, d) ==
    /\ x.key = <<"index", x.p>> => x.want = File(x.p) /\ x.cond = Immutable
    /\ x.key = <<"asset", x.p>> =>
          x.want = File(x.p) /\ x.cond = Immutable /\ d[<<"index", x.p>>] = File(x.p)
    /\ x.key = <<"manifest", x.p>> =>
          x.want = [by |-> x.p, n |-> x.n] /\ x.cond = Immutable /\ Filed(d, x.p)
WritesReceipt(x, s) ==
    x.key = <<"receipt", x.p>> =>
        /\ x.want.by = x.p /\ x.want.n # 0 /\ s[x.want.n] = s[x.n]
        /\ x.pc # "readback" => x.cond = Missing
WritesPointer(x, d, s) ==
    x.key = Pointer =>
        /\ x.pc # "readback"
        /\ Receipted(d, s, x.p, s[x.n]) /\ Led(d, x.want)
        /\ \/ x.cond = s[x.n] /\ x.want.by = x.p
           \/ x.want = s[x.n] /\ x.cond.by = x.p /\ x.cond \in Content /\ Led(d, x.cond)
ExecSound(x, d, s) ==
    /\ Writing(x) => /\ x.key \in {<<"index", x.p>>, <<"asset", x.p>>, <<"manifest", x.p>>,
                                   <<"receipt", x.p>>, Pointer}
                     /\ WritesFile(x, d) /\ WritesReceipt(x, s) /\ WritesPointer(x, d, s)
    /\ x.pc = "pending" \/ Promoting(x) => Filed(d, x.p)
    /\ x.pc \in {"index", "pointer"} =>
          Receipted(d, s, x.p, s[x.n]) /\ x.receipt = d[<<"receipt", x.p>>].n
    /\ x.pc \in {"public", "restore"} =>
          Receipted(d, s, x.p, s[x.n]) /\ x.mine = d[<<"receipt", x.p>>]

VisitSound(v, d) ==
    /\ v.out = "none"
    /\ v.pc # "idle" => v.at \in Content /\ Led(d, v.at)

Served ==
    /\ data = meta
    /\ Objects(data, seen) /\ Kept(data, seen, pending, link)
    /\ \A w \in Workers : ExecSound(exec[w], data, seen)
    /\ VisitSound(visit, data)

IInv ==
    /\ TypeOK
    /\ \A w \in Workers : ExecTyped(exec[w], seen)
    /\ Numbered(exec, seen, runs)
    /\ backend # "local" => Served

-----------------------------------------------------------------------------
(* The keys, and what lasts.                                               *)

Lasting == Stored \cup {"receipt"}

\* Objects other than the pointer stay, and so does what a pending promotion saw.
Grown(d, s, d2, s2) ==
    /\ \A kind \in Lasting, p \in Builds :
          d[<<kind, p>>] # Missing => d2[<<kind, p>>] = d[<<kind, p>>]
    /\ \A n \in 1 .. MaxRuns : s[n] # NoPending => s2[n] = s[n]

LEMMA KeyFacts ==
    /\ \A kind \in Lasting, p \in Builds : <<kind, p>> \in Keys /\ <<kind, p>> # Pointer
    /\ Pointer \in Keys /\ Pointer[1] \notin Lasting
    /\ \A key \in Keys : key = Pointer \/ \E kind \in Lasting, p \in Builds : key = <<kind, p>>
  BY DEF Keys, Lasting, Stored, Pointer

LEMMA ContentFacts ==
    /\ Missing \notin Content /\ Broken \notin Content /\ Missing # Broken
    /\ NoPending = Broken /\ Immutable = Broken
    /\ \A p \in Builds : File(p) \in Content /\ File(p).by = p
    /\ \A c \in Content : c.by \in Builds /\ c.n \in 0 .. MaxRuns
  BY PreviewAssumption DEF Missing, Broken, Content, NoPending, Immutable, File

LEMMA FiledLasts ==
    ASSUME NEW d, NEW s, NEW d2, NEW s2, Grown(d, s, d2, s2), NEW p \in Builds, Filed(d, p)
    PROVE  Filed(d2, p)
  BY ContentFacts DEF Grown, Filed, Lasting, Stored

LEMMA LedLasts ==
    ASSUME NEW d, NEW s, NEW d2, NEW s2, Grown(d, s, d2, s2), NEW c, Led(d, c)
    PROVE  Led(d2, c)
  BY ContentFacts DEF Grown, Led, Lasting

LEMMA ReceiptedLasts ==
    ASSUME NEW d, NEW s, NEW d2, NEW s2, Grown(d, s, d2, s2), NEW p \in Builds,
           NEW saw, saw # NoPending, Receipted(d, s, p, saw)
    PROVE  Receipted(d2, s2, p, saw) /\ d2[<<"receipt", p>>] = d[<<"receipt", p>>]
<1>1. d2[<<"receipt", p>>] = d[<<"receipt", p>>] /\ d[<<"receipt", p>>].n \in 1 .. MaxRuns
  BY ContentFacts DEF Grown, Receipted, Lasting
<1>2. QED BY <1>1 DEF Grown, Receipted

\* What is sound about an execution stays sound whatever the others write.
LEMMA ExecLasts ==
    ASSUME NEW d, NEW s, NEW d2, NEW s2, Grown(d, s, d2, s2),
           NEW x, ExecTyped(x, s), ExecSound(x, d, s)
    PROVE  ExecTyped(x, s2) /\ ExecSound(x, d2, s2)
<1>1. CASE x.pc = "idle"
  BY <1>1 DEF ExecTyped, ExecSound, Writing, Promoting
<1>2. CASE x.pc # "idle"
  <2>1. x.p \in Builds /\ x.n \in 1 .. MaxRuns
    BY <1>2 DEF ExecTyped
  <2>2. Promoting(x) => s2[x.n] = s[x.n] /\ s[x.n] # NoPending
    BY <2>1 DEF ExecTyped, Grown
  <2>3. ExecTyped(x, s2)
    BY <2>1, <2>2 DEF ExecTyped
  <2>4. Writing(x) => WritesFile(x, d2)
    <3>1. d[<<"index", x.p>>] = File(x.p) => d2[<<"index", x.p>>] = File(x.p)
      BY <2>1, ContentFacts DEF Grown, Lasting, Stored
    <3>2. QED BY <2>1, <3>1, FiledLasts DEF ExecSound, WritesFile
  <2>5. Writing(x) /\ x.key \in {<<"receipt", x.p>>, Pointer} => Promoting(x)
    BY <1>2, KeyFacts DEF Promoting, Storing, Writing, Stored, Lasting, Pointer
  <2>6. Writing(x) => WritesReceipt(x, s2)
    <3>1. ASSUME Writing(x), x.key = <<"receipt", x.p>> PROVE s2[x.want.n] = s2[x.n]
      <4>1. x.want.n \in 1 .. MaxRuns /\ s[x.want.n] = s[x.n] /\ s[x.n] # NoPending
        BY <3>1, <2>2, <2>5, ContentFacts DEF ExecSound, WritesReceipt, ExecTyped
      <4>2. QED BY <4>1, <2>1 DEF Grown
    <3>2. QED BY <3>1 DEF ExecSound, WritesReceipt
  <2>7. Writing(x) => WritesPointer(x, d2, s2)
    <3>1. SUFFICES ASSUME Writing(x), x.key = Pointer PROVE WritesPointer(x, d2, s2)
      BY DEF WritesPointer
    <3>2. Receipted(d, s, x.p, s[x.n]) /\ Led(d, x.want) /\ s2[x.n] = s[x.n] /\ s[x.n] # NoPending
      BY <3>1, <2>2, <2>5 DEF ExecSound, WritesPointer
    <3>3. Receipted(d2, s2, x.p, s2[x.n]) /\ Led(d2, x.want)
      BY <3>2, <2>1, ReceiptedLasts, LedLasts
    <3>4. Led(d, x.cond) => Led(d2, x.cond)
      BY LedLasts
    <3>5. QED BY <3>1, <3>2, <3>3, <3>4 DEF ExecSound, WritesPointer
  <2>8. x.pc = "pending" \/ Promoting(x) => Filed(d2, x.p)
    BY <2>1, FiledLasts DEF ExecSound
  <2>9. ASSUME x.pc \in {"index", "pointer", "public", "restore"}
        PROVE  /\ s2[x.n] = s[x.n] /\ Receipted(d2, s2, x.p, s2[x.n])
               /\ d2[<<"receipt", x.p>>] = d[<<"receipt", x.p>>]
    <3>1. Promoting(x)
      BY <2>9 DEF Promoting, Storing, Writing
    <3>2. Receipted(d, s, x.p, s[x.n])
      BY <2>9 DEF ExecSound
    <3>3. QED BY <3>1, <3>2, <2>1, <2>2, ReceiptedLasts
  <2>10. QED BY <2>3, <2>4, <2>6, <2>7, <2>8, <2>9 DEF ExecSound
<1>3. QED BY <1>1, <1>2

-----------------------------------------------------------------------------
(* Writing one object.                                                     *)

\* The conditions of put_immutable and put_conditional.
Expected(x) == IF x.cond = Immutable THEN Missing ELSE x.cond

Stores(d) == d \in [Keys -> Content \cup {Missing}]

LEMMA FileWritten ==
    ASSUME NEW d, Stores(d), NEW s, NEW p \in Builds, NEW key \in {<<"index", p>>, <<"asset", p>>},
           Objects(d, s), d[key] = Missing,
           NEW d2, d2 = [d EXCEPT ![key] = File(p)]
    PROVE  Objects(d2, s) /\ Grown(d, s, d2, s)
<1>1. key \in Keys /\ key # Pointer /\ key[2] = p /\ key[1] \in {"index", "asset"}
  BY KeyFacts DEF Lasting, Stored
<1>2. \A k \in Keys : d2[k] = IF k = key THEN File(p) ELSE d[k]
  BY <1>1 DEF Stores
<1>3. Grown(d, s, d2, s)
  BY <1>2, KeyFacts DEF Grown
<1>4. \A q \in Builds : Filed(d, q) => Filed(d2, q)
  BY <1>3, FiledLasts
<1>5. \A q \in Builds : /\ d2[<<"receipt", q>>] = d[<<"receipt", q>>]
                        /\ d2[<<"manifest", q>>] = d[<<"manifest", q>>]
  <2>1. \A q \in Builds : <<"receipt", q>> # key /\ <<"manifest", q>> # key
    BY <1>1
  <2>2. QED BY <1>2, <2>1, KeyFacts DEF Lasting, Stored
<1>6. d2[Pointer] = d[Pointer]
  BY <1>1, <1>2, KeyFacts
<1>7. \A kind \in {"index", "asset"}, q \in Builds : d2[<<kind, q>>] \in {Missing, File(q)}
  <2>1. \A kind \in {"index", "asset"}, q \in Builds :
           <<kind, q>> \in Keys /\ (<<kind, q>> = key => q = p)
    BY <1>1, KeyFacts DEF Lasting, Stored
  <2>2. \A kind \in {"index", "asset"}, q \in Builds : d[<<kind, q>>] \in {Missing, File(q)}
    BY DEF Objects
  <2>3. QED BY <1>2, <2>1, <2>2
<1>8. Led(d2, d2[Pointer])
  BY <1>3, <1>6, LedLasts DEF Objects
<1>9. QED BY <1>3, <1>4, <1>5, <1>7, <1>8, ZenonT(20) DEF Objects, Receipted

LEMMA ManifestWritten ==
    ASSUME NEW d, Stores(d), NEW s, NEW p \in Builds, NEW c \in Content,
           Objects(d, s), d[<<"manifest", p>>] = Missing, Filed(d, p),
           NEW d2, d2 = [d EXCEPT ![<<"manifest", p>>] = c]
    PROVE  Objects(d2, s) /\ Grown(d, s, d2, s)
<1>1. \A k \in Keys : d2[k] = IF k = <<"manifest", p>> THEN c ELSE d[k]
  BY KeyFacts DEF Stores
<1>2. Grown(d, s, d2, s)
  BY <1>1, KeyFacts DEF Grown
<1>3. \A q \in Builds : Filed(d2, q) <=> Filed(d, q)
  BY <1>1, KeyFacts DEF Filed, Lasting, Stored
<1>4. \A q \in Builds : d2[<<"receipt", q>>] = d[<<"receipt", q>>]
  BY <1>1, KeyFacts DEF Lasting
<1>5. \A q \in Builds : /\ d2[<<"index", q>>] = d[<<"index", q>>]
                        /\ d2[<<"asset", q>>] = d[<<"asset", q>>]
  BY <1>1, KeyFacts DEF Lasting, Stored
<1>6. \A q \in Builds : d2[<<"manifest", q>>] = IF q = p THEN c ELSE d[<<"manifest", q>>]
  BY <1>1, KeyFacts DEF Lasting, Stored
<1>7. d2[Pointer] = d[Pointer]
  BY <1>1, KeyFacts DEF Lasting, Stored
<1>8. Led(d2, d2[Pointer])
  BY <1>2, <1>7, LedLasts DEF Objects
<1>9. QED BY <1>2, <1>3, <1>4, <1>5, <1>6, <1>8, ZenonT(20) DEF Objects, Receipted

LEMMA ReceiptWritten ==
    ASSUME NEW d, Stores(d), NEW s, NEW p \in Builds, NEW c \in Content,
           c.by = p, c.n # 0, s[c.n] # NoPending,
           Objects(d, s), d[<<"receipt", p>>] = Missing, Filed(d, p),
           NEW d2, d2 = [d EXCEPT ![<<"receipt", p>>] = c]
    PROVE  Objects(d2, s) /\ Grown(d, s, d2, s)
<1>1. \A k \in Keys : d2[k] = IF k = <<"receipt", p>> THEN c ELSE d[k]
  BY KeyFacts DEF Stores
<1>2. Grown(d, s, d2, s)
  BY <1>1, KeyFacts DEF Grown
<1>3. \A q \in Builds : Filed(d2, q) <=> Filed(d, q)
  BY <1>1, KeyFacts DEF Filed, Lasting, Stored
<1>4. \A q \in Builds : d2[<<"receipt", q>>] = IF q = p THEN c ELSE d[<<"receipt", q>>]
  BY <1>1, KeyFacts DEF Lasting
<1>5. \A q \in Builds : /\ d2[<<"index", q>>] = d[<<"index", q>>]
                        /\ d2[<<"asset", q>>] = d[<<"asset", q>>]
                        /\ d2[<<"manifest", q>>] = d[<<"manifest", q>>]
  BY <1>1, KeyFacts DEF Lasting, Stored
<1>7. d2[Pointer] = d[Pointer]
  BY <1>1, KeyFacts DEF Lasting
<1>8. Led(d2, d2[Pointer])
  BY <1>2, <1>7, LedLasts DEF Objects
<1>9. \A q \in Builds : d2[<<"receipt", q>>] # Missing =>
        /\ Receipted(d2, s, q, s[d2[<<"receipt", q>>].n]) /\ Filed(d2, q)
        /\ s[d2[<<"receipt", q>>].n] # NoPending
  <2>1. Receipted(d2, s, p, s[c.n]) /\ d2[<<"receipt", p>>] = c
    BY <1>4 DEF Receipted
  <2>2. ASSUME NEW q \in Builds, q # p, d[<<"receipt", q>>] # Missing
        PROVE  Receipted(d2, s, q, s[d2[<<"receipt", q>>].n]) /\ s[d2[<<"receipt", q>>].n] # NoPending
    <3>1. /\ Receipted(d, s, q, s[d[<<"receipt", q>>].n])
          /\ s[d[<<"receipt", q>>].n] # NoPending
      BY <2>2 DEF Objects
    <3>2. d2[<<"receipt", q>>] = d[<<"receipt", q>>]
      BY <2>2, <1>4
    <3>3. QED BY <3>1, <3>2 DEF Receipted
  <2>3. \A q \in Builds : d2[<<"receipt", q>>] # Missing => Filed(d2, q)
    BY <1>3, <1>4 DEF Objects
  <2>4. QED BY <1>4, <2>1, <2>2, <2>3
<1>10. QED BY <1>2, <1>3, <1>5, <1>8, <1>9 DEF Objects

LEMMA PointerWritten ==
    ASSUME NEW d, Stores(d), NEW s, NEW c \in Content \cup {Missing}, Led(d, c), Objects(d, s),
           NEW d2, d2 = [d EXCEPT ![Pointer] = c]
    PROVE  Objects(d2, s) /\ Grown(d, s, d2, s)
<1>1. d2[Pointer] = c /\ \A k \in Keys : k # Pointer => d2[k] = d[k]
  BY KeyFacts DEF Stores
<1>2. \A kind \in Lasting, q \in Builds : d2[<<kind, q>>] = d[<<kind, q>>]
  BY <1>1, KeyFacts
<1>3. Grown(d, s, d2, s)
  BY <1>2 DEF Grown
<1>4. Led(d2, d2[Pointer])
  BY <1>1, <1>3, LedLasts
<1>5. \A q \in Builds : /\ d2[<<"index", q>>] = d[<<"index", q>>]
                        /\ d2[<<"asset", q>>] = d[<<"asset", q>>]
                        /\ d2[<<"manifest", q>>] = d[<<"manifest", q>>]
                        /\ d2[<<"receipt", q>>] = d[<<"receipt", q>>]
  BY <1>2 DEF Lasting, Stored
<1>6. QED BY <1>3, <1>4, <1>5 DEF Objects, Receipted, Filed

\* An object is written as the execution that writes it expects.
LEMMA ObjectWritten ==
    ASSUME NEW d, Stores(d), NEW s, Objects(d, s),
           NEW x, ExecTyped(x, s), ExecSound(x, d, s), Writing(x), x.pc # "readback",
           d[x.key] = Expected(x),
           NEW d2, d2 = [d EXCEPT ![x.key] = x.want]
    PROVE  Objects(d2, s) /\ Grown(d, s, d2, s)
<1>1. x.p \in Builds /\ x.n \in 1 .. MaxRuns /\ x.want \in Content
  BY DEF ExecTyped, Writing
<1>2. CASE x.key \in {<<"index", x.p>>, <<"asset", x.p>>}
  BY <1>1, <1>2, FileWritten DEF ExecSound, WritesFile, Expected
<1>3. CASE x.key = <<"manifest", x.p>>
  BY <1>1, <1>3, ManifestWritten DEF ExecSound, WritesFile, Expected
<1>4. CASE x.key = <<"receipt", x.p>>
  <2>1. Promoting(x)
    BY <1>4 DEF Promoting, Storing, Writing, Stored
  <2>2. Filed(d, x.p) /\ x.cond = Missing /\ s[x.want.n] # NoPending
    BY <2>1, <1>4 DEF ExecSound, WritesReceipt, ExecTyped
  <2>3. QED BY <1>1, <1>4, <2>2, ReceiptWritten, ContentFacts
            DEF ExecSound, WritesReceipt, Expected
<1>5. CASE x.key = Pointer
  BY <1>1, <1>5, PointerWritten DEF ExecSound, WritesPointer
<1>6. QED BY <1>2, <1>3, <1>4, <1>5 DEF ExecSound

LEMMA KeptLasts ==
    ASSUME NEW d, NEW s, NEW d2, Grown(d, s, d2, s), NEW pe, NEW l, Kept(d, s, pe, l)
    PROVE  Kept(d2, s, pe, l)
<1>1. \A p \in Builds : Filed(d, p) => Filed(d2, p)
  BY FiledLasts
<1>2. \A c : Led(d, c) => Led(d2, c)
  BY LedLasts
<1>3. \A p \in Builds : l[p] # 0 => d2[<<"manifest", p>>] = [by |-> p, n |-> l[p]]
  <2>1. \A p \in Builds : [by |-> p, n |-> l[p]] # Missing
    BY PreviewAssumption DEF Missing
  <2>2. QED BY <2>1 DEF Kept, Grown, Lasting, Stored
<1>4. QED BY <1>1, <1>2, <1>3 DEF Kept

LEMMA VisitLasts ==
    ASSUME NEW d, NEW s, NEW d2, NEW s2, Grown(d, s, d2, s2), NEW v, VisitSound(v, d)
    PROVE  VisitSound(v, d2)
  BY LedLasts DEF VisitSound

-----------------------------------------------------------------------------
(* One execution, from one step to the next.                               *)

\* An execution goes on under its number, and does not start to store again.
Continues(y, x) ==
    \/ y.pc = "idle"
    \/ x.pc # "idle" /\ y.n = x.n /\ (Storing(y) => Storing(x))

LEMMA NoExecSound ==
    ASSUME NEW s, NEW d, NEW x
    PROVE  ExecTyped(NoExec, s) /\ ExecSound(NoExec, d, s) /\ Continues(NoExec, x)
<1>1. NoExec \in Exec /\ NoExec.pc = "idle"
  BY KeyFacts, PreviewAssumption DEF NoExec, Exec, Missing
<1>2. QED BY <1>1 DEF ExecTyped, ExecSound, Continues, Writing, Storing, Promoting

LEMMA AfterTyped ==
    ASSUME NEW s, NEW x, ExecTyped(x, s), Writing(x)
    PROVE  ExecTyped(After(x), s) /\ Continues(After(x), x)
<1>1. /\ x \in Exec /\ x.pc # "idle" /\ x.p \in Builds /\ x.n \in 1 .. MaxRuns
      /\ x.want \in Content /\ x.want.n \in 0 .. MaxRuns
      /\ Promoting(x) => s[x.n] # NoPending
  BY ContentFacts DEF ExecTyped, Writing
<1>2. /\ <<"asset", x.p>> \in Keys /\ <<"manifest", x.p>> \in Keys
      /\ Immutable \in Content \cup {Missing, Broken}
      /\ [by |-> x.p, n |-> x.n] \in Content
  BY <1>1, KeyFacts DEF Lasting, Stored, Immutable, Content
<1>3. CASE x.key[1] = "index"
  <2>1. After(x) = Put(x, <<"asset", x.p>>, x.want, Immutable)
    BY <1>3 DEF After, Pointer
  <2>2. After(x) \in Exec
    BY <1>1, <1>2, <2>1 DEF Put, Exec
  <2>3. /\ After(x).pc = "check" /\ After(x).p = x.p /\ After(x).n = x.n
        /\ After(x).key = <<"asset", x.p>> /\ After(x).want = x.want
    BY <1>1, <2>1 DEF Put, Exec
  <2>4. Storing(After(x)) /\ Storing(x)
    BY <1>3, <2>3 DEF Storing, Writing, Stored
  <2>5. QED BY <1>1, <1>2, <2>2, <2>3, <2>4 DEF ExecTyped, Continues, Promoting
<1>4. CASE x.key[1] = "asset"
  <2>1. After(x) = Put(x, <<"manifest", x.p>>, [by |-> x.p, n |-> x.n], Immutable)
    BY <1>4 DEF After, Pointer
  <2>2. After(x) \in Exec
    BY <1>1, <1>2, <2>1 DEF Put, Exec
  <2>3. /\ After(x).pc = "check" /\ After(x).p = x.p /\ After(x).n = x.n
        /\ After(x).key = <<"manifest", x.p>> /\ After(x).want = [by |-> x.p, n |-> x.n]
    BY <1>1, <2>1 DEF Put, Exec
  <2>4. Storing(After(x)) /\ Storing(x)
    BY <1>4, <2>3 DEF Storing, Writing, Stored
  <2>5. QED BY <1>1, <1>2, <2>2, <2>3, <2>4 DEF ExecTyped, Continues, Promoting
<1>5. CASE x.key[1] = "manifest"
  <2>1. After(x) = [x EXCEPT !.pc = "pending"]
    BY <1>5 DEF After, Pointer
  <2>2. After(x) \in Exec /\ After(x).pc = "pending" /\ After(x).p = x.p /\ After(x).n = x.n
    BY <1>1, <2>1 DEF Exec
  <2>3. Storing(After(x)) /\ Storing(x)
    BY <1>5, <2>2 DEF Storing, Writing, Stored
  <2>4. QED BY <1>1, <2>2, <2>3 DEF ExecTyped, Continues, Promoting, Writing
<1>6. CASE x.key[1] = "receipt"
  BY <1>1, <1>6 DEF After, Exec, ExecTyped, Continues, Storing, Promoting, Writing, Stored
<1>7. CASE x.key[1] \notin Lasting
  <2>1. CASE x.key = Pointer /\ x.want.by = x.p
    BY <1>1, <1>7, <2>1
    DEF After, Exec, ExecTyped, Continues, Storing, Promoting, Writing, Stored, Lasting
  <2>2. CASE ~ (x.key = Pointer /\ x.want.by = x.p)
    BY <1>7, <2>2, NoExecSound DEF After, Lasting, Stored
  <2>3. QED BY <2>1, <2>2
<1>8. QED BY <1>3, <1>4, <1>5, <1>6, <1>7 DEF Lasting, Stored

LEMMA ConfirmedTyped ==
    ASSUME NEW s, NEW x, ExecTyped(x, s), Writing(x)
    PROVE  ExecTyped(Confirmed(x), s) /\ Continues(Confirmed(x), x)
<1>1. CASE x.key = Pointer
  BY <1>1, AfterTyped DEF Confirmed
<1>2. CASE x.key # Pointer
  BY <1>2 DEF Confirmed, ExecTyped, Exec, Continues, Writing, Storing, Promoting
<1>3. QED BY <1>1, <1>2

\* What has been read back as it was written leads on.
LEMMA AfterSound ==
    ASSUME NEW d, NEW s, Objects(d, s),
           NEW x, ExecTyped(x, s), ExecSound(x, d, s), Writing(x), x.key # Pointer, d[x.key] = x.want
    PROVE  ExecSound(After(x), d, s)
<1>1. x \in Exec /\ x.p \in Builds /\ x.want \in Content
  BY DEF ExecTyped, Writing
<1>2. CASE x.key = <<"index", x.p>>
  <2>1. After(x) = Put(x, <<"asset", x.p>>, x.want, Immutable)
    BY <1>2 DEF After
  <2>2. /\ After(x).pc = "check" /\ After(x).p = x.p /\ After(x).key = <<"asset", x.p>>
        /\ After(x).want = File(x.p) /\ After(x).cond = Immutable
    BY <1>1, <1>2, <2>1 DEF Put, Exec, ExecSound, WritesFile
  <2>3. d[<<"index", x.p>>] = File(x.p)
    BY <1>2 DEF ExecSound, WritesFile
  <2>4. QED BY <2>2, <2>3
            DEF ExecSound, WritesFile, WritesReceipt, WritesPointer, Writing, Storing, Promoting,
                Stored, Pointer
<1>3. CASE x.key = <<"asset", x.p>>
  <2>1. After(x) = Put(x, <<"manifest", x.p>>, [by |-> x.p, n |-> x.n], Immutable)
    BY <1>3 DEF After
  <2>2. /\ After(x).pc = "check" /\ After(x).p = x.p /\ After(x).key = <<"manifest", x.p>>
        /\ After(x).want = [by |-> x.p, n |-> x.n] /\ After(x).cond = Immutable /\ After(x).n = x.n
    BY <1>1, <2>1 DEF Put, Exec
  <2>3. Filed(d, x.p)
    BY <1>3 DEF ExecSound, WritesFile, Filed
  <2>4. QED BY <2>2, <2>3
            DEF ExecSound, WritesFile, WritesReceipt, WritesPointer, Writing, Storing, Promoting,
                Stored, Pointer
<1>4. CASE x.key = <<"manifest", x.p>>
  <2>1. After(x).pc = "pending" /\ After(x).p = x.p
    BY <1>1, <1>4 DEF After, Exec
  <2>2. Filed(d, x.p)
    BY <1>4 DEF ExecSound, WritesFile
  <2>3. QED BY <2>1, <2>2 DEF ExecSound, Writing, Promoting, Storing
<1>5. CASE x.key = <<"receipt", x.p>>
  <2>1. /\ After(x).pc = "index" /\ After(x).p = x.p /\ After(x).n = x.n
        /\ After(x).receipt = x.want.n
    BY <1>1, <1>5 DEF After, Exec
  <2>2. Filed(d, x.p)
    BY <1>5 DEF ExecSound, Promoting, Storing, Writing, Stored
  <2>3. Receipted(d, s, x.p, s[x.n]) /\ x.want = d[<<"receipt", x.p>>]
    BY <1>1, <1>5 DEF ExecSound, WritesReceipt, Receipted
  <2>4. QED BY <2>1, <2>2, <2>3 DEF ExecSound, Writing, Promoting, Storing
<1>6. QED BY <1>2, <1>3, <1>4, <1>5 DEF ExecSound

LEMMA ConfirmedSound ==
    ASSUME NEW d, NEW s, Objects(d, s), NEW x, ExecTyped(x, s), ExecSound(x, d, s), Writing(x)
    PROVE  ExecSound(Confirmed(x), d, s)
<1>1. x \in Exec /\ x.p \in Builds /\ x.want \in Content
  BY DEF ExecTyped, Writing
<1>2. CASE x.key # Pointer
  <2>1. Confirmed(x) = [x EXCEPT !.pc = "readback"]
    BY <1>2 DEF Confirmed
  <2>2. /\ Confirmed(x).pc = "readback" /\ Confirmed(x).p = x.p /\ Confirmed(x).key = x.key
        /\ Confirmed(x).want = x.want /\ Confirmed(x).cond = x.cond /\ Confirmed(x).n = x.n
    BY <1>1, <2>1 DEF Exec
  <2>3. Promoting(Confirmed(x)) => Promoting(x)
    BY <2>2 DEF Promoting, Storing, Writing
  <2>4. QED BY <1>2, <2>2, <2>3
            DEF ExecSound, WritesFile, WritesReceipt, WritesPointer, Writing
<1>3. CASE x.key = Pointer /\ x.want.by = x.p
  <2>1. Confirmed(x) = [x EXCEPT !.pc = "public", !.mine = x.want]
    BY <1>3 DEF Confirmed, After, Pointer
  <2>2. /\ Confirmed(x).pc = "public" /\ Confirmed(x).p = x.p /\ Confirmed(x).n = x.n
        /\ Confirmed(x).mine = x.want
    BY <1>1, <2>1 DEF Exec
  <2>3. Receipted(d, s, x.p, s[x.n]) /\ Led(d, x.want) /\ Filed(d, x.p)
    BY <1>3, KeyFacts
    DEF ExecSound, WritesPointer, Promoting, Storing, Writing, Lasting
  <2>4. x.want = d[<<"receipt", x.p>>]
    BY <1>1, <1>3, <2>3, ContentFacts DEF Led
  <2>5. QED BY <2>2, <2>3, <2>4 DEF ExecSound, Writing, Promoting, Storing
<1>4. CASE x.key = Pointer /\ x.want.by # x.p
  <2>1. Confirmed(x) = NoExec
    BY <1>4 DEF Confirmed, After, Pointer
  <2>2. QED BY <2>1, NoExecSound
<1>5. QED BY <1>2, <1>3, <1>4

LEMMA NumberedStep ==
    ASSUME NEW e, NEW s, NEW r, Numbered(e, s, r), NEW w \in Workers, NEW y, Continues(y, e[w]),
           NEW e2, e2 = [e EXCEPT ![w] = y], e \in [Workers -> Exec]
    PROVE  Numbered(e2, s, r)
<1>1. e2[w] = y /\ \A v \in Workers : v # w => e2[v] = e[v]
  OBVIOUS
<1>2. \A v \in Workers : e2[v].pc # "idle" => e[v].pc # "idle" /\ e2[v].n = e[v].n
  BY <1>1 DEF Continues
<1>3. \A v \in Workers : Storing(e2[v]) => Storing(e[v]) /\ e2[v].pc # "idle"
  BY <1>1 DEF Continues, Storing, Writing
<1>4. QED BY <1>2, <1>3 DEF Numbered

-----------------------------------------------------------------------------
(* Every step keeps the invariant.                                         *)

\* The rest of the types, which no step of an execution disturbs.
Settings ==
    /\ backend \in {"memory", "local", "s3"} /\ required \in BOOLEAN
    /\ pending \in [Builds -> SUBSET (Content \cup {Missing})]
    /\ link \in [Builds -> 0 .. MaxRuns]
    /\ visit \in [pc : {"idle", "receipt", "file"}, at : Content \cup {Missing},
                  out : {"none", "unavailable", "not_found"}]
    /\ faults \in 0 .. MaxFaults

\* A step of one execution that leaves the numbers and what was seen alone.
LEMMA ExecStep ==
    ASSUME IInv, NEW w \in Workers, NEW y, Go(w, y), ExecTyped(y, seen), Continues(y, exec[w]),
           UNCHANGED <<backend, seen, runs, pending, visit>>,
           Stores(data'), Stores(meta'), Settings',
           backend # "local" =>
              /\ data' = meta' /\ Objects(data', seen) /\ Grown(data, seen, data', seen)
              /\ ExecSound(y, data', seen) /\ Kept(data', seen, pending, link')
    PROVE  IInv'
<1>1. /\ exec \in [Workers -> Exec] /\ exec' = [exec EXCEPT ![w] = y] /\ y \in Exec
      /\ exec' \in [Workers -> Exec]
  BY DEF IInv, TypeOK, Go, ExecTyped
<1>2. \A v \in Workers : exec'[v] = IF v = w THEN y ELSE exec[v]
  BY <1>1
<1>3. TypeOK'
  BY <1>1 DEF IInv, TypeOK, Settings, Stores
<1>4. (\A v \in Workers : ExecTyped(exec[v], seen))'
  BY <1>2 DEF IInv
<1>5. Numbered(exec, seen, runs)'
  BY <1>1, NumberedStep DEF IInv
<1>6. ASSUME backend # "local" PROVE Served'
  <2>1. \A v \in Workers : ExecSound(exec[v], data', seen)
    BY <1>6, ExecLasts DEF IInv, Served
  <2>2. \A v \in Workers : ExecSound(exec'[v], data', seen)
    BY <1>2, <1>6, <2>1
  <2>3. VisitSound(visit, data')
    BY <1>6, VisitLasts DEF IInv, Served
  <2>4. QED BY <1>6, <2>2, <2>3 DEF Served
<1>7. QED BY <1>3, <1>4, <1>5, <1>6 DEF IInv

\* The same where nothing is written.
LEMMA QuietStep ==
    ASSUME IInv, NEW w \in Workers, NEW y, Go(w, y), ExecTyped(y, seen), Continues(y, exec[w]),
           Unwritten, Elsewhere,
           backend # "local" => ExecSound(y, data, seen)
    PROVE  IInv'
<1>1. Stores(data') /\ Stores(meta') /\ Settings'
  BY DEF IInv, TypeOK, Stores, Settings, Unwritten, Elsewhere
<1>2. Grown(data, seen, data, seen)
  BY DEF Grown
<1>3. QED BY <1>1, <1>2, ExecStep DEF IInv, Served, Unwritten, Elsewhere

LEMMA ReadFacts ==
    ASSUME IInv, NEW k \in Keys
    PROVE  /\ Read(k) \in Content \cup {Missing, Broken}
           /\ backend # "local" => Read(k) = data[k] /\ Read(k) # Broken
<1>1. data[k] \in Content \cup {Missing} /\ meta[k] \in Content \cup {Missing}
  BY DEF IInv, TypeOK
<1>2. backend # "local" => data = meta
  BY DEF IInv, Served
<1>3. QED BY <1>1, <1>2, ContentFacts DEF Read

\* The object is written, on a backend that keeps its two halves together.
LEMMA WrittenStep ==
    ASSUME IInv, NEW w \in Workers, Writing(exec[w]), exec[w].pc # "readback",
           backend # "local", Read(exec[w].key) = Expected(exec[w]),
           Written(exec[w].key, exec[w].want)
    PROVE  /\ Stores(data') /\ Stores(meta') /\ data' = meta'
           /\ Objects(data', seen) /\ Grown(data, seen, data', seen)
           /\ Kept(data', seen, pending, link)
           /\ ExecSound(exec[w], data', seen) /\ data'[exec[w].key] = exec[w].want
<1> DEFINE x == exec[w]
<1>1. ExecTyped(x, seen) /\ ExecSound(x, data, seen) /\ Objects(data, seen) /\ data = meta
  BY DEF IInv, Served
<1>2. x.key \in Keys /\ x.want \in Content /\ Stores(data)
  BY <1>1 DEF ExecTyped, Exec, IInv, TypeOK, Stores
<1>3. data[x.key] = Expected(x)
  BY <1>2, ReadFacts
<1>4. /\ data' = [data EXCEPT ![x.key] = x.want] /\ meta' = data'
      /\ Stores(data') /\ data'[x.key] = x.want
  BY <1>1, <1>2 DEF Written, Stores
<1>5. Objects(data', seen) /\ Grown(data, seen, data', seen)
  BY <1>1, <1>2, <1>3, <1>4, ObjectWritten
<1>6. Kept(data', seen, pending, link)
  BY <1>5, KeptLasts DEF IInv, Served
<1>7. ExecSound(x, data', seen)
  BY <1>1, <1>5, ExecLasts
<1>8. QED BY <1>4, <1>5, <1>6, <1>7

LEMMA GiveStep ==
    ASSUME IInv, NEW w \in Workers, Give(w), Unwritten, Elsewhere
    PROVE  IInv'
  BY NoExecSound, QuietStep DEF Give

\* An execution of which a write is confirmed, in the state where that is.
LEMMA ConfirmStep ==
    ASSUME IInv, NEW w \in Workers, Writing(exec[w]), Go(w, Confirmed(exec[w])),
           Unwritten, Elsewhere
    PROVE  IInv'
<1>1. ExecTyped(exec[w], seen)
  BY DEF IInv
<1>2. backend # "local" => ExecSound(Confirmed(exec[w]), data, seen)
  BY <1>1, ConfirmedSound DEF IInv, Served
<1>3. QED BY <1>1, <1>2, ConfirmedTyped, QuietStep

\* From the look at what is there to the write, or to what the provider answers.
LEMMA WaitStep ==
    ASSUME IInv, NEW w \in Workers, exec[w].pc \in {"check", "write"},
           NEW pc \in {"write", "finish"},
           Go(w, [exec[w] EXCEPT !.pc = pc]), Elsewhere,
           Stores(data'), Stores(meta'),
           backend # "local" =>
              /\ data' = meta' /\ Objects(data', seen) /\ Grown(data, seen, data', seen)
              /\ Kept(data', seen, pending, link) /\ ExecSound(exec[w], data', seen)
    PROVE  IInv'
<1> DEFINE x == exec[w]
           y == [x EXCEPT !.pc = pc]
<1>1. ExecTyped(x, seen) /\ x \in Exec /\ x.pc # "idle"
  BY DEF IInv, ExecTyped
<1>2. /\ y \in Exec /\ y.pc = pc /\ y.p = x.p /\ y.n = x.n /\ y.key = x.key
      /\ y.want = x.want /\ y.cond = x.cond
  BY <1>1 DEF Exec
<1>3. Writing(x) /\ Writing(y) /\ (Storing(y) <=> Storing(x)) /\ (Promoting(y) <=> Promoting(x))
  BY <1>2 DEF Writing, Storing, Promoting
<1> HIDE DEF y
<1>4. ExecTyped(y, seen) /\ Continues(y, x)
  BY <1>1, <1>2, <1>3 DEF ExecTyped, Continues
<1>5. \A d : ExecSound(x, d, seen) => ExecSound(y, d, seen)
  BY <1>2, <1>3 DEF ExecSound, WritesFile, WritesReceipt, WritesPointer
<1>6. Settings'
  BY DEF IInv, TypeOK, Settings, Elsewhere
<1>7. QED BY <1>4, <1>5, <1>6, ExecStep DEF y, Elsewhere

LEMMA CheckStep == ASSUME IInv, NEW w \in Workers, Check(w) PROVE IInv'
<1> DEFINE x == exec[w]
<1>1. /\ x.pc = "check" /\ Writing(x) /\ Elsewhere /\ x \in Exec /\ x.want \in Content
      /\ ExecTyped(x, seen) /\ x.key \in Keys
  BY DEF Check, At, Writing, IInv, ExecTyped, Exec
<1>2. CASE Go(w, Confirmed(x)) /\ Unwritten
  BY <1>1, <1>2, ConfirmStep
<1>3. CASE Give(w) /\ Unwritten
  BY <1>1, <1>3, GiveStep
<1>4. CASE Go(w, [x EXCEPT !.pc = "write"]) /\ Unwritten
  <2>1. /\ Stores(data') /\ Stores(meta')
        /\ backend # "local" =>
              /\ data' = meta' /\ Objects(data', seen) /\ Grown(data, seen, data', seen)
              /\ Kept(data', seen, pending, link) /\ ExecSound(x, data', seen)
    BY <1>4 DEF Unwritten, IInv, TypeOK, Served, Stores, Grown
  <2>2. QED BY <1>1, <1>4, <2>1, WaitStep
<1>5. CASE /\ Read(x.key) = Expected(x) /\ backend = "memory"
           /\ Written(x.key, x.want) /\ Go(w, Confirmed(x))
  <2>1. /\ Stores(data') /\ Stores(meta') /\ data' = meta'
        /\ Objects(data', seen) /\ Grown(data, seen, data', seen)
        /\ Kept(data', seen, pending, link) /\ ExecSound(x, data', seen)
    BY <1>1, <1>5, WrittenStep
  <2>2. ExecSound(Confirmed(x), data', seen)
    BY <1>1, <2>1, ConfirmedSound
  <2>3. ExecTyped(Confirmed(x), seen) /\ Continues(Confirmed(x), x)
    BY <1>1, ConfirmedTyped
  <2>4. Settings'
    BY <1>1 DEF IInv, TypeOK, Settings, Elsewhere
  <2>5. QED BY <1>1, <1>5, <2>1, <2>2, <2>3, <2>4, ExecStep DEF Elsewhere
<1>6. QED BY <1>2, <1>3, <1>4, <1>5 DEF Check, Expected

LEMMA WriteStep == ASSUME IInv, NEW w \in Workers, Write(w) PROVE IInv'
<1> DEFINE x == exec[w]
<1>1. /\ x.pc = "write" /\ Writing(x) /\ Elsewhere /\ x \in Exec /\ x.want \in Content
      /\ ExecTyped(x, seen) /\ x.key \in Keys
  BY DEF Write, At, Writing, IInv, ExecTyped, Exec
<1>2. CASE Go(w, Confirmed(x)) /\ Unwritten
  BY <1>1, <1>2, ConfirmStep
<1>3. CASE Give(w) /\ Unwritten
  BY <1>1, <1>3, GiveStep
<1>4. CASE /\ backend = "local" /\ data' = [data EXCEPT ![x.key] = x.want] /\ UNCHANGED meta
           /\ Go(w, [x EXCEPT !.pc = "finish"])
  <2>1. Stores(data') /\ Stores(meta')
    BY <1>1, <1>4 DEF Stores, IInv, TypeOK
  <2>2. QED BY <1>1, <1>4, <2>1, WaitStep
<1>5. CASE /\ backend = "s3" /\ Allows(x) /\ Written(x.key, x.want)
           /\ Go(w, [x EXCEPT !.pc = "finish"])
  <2>1. Read(x.key) = Expected(x)
    BY <1>5 DEF Allows, Expected
  <2>2. /\ Stores(data') /\ Stores(meta') /\ data' = meta'
        /\ Objects(data', seen) /\ Grown(data, seen, data', seen)
        /\ Kept(data', seen, pending, link) /\ ExecSound(x, data', seen)
    BY <1>1, <1>5, <2>1, WrittenStep
  <2>3. QED BY <1>1, <1>5, <2>2, WaitStep
<1>6. QED BY <1>2, <1>3, <1>4, <1>5 DEF Write, Give

LEMMA FinishStep == ASSUME IInv, NEW w \in Workers, Finish(w) PROVE IInv'
<1> DEFINE x == exec[w]
<1>1. /\ x.pc = "finish" /\ Writing(x) /\ Elsewhere /\ x \in Exec /\ x.want \in Content
      /\ ExecTyped(x, seen) /\ x.key \in Keys
  BY DEF Finish, At, Writing, IInv, ExecTyped, Exec
<1>2. CASE Go(w, Confirmed(x)) /\ Unwritten
  BY <1>1, <1>2, ConfirmStep
<1>3. CASE Give(w) /\ Unwritten
  BY <1>1, <1>3, GiveStep
<1>4. CASE /\ backend = "local" /\ meta' = [meta EXCEPT ![x.key] = x.want] /\ UNCHANGED data
           /\ Go(w, Confirmed(x))
  <2>1. Stores(data') /\ Stores(meta') /\ Settings'
    BY <1>1, <1>4 DEF Stores, IInv, TypeOK, Settings, Elsewhere
  <2>2. ExecTyped(Confirmed(x), seen) /\ Continues(Confirmed(x), x)
    BY <1>1, ConfirmedTyped
  <2>3. QED BY <1>1, <1>4, <2>1, <2>2, ExecStep DEF Elsewhere
<1>5. QED BY <1>2, <1>3, <1>4 DEF Finish, Give

\* The manifest that was read back is the one whose hash is in the link.
LEMMA ReadbackStep == ASSUME IInv, NEW w \in Workers, Readback(w) PROVE IInv'
<1> DEFINE x == exec[w]
           good == Read(x.key) = x.want
           y == IF good THEN After(x) ELSE NoExec
<1>1. /\ x.pc = "readback" /\ Writing(x) /\ x \in Exec /\ x.want \in Content
      /\ ExecTyped(x, seen) /\ x.key \in Keys /\ x.p \in Builds
      /\ Go(w, y)
      /\ link' = IF good /\ x.key[1] = "manifest" THEN [link EXCEPT ![x.p] = x.want.n] ELSE link
      /\ UNCHANGED <<backend, required, data, meta, pending, seen, runs, visit, faults>>
  BY DEF Readback, At, Writing, IInv, ExecTyped, Exec
<1> HIDE DEF y
<1>2. ExecTyped(y, seen) /\ Continues(y, x)
  BY <1>1, AfterTyped, NoExecSound DEF y
<1>3. Stores(data') /\ Stores(meta') /\ Settings'
  BY <1>1, ContentFacts DEF Stores, IInv, TypeOK, Settings
<1>4. ASSUME backend # "local"
      PROVE  ExecSound(y, data, seen) /\ Kept(data, seen, pending, link')
  <2>1. Read(x.key) = data[x.key] /\ Objects(data, seen) /\ ExecSound(x, data, seen)
    BY <1>1, <1>4, ReadFacts DEF IInv, Served
  <2>2. x.key # Pointer
    BY <1>1, <2>1 DEF ExecSound, WritesPointer
  <2>3. ExecSound(y, data, seen)
    BY <1>1, <2>1, <2>2, AfterSound, NoExecSound DEF y
  <2>4. CASE good /\ x.key[1] = "manifest"
    <3>1. x.key = <<"manifest", x.p>>
      BY <1>1, <2>1, <2>4 DEF ExecSound, Pointer
    <3>2. data[<<"manifest", x.p>>] = [by |-> x.p, n |-> x.want.n]
      <4>1. x.want = [by |-> x.p, n |-> x.n]
        BY <1>1, <2>1, <3>1 DEF ExecSound, WritesFile
      <4>2. data[<<"manifest", x.p>>] = x.want
        BY <2>1, <2>4, <3>1
      <4>3. QED BY <4>1, <4>2
    <3>3. \A p \in Builds : link'[p] = IF p = x.p THEN x.want.n ELSE link[p]
      BY <1>1, <2>4 DEF IInv, TypeOK
    <3>4. QED BY <1>4, <2>3, <3>2, <3>3 DEF Kept, IInv, Served
  <2>5. CASE ~ (good /\ x.key[1] = "manifest")
    BY <1>1, <1>4, <2>3, <2>5 DEF IInv, Served
  <2>6. QED BY <2>4, <2>5
<1>5. QED BY <1>1, <1>2, <1>3, <1>4, ExecStep DEF IInv, Served, Grown

-----------------------------------------------------------------------------
(* The promoter's steps.                                                   *)

LEMMA ObjectsLast ==
    ASSUME NEW d, NEW s, NEW s2, Grown(d, s, d, s2), Objects(d, s)
    PROVE  Objects(d, s2)
<1>1. ASSUME NEW p \in Builds, d[<<"receipt", p>>] # Missing
      PROVE  /\ Receipted(d, s2, p, s2[d[<<"receipt", p>>].n])
             /\ s2[d[<<"receipt", p>>].n] # NoPending
  <2>1. /\ Receipted(d, s, p, s[d[<<"receipt", p>>].n])
        /\ s[d[<<"receipt", p>>].n] # NoPending
    BY <1>1 DEF Objects
  <2>2. d[<<"receipt", p>>].n \in 1 .. MaxRuns
    BY <2>1, ContentFacts DEF Receipted
  <2>3. QED BY <2>1, <2>2 DEF Grown, Receipted
<1>2. QED BY <1>1 DEF Objects

\* A step that sets what the pending promotion of an execution saw.
LEMMA SeeStep ==
    ASSUME IInv, NEW w \in Workers, NEW y, Go(w, y), ExecTyped(y, seen'),
           UNCHANGED <<backend, data, meta, link, visit>>, Settings',
           runs' \in 0 .. MaxRuns, seen' \in [1 .. MaxRuns -> Content \cup {Missing, NoPending}],
           Grown(data, seen, data, seen'), Numbered(exec', seen', runs'),
           backend # "local" => ExecSound(y, data, seen') /\ Kept(data, seen', pending', link)
    PROVE  IInv'
<1>1. /\ exec \in [Workers -> Exec] /\ exec' = [exec EXCEPT ![w] = y] /\ y \in Exec
      /\ exec' \in [Workers -> Exec]
  BY DEF IInv, TypeOK, Go, ExecTyped
<1>2. \A v \in Workers : exec'[v] = IF v = w THEN y ELSE exec[v]
  BY <1>1
<1>3. TypeOK'
  BY <1>1 DEF IInv, TypeOK, Settings
<1>4. \A v \in Workers : ExecTyped(exec[v], seen')
  <2>1. ASSUME NEW x, ExecTyped(x, seen), Promoting(x) PROVE seen'[x.n] # NoPending
    BY <2>1 DEF ExecTyped, Grown, Promoting
  <2>2. QED BY <2>1 DEF ExecTyped, IInv
<1>5. (\A v \in Workers : ExecTyped(exec[v], seen))'
  BY <1>2, <1>4
<1>6. ASSUME backend # "local" PROVE Served'
  <2>1. \A v \in Workers : ExecSound(exec[v], data, seen')
    BY <1>6, ExecLasts DEF IInv, Served
  <2>2. Objects(data, seen')
    BY <1>6, ObjectsLast DEF IInv, Served
  <2>3. QED BY <1>2, <1>6, <2>1, <2>2 DEF IInv, Served
<1>7. QED BY <1>3, <1>5, <1>6 DEF IInv

LEMMA BeginStep == ASSUME IInv, NEW w \in Workers, Begin(w) PROVE IInv'
<1>1. /\ exec[w].pc = "idle" /\ runs < MaxRuns /\ runs' = runs + 1
      /\ UNCHANGED <<backend, required, data, meta, pending, link, visit, faults>>
  BY DEF Begin, At
<1>2. PICK p \in Builds :
        LET x == [NoExec EXCEPT !.p = p, !.n = runs + 1]
        IN  \/ /\ Go(w, Put(x, <<"index", p>>, [by |-> p, n |-> 0], Immutable))
               /\ UNCHANGED seen
            \/ \E before \in pending[p] : /\ seen' = [seen EXCEPT ![runs + 1] = before]
                                          /\ Go(w, [x EXCEPT !.pc = "receipt"])
  BY DEF Begin
<1> DEFINE x == [NoExec EXCEPT !.p = p, !.n = runs + 1]
<1>3. /\ runs \in 0 .. MaxRuns /\ runs + 1 \in 1 .. MaxRuns
      /\ seen \in [1 .. MaxRuns -> Content \cup {Missing, NoPending}]
      /\ exec \in [Workers -> Exec] /\ Numbered(exec, seen, runs) /\ Settings'
      /\ seen[runs + 1] = NoPending
  <2>1. runs \in 0 .. MaxRuns /\ runs + 1 \in 1 .. MaxRuns
    BY <1>1, PreviewAssumption DEF IInv, TypeOK
  <2>2. Settings'
    BY <1>1 DEF IInv, TypeOK, Settings
  <2>3. seen[runs + 1] = NoPending
    BY <2>1 DEF IInv, Numbered
  <2>4. QED BY <2>1, <2>2, <2>3 DEF IInv, TypeOK
<1>4. x \in Exec /\ x.p = p /\ x.n = runs + 1
  <2>1. NoExec \in Exec
    BY NoExecSound DEF ExecTyped
  <2>2. runs + 1 \in 0 .. MaxRuns /\ p \in Builds \cup {NoOne}
    BY <1>3, PreviewAssumption
  <2>3. QED BY <2>1, <2>2 DEF Exec
<1>5. ASSUME NEW y, Go(w, y), y.pc # "idle", y.n = runs + 1,
             Storing(y) => seen'[runs + 1] = NoPending,
             \A n \in 1 .. MaxRuns : n # runs + 1 => seen'[n] = seen[n]
      PROVE  Numbered(exec', seen', runs')
  <2>1. \A v \in Workers : exec'[v] = IF v = w THEN y ELSE exec[v]
    BY <1>3, <1>5 DEF Go
  <2>2. \A v \in Workers : exec[v].pc # "idle" => exec[v].n <= runs /\ exec[v].n \in 1 .. MaxRuns
    BY <1>3 DEF Numbered, IInv, ExecTyped
  <2>3. \A v \in Workers : Storing(exec[v]) => exec[v].pc # "idle"
    BY DEF Storing, Writing
  <2>4. \A v \in Workers : exec'[v].pc # "idle" => exec'[v].n <= runs'
    BY <1>1, <1>3, <1>5, <2>1, <2>2
  <2>5. \A u, v \in Workers :
          u # v /\ exec'[u].pc # "idle" /\ exec'[v].pc # "idle" => exec'[u].n # exec'[v].n
    BY <1>3, <1>5, <2>1, <2>2 DEF Numbered
  <2>6. \A n \in 1 .. MaxRuns : n > runs' => seen'[n] = NoPending
    BY <1>1, <1>3, <1>5 DEF Numbered
  <2>7. \A v \in Workers : Storing(exec'[v]) => seen'[exec'[v].n] = NoPending
    BY <1>3, <1>5, <2>1, <2>2, <2>3 DEF Numbered
  <2>8. QED BY <2>4, <2>5, <2>6, <2>7 DEF Numbered
<1>6. CASE Go(w, Put(x, <<"index", p>>, [by |-> p, n |-> 0], Immutable)) /\ UNCHANGED seen
  <2> DEFINE y == Put(x, <<"index", p>>, [by |-> p, n |-> 0], Immutable)
  <2>1. /\ y \in Exec /\ y.pc = "check" /\ y.p = p /\ y.n = runs + 1
        /\ y.key = <<"index", p>> /\ y.want = File(p) /\ y.cond = Immutable
    BY <1>4, KeyFacts, ContentFacts DEF Put, Exec, Lasting, Stored, File
  <2> HIDE DEF y
  <2>2. Storing(y) /\ Writing(y)
    BY <2>1 DEF Storing, Writing, Stored
  <2>3. ExecTyped(y, seen')
    BY <1>3, <2>1, <2>2, ContentFacts DEF ExecTyped, Promoting
  <2>4. ExecSound(y, data, seen')
    BY <2>1, <2>2
    DEF ExecSound, WritesFile, WritesReceipt, WritesPointer, Promoting, Pointer
  <2>5. Go(w, y)
    BY <1>6 DEF y
  <2>6. Numbered(exec', seen', runs')
    BY <1>3, <1>5, <1>6, <2>1, <2>5
  <2>7. Grown(data, seen, data, seen')
    BY <1>6 DEF Grown
  <2>8. QED BY <1>1, <1>3, <1>6, <2>3, <2>4, <2>5, <2>6, <2>7, SeeStep DEF IInv, Served
<1>7. ASSUME NEW before \in pending[p], seen' = [seen EXCEPT ![runs + 1] = before],
             Go(w, [x EXCEPT !.pc = "receipt"])
      PROVE  IInv'
  <2> DEFINE y == [x EXCEPT !.pc = "receipt"]
  <2>1. y \in Exec /\ y.pc = "receipt" /\ y.p = p /\ y.n = runs + 1
    BY <1>4 DEF Exec
  <2> HIDE DEF y
  <2>2. before \in Content \cup {Missing}
    BY DEF IInv, TypeOK
  <2>3. /\ seen' \in [1 .. MaxRuns -> Content \cup {Missing, NoPending}]
        /\ seen'[runs + 1] = before /\ before # NoPending
        /\ \A n \in 1 .. MaxRuns : n # runs + 1 => seen'[n] = seen[n]
    BY <1>3, <1>7, <2>2, ContentFacts
  <2>4. ~ Storing(y) /\ Promoting(y) /\ ~ Writing(y)
    BY <2>1 DEF Storing, Writing, Promoting
  <2>5. ExecTyped(y, seen')
    BY <1>3, <2>1, <2>3, <2>4 DEF ExecTyped
  <2>6. Go(w, y)
    BY <1>7 DEF y
  <2>7. Numbered(exec', seen', runs')
    BY <1>5, <2>1, <2>3, <2>4, <2>6
  <2>8. Grown(data, seen, data, seen')
    BY <1>3, <2>3 DEF Grown
  <2>9. ASSUME backend # "local"
        PROVE  ExecSound(y, data, seen') /\ Kept(data, seen', pending', link)
    <3>1. Led(data, before) /\ Filed(data, p) /\ Kept(data, seen, pending, link)
      BY <2>9 DEF IInv, Served, Kept
    <3>2. ExecSound(y, data, seen')
      BY <2>1, <2>4, <3>1 DEF ExecSound
    <3>3. Kept(data, seen', pending, link)
      BY <2>3, <3>1 DEF Kept
    <3>4. QED BY <1>1, <3>2, <3>3
  <2>10. QED BY <1>1, <1>3, <2>3, <2>5, <2>6, <2>7, <2>8, <2>9, SeeStep
<1>8. QED BY <1>2, <1>6, <1>7

LEMMA CreatePendingStep == ASSUME IInv, NEW w \in Workers, CreatePending(w) PROVE IInv'
<1> DEFINE x == exec[w]
           current == Read(Pointer)
           y == [x EXCEPT !.pc = "receipt"]
<1>1. /\ x.pc = "pending" /\ ExecTyped(x, seen) /\ x \in Exec
      /\ x.p \in Builds /\ x.n \in 1 .. MaxRuns
      /\ UNCHANGED <<backend, required, data, meta, link, runs, visit, faults>>
  BY DEF CreatePending, At, IInv, ExecTyped
<1>2. CASE Give(w) /\ UNCHANGED <<pending, seen>>
  BY <1>1, <1>2, GiveStep DEF Elsewhere, Unwritten
<1>3. CASE /\ current # Broken
           /\ pending' = [pending EXCEPT ![x.p] = @ \cup {current}]
           /\ seen' = [seen EXCEPT ![x.n] = current]
           /\ Go(w, y)
  <2>1. current \in Content \cup {Missing} /\ current # NoPending
    BY <1>3, ReadFacts, KeyFacts, ContentFacts
  <2>2. /\ seen \in [1 .. MaxRuns -> Content \cup {Missing, NoPending}] /\ seen[x.n] = NoPending
        /\ Numbered(exec, seen, runs) /\ exec \in [Workers -> Exec] /\ runs \in 0 .. MaxRuns
    BY <1>1 DEF IInv, TypeOK, Numbered, Storing
  <2>3. /\ seen' \in [1 .. MaxRuns -> Content \cup {Missing, NoPending}]
        /\ seen'[x.n] = current
        /\ \A n \in 1 .. MaxRuns : n # x.n => seen'[n] = seen[n]
    BY <1>1, <1>3, <2>1, <2>2
  <2>4. y \in Exec /\ y.pc = "receipt" /\ y.p = x.p /\ y.n = x.n
    BY <1>1 DEF Exec
  <2> HIDE DEF y
  <2>5. ~ Storing(y) /\ Promoting(y) /\ ~ Writing(y)
    BY <2>4 DEF Storing, Writing, Promoting
  <2>6. ExecTyped(y, seen')
    BY <1>1, <2>1, <2>3, <2>4, <2>5 DEF ExecTyped
  <2>7. Settings'
    BY <1>1, <1>3, <2>1 DEF Settings, IInv, TypeOK
  <2>8. Grown(data, seen, data, seen')
    BY <2>2, <2>3 DEF Grown
  <2>9. Numbered(exec', seen', runs')
    <3>1. \A v \in Workers : exec'[v] = IF v = w THEN y ELSE exec[v]
      BY <1>3, <2>2 DEF Go
    <3>2. x.n <= runs /\ \A v \in Workers : v # w /\ exec[v].pc # "idle" => exec[v].n # x.n
      BY <1>1, <2>2 DEF Numbered
    <3>3. \A v \in Workers : Storing(exec[v]) => exec[v].pc # "idle" /\ exec[v].n \in 1 .. MaxRuns
      BY DEF Storing, Writing, IInv, ExecTyped
    <3>4. \A v \in Workers : exec'[v].pc # "idle" => exec'[v].n <= runs'
      BY <1>1, <2>2, <2>4, <3>1, <3>2 DEF Numbered
    <3>5. \A u, v \in Workers :
            u # v /\ exec'[u].pc # "idle" /\ exec'[v].pc # "idle" => exec'[u].n # exec'[v].n
      BY <1>1, <2>2, <2>4, <3>1, <3>2 DEF Numbered
    <3>6. \A n \in 1 .. MaxRuns : n > runs' => seen'[n] = NoPending
      BY <1>1, <2>2, <2>3, <3>2 DEF Numbered
    <3>7. \A v \in Workers : Storing(exec'[v]) => seen'[exec'[v].n] = NoPending
      BY <2>2, <2>3, <2>5, <3>1, <3>2, <3>3 DEF Numbered
    <3>8. QED BY <3>4, <3>5, <3>6, <3>7 DEF Numbered
  <2>10. ASSUME backend # "local"
         PROVE  ExecSound(y, data, seen') /\ Kept(data, seen', pending', link)
    <3>1. Led(data, current) /\ Filed(data, x.p) /\ Kept(data, seen, pending, link)
      BY <1>1, <2>10, ReadFacts, KeyFacts DEF IInv, Served, Objects, ExecSound
    <3>2. ExecSound(y, data, seen')
      BY <2>4, <2>5, <3>1 DEF ExecSound
    <3>3. \A p \in Builds : pending'[p] = IF p = x.p THEN pending[p] \cup {current} ELSE pending[p]
      BY <1>1, <1>3 DEF IInv, TypeOK
    <3>4. \A n \in 1 .. MaxRuns : seen'[n] = NoPending \/ Led(data, seen'[n])
      BY <2>3, <3>1 DEF Kept
    <3>5. Kept(data, seen', pending', link)
      BY <3>1, <3>3, <3>4, ZenonT(20) DEF Kept
    <3>6. QED BY <3>2, <3>5
  <2>11. Go(w, y)
    BY <1>3
  <2>12. QED BY <1>1, <2>2, <2>3, <2>6, <2>7, <2>8, <2>9, <2>10, <2>11, SeeStep
<1>4. QED BY <1>2, <1>3 DEF CreatePending

\* A promotion that goes on without writing.
LEMMA OnwardStep ==
    ASSUME IInv, NEW w \in Workers, Promoting(exec[w]),
           NEW y, Go(w, y), y \in Exec, y.p = exec[w].p, y.n = exec[w].n,
           ~ Writing(y), Promoting(y),
           Unwritten, Elsewhere,
           backend # "local" =>
              /\ y.pc \in {"index", "pointer"} =>
                    /\ Receipted(data, seen, y.p, seen[y.n])
                    /\ y.receipt = data[<<"receipt", y.p>>].n
              /\ y.pc \in {"public", "restore"} =>
                    /\ Receipted(data, seen, y.p, seen[y.n])
                    /\ y.mine = data[<<"receipt", y.p>>]
    PROVE  IInv'
<1>1. ExecTyped(exec[w], seen) /\ exec[w].pc # "idle"
  BY DEF IInv, Promoting
<1>2. ExecTyped(y, seen) /\ Continues(y, exec[w])
  BY <1>1 DEF ExecTyped, Continues, Promoting
<1>3. backend # "local" => ExecSound(y, data, seen)
  BY DEF ExecSound, IInv, Served
<1>4. QED BY <1>2, <1>3, QuietStep

LEMMA ReceiptStep == ASSUME IInv, NEW w \in Workers, Receipt(w) PROVE IInv'
<1> DEFINE x == exec[w]
           key == <<"receipt", x.p>>
           there == Read(key)
<1>1. /\ x.pc = "receipt" /\ Promoting(x) /\ ExecTyped(x, seen) /\ x \in Exec
      /\ x.p \in Builds /\ x.n \in 1 .. MaxRuns /\ seen[x.n] # NoPending
      /\ Unwritten /\ Elsewhere /\ Go(w, WithReceipt(x, there))
  BY DEF Receipt, At, IInv, ExecTyped, Promoting, Storing, Writing
<1>2. /\ key \in Keys /\ there \in Content \cup {Missing, Broken}
      /\ backend # "local" => there = data[key] /\ Filed(data, x.p) /\ Objects(data, seen)
  BY <1>1, KeyFacts, ReadFacts DEF Lasting, IInv, Served, ExecSound
<1>3. CASE WithReceipt(x, there) = NoExec
  BY <1>1, <1>3, GiveStep DEF Give
<1>4. CASE there = Missing
  <2> DEFINE y == Put(x, key, [by |-> x.p, n |-> x.n], Missing)
  <2>1. [by |-> x.p, n |-> x.n] \in Content
    BY <1>1 DEF Content
  <2>2. /\ y \in Exec /\ y.pc = "check" /\ y.p = x.p /\ y.n = x.n /\ y.key = key
        /\ y.want = [by |-> x.p, n |-> x.n] /\ y.cond = Missing
    BY <1>1, <1>2, <2>1 DEF Put, Exec
  <2>3. Go(w, y)
    <3>1. there = Missing /\ there # Broken
      BY <1>4, ContentFacts
    <3>2. WithReceipt(x, Missing) = y
      BY ContentFacts DEF WithReceipt
    <3>3. QED BY <1>1, <3>1, <3>2
  <2> HIDE DEF y
  <2>4. Writing(y) /\ ~ Storing(y) /\ Promoting(y)
    BY <2>2 DEF Writing, Storing, Promoting, Stored
  <2>5. ExecTyped(y, seen) /\ Continues(y, x)
    BY <1>1, <2>1, <2>2, <2>4 DEF ExecTyped, Continues
  <2>6. backend # "local" => ExecSound(y, data, seen)
    BY <1>1, <1>2, <2>2, <2>4
    DEF ExecSound, WritesFile, WritesReceipt, WritesPointer, Pointer
  <2>7. QED BY <1>1, <2>3, <2>5, <2>6, QuietStep
<1>5. CASE there \in Content /\ seen[there.n] = seen[x.n]
  <2> DEFINE y == [x EXCEPT !.pc = "readback", !.key = key, !.want = there]
  <2>1. /\ y \in Exec /\ y.pc = "readback" /\ y.p = x.p /\ y.n = x.n /\ y.key = key
        /\ y.want = there
    BY <1>1, <1>2, <1>5 DEF Exec
  <2>2. Go(w, y)
    BY <1>1, <1>5, ContentFacts DEF WithReceipt
  <2> HIDE DEF y
  <2>3. Writing(y) /\ ~ Storing(y) /\ Promoting(y)
    BY <2>1 DEF Writing, Storing, Promoting, Stored
  <2>4. ExecTyped(y, seen) /\ Continues(y, x)
    BY <1>1, <1>5, <2>1, <2>3 DEF ExecTyped, Continues
  <2>5. backend # "local" => ExecSound(y, data, seen)
    <3>1. backend # "local" => there.by = x.p /\ there.n # 0
      BY <1>1, <1>2, <1>5, ContentFacts DEF Objects, Receipted
    <3>2. QED BY <1>2, <1>5, <2>1, <2>3, <3>1
              DEF ExecSound, WritesFile, WritesReceipt, WritesPointer, Pointer
  <2>6. QED BY <1>1, <2>2, <2>4, <2>5, QuietStep
<1>6. QED BY <1>2, <1>3, <1>4, <1>5 DEF WithReceipt

LEMMA IndexStep == ASSUME IInv, NEW w \in Workers, Index(w) PROVE IInv'
<1> DEFINE x == exec[w]
           y == [x EXCEPT !.pc = "pointer"]
<1>1. /\ x.pc = "index" /\ x \in Exec /\ Promoting(x) /\ Unwritten /\ Elsewhere
  BY DEF Index, At, IInv, ExecTyped, Promoting, Storing, Writing
<1>2. CASE Give(w)
  BY <1>1, <1>2, GiveStep
<1>3. CASE Go(w, y)
  <2>1. /\ y \in Exec /\ y.pc = "pointer" /\ y.p = x.p /\ y.n = x.n
        /\ y.receipt = x.receipt
    BY <1>1 DEF Exec
  <2> HIDE DEF y
  <2>2. ~ Writing(y) /\ Promoting(y)
    BY <2>1 DEF Writing, Storing, Promoting
  <2>3. backend # "local" =>
           /\ Receipted(data, seen, y.p, seen[y.n])
           /\ y.receipt = data[<<"receipt", y.p>>].n
    BY <1>1, <2>1 DEF IInv, Served, ExecSound
  <2>4. QED BY <1>1, <1>3, <2>1, <2>2, <2>3, OnwardStep
<1>4. QED BY <1>2, <1>3 DEF Index, Give

\* The pointer is put under the condition of the pending promotion, or back again
\* under the condition that it is still the promotion's.
LEMMA PutPointerStep ==
    ASSUME IInv, NEW w \in Workers, Promoting(exec[w]),
           NEW want \in Content, NEW cond \in Content \cup {Missing, Broken},
           Go(w, Put(exec[w], Pointer, want, cond)), Unwritten, Elsewhere,
           backend # "local" =>
              /\ Receipted(data, seen, exec[w].p, seen[exec[w].n]) /\ Led(data, want)
              /\ \/ cond = seen[exec[w].n] /\ want.by = exec[w].p
                 \/ /\ want = seen[exec[w].n] /\ cond.by = exec[w].p
                    /\ cond \in Content /\ Led(data, cond)
    PROVE  IInv'
<1> DEFINE x == exec[w]
           y == Put(x, Pointer, want, cond)
<1>1. ExecTyped(x, seen) /\ x \in Exec /\ x.pc # "idle"
  BY DEF IInv, ExecTyped, Promoting
<1>2. /\ y \in Exec /\ y.pc = "check" /\ y.p = x.p /\ y.n = x.n /\ y.key = Pointer
      /\ y.want = want /\ y.cond = cond
  BY <1>1, KeyFacts DEF Put, Exec
<1> HIDE DEF y
<1>3. Writing(y) /\ ~ Storing(y) /\ Promoting(y)
  BY <1>2 DEF Writing, Storing, Promoting, Stored, Pointer
<1>4. ExecTyped(y, seen) /\ Continues(y, x)
  BY <1>1, <1>2, <1>3 DEF ExecTyped, Continues
<1>5. backend # "local" => ExecSound(y, data, seen)
  <2>1. backend # "local" => Filed(data, x.p)
    BY DEF IInv, Served, ExecSound
  <2>2. /\ <<"index", x.p>> # Pointer /\ <<"asset", x.p>> # Pointer
        /\ <<"manifest", x.p>> # Pointer /\ <<"receipt", x.p>> # Pointer
    BY DEF Pointer
  <2>3. QED BY <1>2, <1>3, <2>1, <2>2 DEF ExecSound, WritesFile, WritesReceipt, WritesPointer
<1>6. QED BY <1>4, <1>5, QuietStep DEF y

LEMMA SwapStep == ASSUME IInv, NEW w \in Workers, PutPointer(w) PROVE IInv'
<1> DEFINE x == exec[w]
           there == Read(Pointer)
           mine == [by |-> x.p, n |-> x.receipt]
<1>1. /\ x.pc = "pointer" /\ x \in Exec /\ Promoting(x) /\ Unwritten /\ Elsewhere
      /\ x.p \in Builds /\ x.n \in 1 .. MaxRuns
      /\ there \in Content \cup {Missing, Broken}
  BY ReadFacts, KeyFacts DEF PutPointer, At, IInv, ExecTyped, Promoting, Storing, Writing
<1>2. backend # "local" =>
        /\ Receipted(data, seen, x.p, seen[x.n]) /\ x.receipt = data[<<"receipt", x.p>>].n
        /\ Led(data, there)
  BY <1>1, ReadFacts, KeyFacts DEF IInv, Served, ExecSound, Objects
<1>3. CASE Give(w)
  BY <1>1, <1>3, GiveStep
<1>4. CASE there.by = x.p /\ Go(w, [x EXCEPT !.pc = "public", !.mine = there])
  <2> DEFINE y == [x EXCEPT !.pc = "public", !.mine = there]
  <2>1. there \in Content
    BY <1>1, <1>4, PreviewAssumption DEF Missing, Broken
  <2>2. y \in Exec /\ y.pc = "public" /\ y.p = x.p /\ y.n = x.n /\ y.mine = there
    BY <1>1, <2>1 DEF Exec
  <2>3. Go(w, y)
    BY <1>4
  <2> HIDE DEF y
  <2>4. ~ Writing(y) /\ Promoting(y)
    BY <2>2 DEF Writing, Storing, Promoting
  <2>5. backend # "local" =>
           Receipted(data, seen, y.p, seen[y.n]) /\ y.mine = data[<<"receipt", y.p>>]
    BY <1>2, <1>4, <2>1, <2>2, ContentFacts DEF Led
  <2>6. QED BY <1>1, <2>2, <2>3, <2>4, <2>5, OnwardStep
<1>5. CASE Go(w, Put(x, Pointer, mine, seen[x.n]))
  <2>1. mine \in Content
    BY <1>1 DEF Exec, Content
  <2>2. seen[x.n] \in Content \cup {Missing, Broken}
    BY <1>1, ContentFacts DEF IInv, TypeOK
  <2>3. ASSUME backend # "local"
        PROVE  Receipted(data, seen, x.p, seen[x.n]) /\ Led(data, mine) /\ mine.by = x.p
    <3>1. mine = data[<<"receipt", x.p>>]
      BY <1>2, <2>3 DEF Receipted, Content
    <3>2. QED BY <1>2, <2>1, <2>3, <3>1 DEF Led
  <2>4. QED BY <1>1, <1>5, <2>1, <2>2, <2>3, PutPointerStep
<1>6. QED BY <1>3, <1>4, <1>5 DEF PutPointer, Swap, Give

LEMMA PublicStep == ASSUME IInv, NEW w \in Workers, Public(w) PROVE IInv'
<1> DEFINE x == exec[w]
           y == [x EXCEPT !.pc = "restore"]
<1>1. /\ x.pc = "public" /\ x \in Exec /\ Promoting(x) /\ Unwritten /\ Elsewhere
  BY DEF Public, At, IInv, ExecTyped, Promoting, Storing, Writing
<1>2. CASE Give(w)
  BY <1>1, <1>2, GiveStep
<1>3. CASE Go(w, y)
  <2>1. y \in Exec /\ y.pc = "restore" /\ y.p = x.p /\ y.n = x.n /\ y.mine = x.mine
    BY <1>1 DEF Exec
  <2> HIDE DEF y
  <2>2. ~ Writing(y) /\ Promoting(y)
    BY <2>1 DEF Writing, Storing, Promoting
  <2>3. backend # "local" =>
           Receipted(data, seen, y.p, seen[y.n]) /\ y.mine = data[<<"receipt", y.p>>]
    BY <1>1, <2>1 DEF IInv, Served, ExecSound
  <2>4. QED BY <1>1, <1>3, <2>1, <2>2, <2>3, OnwardStep
<1>4. QED BY <1>2, <1>3 DEF Public

LEMMA RestoreStep == ASSUME IInv, NEW w \in Workers, Restore(w) PROVE IInv'
<1> DEFINE x == exec[w]
           y == [x EXCEPT !.pc = "delete"]
<1>1. /\ x.pc = "restore" /\ x \in Exec /\ Promoting(x) /\ Unwritten /\ Elsewhere
      /\ x.p \in Builds /\ x.n \in 1 .. MaxRuns /\ seen[x.n] # NoPending
  BY DEF Restore, At, IInv, ExecTyped, Promoting, Storing, Writing
<1>2. CASE Give(w)
  BY <1>1, <1>2, GiveStep
<1>3. CASE seen[x.n] # Missing /\ Go(w, Put(x, Pointer, seen[x.n], x.mine))
  <2>1. seen[x.n] \in Content /\ x.mine \in Content \cup {Missing, Broken}
    BY <1>1, <1>3 DEF IInv, TypeOK, Exec
  <2>2. ASSUME backend # "local"
        PROVE  /\ Receipted(data, seen, x.p, seen[x.n]) /\ Led(data, seen[x.n])
               /\ x.mine.by = x.p /\ x.mine \in Content /\ Led(data, x.mine)
    <3>1. Receipted(data, seen, x.p, seen[x.n]) /\ x.mine = data[<<"receipt", x.p>>]
      BY <1>1, <2>2 DEF IInv, Served, ExecSound
    <3>2. Led(data, seen[x.n])
      BY <1>1, <2>2 DEF IInv, Served, Kept
    <3>3. QED BY <3>1, <3>2 DEF Receipted, Led
  <2>3. QED BY <1>1, <1>3, <2>1, <2>2, PutPointerStep
<1>4. CASE Go(w, y)
  <2>1. y \in Exec /\ y.pc = "delete" /\ y.p = x.p /\ y.n = x.n
    BY <1>1 DEF Exec
  <2> HIDE DEF y
  <2>2. ~ Writing(y) /\ Promoting(y)
    BY <2>1 DEF Writing, Storing, Promoting
  <2>3. QED BY <1>1, <1>4, <2>1, <2>2, OnwardStep
<1>5. QED BY <1>2, <1>3, <1>4 DEF Restore, Give

LEMMA DeleteStep == ASSUME IInv, NEW w \in Workers, Delete(w) PROVE IInv'
<1>1. /\ Give(w) /\ Elsewhere /\ Stores(data) /\ Stores(meta)
      /\ data' = [data EXCEPT ![Pointer] = Missing] /\ meta' = [meta EXCEPT ![Pointer] = Missing]
  BY DEF Delete, Written, IInv, TypeOK, Stores
<1>2. Stores(data') /\ Stores(meta') /\ Settings'
  BY <1>1 DEF Stores, IInv, TypeOK, Settings, Elsewhere
<1>3. ASSUME backend # "local"
      PROVE  /\ data' = meta' /\ Objects(data', seen) /\ Grown(data, seen, data', seen)
             /\ Kept(data', seen, pending, link)
  <2>1. Objects(data, seen) /\ data = meta
    BY <1>3 DEF IInv, Served
  <2>2. Objects(data', seen) /\ Grown(data, seen, data', seen)
    BY <1>1, <2>1, PointerWritten DEF Led
  <2>3. QED BY <1>1, <1>3, <2>1, <2>2, KeptLasts DEF IInv, Served
<1>4. QED BY <1>1, <1>2, <1>3, NoExecSound, ExecStep DEF Give, Elsewhere

LEMMA CrashStep == ASSUME IInv, NEW w \in Workers, Crash(w) PROVE IInv'
<1>1. /\ Give(w) /\ UNCHANGED <<backend, required, data, meta, pending, seen, link, runs, visit>>
      /\ Stores(data') /\ Stores(meta')
  BY DEF Crash, IInv, TypeOK, Stores
<1>2. Settings'
  BY PreviewAssumption DEF Crash, IInv, TypeOK, Settings
<1>3. QED BY <1>1, <1>2, NoExecSound, ExecStep DEF Give, IInv, Served, Grown

-----------------------------------------------------------------------------
(* The gateway's steps, and the invariant.                                 *)

LEMMA VisitStep ==
    ASSUME IInv, Behind,
           visit' \in [pc : {"idle", "receipt", "file"}, at : Content \cup {Missing},
                       out : {"none", "unavailable", "not_found"}],
           backend # "local" => VisitSound(visit', data)
    PROVE  IInv'
<1>1. TypeOK'
  BY DEF IInv, TypeOK, Behind
<1>2. backend # "local" => Served'
  BY DEF IInv, Served, Behind
<1>3. QED BY <1>1, <1>2 DEF IInv, Behind

LEMMA AnsweredFacts ==
    ASSUME NEW ok \in BOOLEAN, Answered(ok)
    PROVE  /\ visit' \in [pc : {"idle", "receipt", "file"}, at : Content \cup {Missing},
                          out : {"none", "unavailable", "not_found"}]
           /\ ok => \A d : VisitSound(visit', d)
  BY DEF Answered, See, NoVisit, VisitSound

LEMMA GatewayStep ==
    ASSUME IInv, Visit \/ VisitReceipt \/ VisitFile \/ VisitCandidate
    PROVE  IInv'
<1>1. /\ visit.at \in Content \cup {Missing} /\ visit \in [pc : {"idle", "receipt", "file"},
              at : Content \cup {Missing}, out : {"none", "unavailable", "not_found"}]
      /\ \A k \in Keys : backend # "local" => Read(k) = data[k] /\ Read(k) # Broken
      /\ backend # "local" => Objects(data, seen) /\ Kept(data, seen, pending, link)
      /\ backend # "local" /\ visit.pc # "idle" => visit.at \in Content /\ Led(data, visit.at)
  BY ReadFacts DEF IInv, TypeOK, Served, VisitSound
<1>2. CASE Visit
  <2>1. Read(Pointer) \in Content \cup {Missing, Broken} /\ Read(Pointer) # Missing
    BY <1>2, ReadFacts, KeyFacts DEF Visit
  <2>2. CASE Read(Pointer) = Broken /\ Answered(FALSE)
    BY <1>1, <1>2, <2>2, KeyFacts, AnsweredFacts, VisitStep DEF Visit
  <2>3. CASE Read(Pointer) # Broken /\ See([NoVisit EXCEPT !.pc = "receipt", !.at = Read(Pointer)])
    <3>1. backend # "local" => Led(data, Read(Pointer))
      BY <1>1, KeyFacts DEF Objects
    <3>2. visit' = [pc |-> "receipt", at |-> Read(Pointer), out |-> "none"]
      BY <2>3 DEF See, NoVisit
    <3>3. QED BY <1>2, <2>1, <2>3, <3>1, <3>2, VisitStep DEF Visit, VisitSound
  <2>4. QED BY <1>2, <2>2, <2>3 DEF Visit
<1>3. CASE VisitReceipt
  <2> DEFINE key == <<"receipt", visit.at.by>>
  <2>1. CASE Read(key) = visit.at /\ See([visit EXCEPT !.pc = "file"])
    <3>1. visit' = [visit EXCEPT !.pc = "file"]
      BY <2>1 DEF See
    <3>2. visit'.at = visit.at /\ visit'.pc = "file" /\ visit'.out = visit.out
      BY <1>1, <3>1
    <3>3. visit.pc = "receipt" /\ Behind
      BY <1>3 DEF VisitReceipt, Awaiting
    <3>4. backend # "local" => VisitSound(visit', data)
      BY <1>1, <3>2, <3>3 DEF IInv, Served, VisitSound
    <3>5. QED BY <1>1, <3>1, <3>3, <3>4, VisitStep
  <2>2. CASE Read(key) # visit.at /\ Answered(FALSE)
    <3>1. visit.pc = "receipt" /\ Behind
      BY <1>3 DEF VisitReceipt, Awaiting
    <3>2. backend = "local"
      <4>1. SUFFICES ASSUME backend # "local" PROVE FALSE
        OBVIOUS
      <4>2. visit.at \in Content /\ Led(data, visit.at)
        BY <1>1, <3>1, <4>1
      <4>3. data[key] = visit.at /\ key \in Keys
        BY <4>2, ContentFacts, KeyFacts DEF Led, Lasting
      <4>4. QED BY <1>1, <2>2, <4>1, <4>3
    <3>3. QED BY <2>2, <3>1, <3>2, AnsweredFacts, VisitStep
  <2>3. QED BY <1>3, <2>1, <2>2 DEF VisitReceipt
<1>4. CASE VisitFile
  <2>1. PICK file \in {"index", "asset"} :
          Answered(Read(<<file, visit.at.by>>) = [by |-> visit.at.by, n |-> 0])
    BY <1>4 DEF VisitFile
  <2>2. visit.pc = "file" /\ Behind
    BY <1>4 DEF VisitFile, Awaiting
  <2>3. ASSUME backend # "local"
        PROVE  Read(<<file, visit.at.by>>) = [by |-> visit.at.by, n |-> 0]
    <3>1. visit.at \in Content /\ Led(data, visit.at) /\ visit.at.by \in Builds
      BY <1>1, <2>2, <2>3, ContentFacts
    <3>2. Filed(data, visit.at.by)
      BY <1>1, <2>3, <3>1, ContentFacts DEF Led, Objects
    <3>3. <<file, visit.at.by>> \in Keys
      BY <3>1, KeyFacts DEF Lasting, Stored
    <3>4. QED BY <1>1, <2>3, <3>2, <3>3 DEF Filed, File
  <2>4. QED BY <2>1, <2>2, <2>3, AnsweredFacts, VisitStep
<1>5. CASE VisitCandidate
  <2>1. PICK p \in Builds, file \in {"index", "asset"} :
          /\ link[p] # 0
          /\ IF Read(<<"manifest", p>>) = Broken THEN Answered(FALSE)
             ELSE IF Read(<<"manifest", p>>).n # link[p]
                  THEN See([NoVisit EXCEPT !.out = "not_found"])
             ELSE Answered(Read(<<file, p>>) = [by |-> p, n |-> 0])
    BY <1>5 DEF VisitCandidate
  <2>2. Behind
    BY <1>5 DEF VisitCandidate
  <2>3. ASSUME backend # "local"
        PROVE  Answered(TRUE)
    <3>1. /\ <<"manifest", p>> \in Keys /\ <<file, p>> \in Keys
          /\ data[<<"manifest", p>>] = [by |-> p, n |-> link[p]]
      BY <1>1, <2>1, <2>3, KeyFacts DEF Kept, Lasting, Stored
    <3>2. Filed(data, p)
      BY <1>1, <2>3, <3>1, PreviewAssumption DEF Objects, Missing
    <3>3. Read(<<file, p>>) = [by |-> p, n |-> 0]
      BY <1>1, <2>3, <3>1, <3>2 DEF Filed, File
    <3>4. Read(<<"manifest", p>>).n = link[p] /\ Read(<<"manifest", p>>) # Broken
      BY <1>1, <2>3, <3>1
    <3>5. QED BY <2>1, <3>3, <3>4
  <2>4. visit' \in [pc : {"idle", "receipt", "file"}, at : Content \cup {Missing},
                    out : {"none", "unavailable", "not_found"}]
    BY <2>1 DEF Answered, See, NoVisit
  <2>5. QED BY <2>2, <2>3, <2>4, AnsweredFacts, VisitStep
<1>6. QED BY <1>2, <1>3, <1>4, <1>5

LEMMA InitHolds == Init => IInv
<1> SUFFICES ASSUME Init PROVE IInv
  OBVIOUS
<1>1. \A w \in Workers : exec[w] = NoExec
  BY DEF Init
<1>2. NoExec \in Exec /\ NoExec.pc = "idle"
  BY NoExecSound DEF ExecTyped, NoExec
<1>3. TypeOK
  BY <1>2, PreviewAssumption DEF Init, TypeOK, NoPending, Missing, Broken, NoVisit
<1>4. \A w \in Workers : ExecTyped(exec[w], seen) /\ ExecSound(exec[w], data, seen)
  BY <1>1, NoExecSound
<1>5. Numbered(exec, seen, runs)
  BY <1>1, <1>2 DEF Init, Numbered, Storing, Writing
<1>6. Objects(data, seen) /\ Kept(data, seen, pending, link)
  <2>1. \A k \in Keys : data[k] = Missing
    BY DEF Init
  <2>2. QED BY <2>1, KeyFacts DEF Init, Objects, Kept, Led, Lasting, Stored
<1>7. VisitSound(visit, data) /\ data = meta
  BY DEF Init, VisitSound, NoVisit
<1>8. QED BY <1>3, <1>4, <1>5, <1>6, <1>7 DEF IInv, Served

LEMMA NextHolds == IInv /\ [Next]_vars => IInv'
<1> SUFFICES ASSUME IInv, [Next]_vars PROVE IInv'
  OBVIOUS
<1>1. ASSUME NEW w \in Workers, Step(w) PROVE IInv'
  BY <1>1, CheckStep, WriteStep, FinishStep, ReadbackStep, BeginStep, CreatePendingStep,
     ReceiptStep, IndexStep, SwapStep, PublicStep, RestoreStep, DeleteStep, CrashStep DEF Step
<1>2. CASE Visit \/ VisitReceipt \/ VisitFile \/ VisitCandidate
  BY <1>2, GatewayStep
<1>3. CASE UNCHANGED vars
  BY <1>3 DEF vars, IInv, TypeOK, Served
<1>4. QED BY <1>1, <1>2, <1>3 DEF Next

LEMMA PreviewInvariant == Spec => []IInv
  BY InitHolds, NextHolds, PTL DEF Spec

\* Every object, execution and request keeps its type on every backend, the local
\* one with its torn objects included.
THEOREM PreviewTypes == Spec => []TypeOK
<1>1. IInv => TypeOK
  BY DEF IInv
<1>2. QED BY <1>1, PreviewInvariant, PTL

\* Whatever executions overlap, fail and are repeated, a pointer that the gateway
\* has read leads to its receipt and its build's files, and a link to its candidate;
\* on any backend but the local one.
THEOREM PublishedServed == Spec => []PublishedIsServed
<1>1. IInv => PublishedIsServed
  BY DEF IInv, Served, VisitSound, PublishedIsServed
<1>2. QED BY <1>1, PreviewInvariant, PTL

-----------------------------------------------------------------------------
(* How the pointer moves.                                                  *)

MovesAsSeen ==
    LET before == Read(Pointer)
        after == Read(Pointer)'
    IN  (backend # "local" /\ after # before) =>
          \/ after = Missing
          \/ seen[after.n] = before
          \/ before # Missing /\ seen[before.n] = after

\* Only a write that found what it expects, or a deletion, moves the pointer.
LEMMA PointerMoves ==
    ASSUME IInv, NEW w \in Workers, Writing(exec[w]), exec[w].pc # "readback",
           backend # "local", Read(exec[w].key) = Expected(exec[w]),
           Written(exec[w].key, exec[w].want)
    PROVE  MovesAsSeen
<1> DEFINE x == exec[w]
<1>1. /\ ExecSound(x, data, seen) /\ ExecTyped(x, seen) /\ x.key \in Keys /\ x.want \in Content
      /\ x.p \in Builds /\ x.n \in 1 .. MaxRuns
  BY DEF IInv, Served, ExecTyped, Exec, Writing
<1>2. data' = [data EXCEPT ![x.key] = x.want] /\ meta' = [meta EXCEPT ![x.key] = x.want]
  BY DEF Written
<1>3. CASE x.key # Pointer
  <2>1. data'[Pointer] = data[Pointer] /\ meta'[Pointer] = meta[Pointer]
    BY <1>2, <1>3, KeyFacts DEF IInv, TypeOK
  <2>2. Read(Pointer)' = Read(Pointer)
    BY <2>1 DEF Read
  <2>3. QED BY <2>2 DEF MovesAsSeen
<1>4. CASE x.key = Pointer
  <2>1. data'[Pointer] = x.want /\ meta'[Pointer] = x.want
    BY <1>1, <1>2, <1>4 DEF IInv, TypeOK
  <2>2. Read(Pointer)' = x.want
    BY <1>1, <2>1, ContentFacts DEF Read
  <2>3. Receipted(data, seen, x.p, seen[x.n]) /\ Led(data, x.want) /\ seen[x.n] # NoPending
    BY <1>1, <1>4 DEF ExecSound, WritesPointer, ExecTyped, Promoting, Storing, Writing,
                      Stored, Pointer
  <2>4. CASE x.cond = seen[x.n] /\ x.want.by = x.p
    <3>1. Read(Pointer) = x.cond
      BY <1>4, <2>3, <2>4, ContentFacts DEF Expected
    <3>2. x.want = data[<<"receipt", x.p>>]
      BY <1>1, <2>3, <2>4, ContentFacts DEF Led
    <3>3. seen[x.want.n] = x.cond
      BY <2>3, <2>4, <3>2 DEF Receipted
    <3>4. QED BY <2>2, <3>1, <3>3 DEF MovesAsSeen
  <2>5. CASE x.want = seen[x.n] /\ x.cond.by = x.p /\ x.cond \in Content /\ Led(data, x.cond)
    <3>1. Read(Pointer) = x.cond /\ x.cond # Missing
      BY <1>4, <2>5, ContentFacts DEF Expected
    <3>2. x.cond = data[<<"receipt", x.p>>]
      BY <2>5, ContentFacts DEF Led
    <3>3. seen[x.cond.n] = x.want
      BY <2>3, <2>5, <3>2 DEF Receipted
    <3>4. QED BY <2>2, <3>1, <3>3 DEF MovesAsSeen
  <2>6. QED BY <1>1, <1>4, <2>4, <2>5 DEF ExecSound, WritesPointer
<1>5. QED BY <1>3, <1>4

LEMMA StepMoves == IInv /\ [Next]_vars => [MovesAsSeen]_<<data, meta>>
<1> SUFFICES ASSUME IInv, [Next]_vars, ~ UNCHANGED <<data, meta>>, backend # "local"
             PROVE  MovesAsSeen
  BY DEF MovesAsSeen
<1>1. ASSUME NEW w \in Workers, Check(w) \/ Write(w) PROVE MovesAsSeen
  <2>1. Writing(exec[w]) /\ exec[w].pc # "readback"
    BY <1>1 DEF Check, Write, At, Writing
  <2>2. Read(exec[w].key) = Expected(exec[w]) /\ Written(exec[w].key, exec[w].want)
    BY <1>1 DEF Check, Write, Allows, Expected, Unwritten
  <2>3. QED BY <2>1, <2>2, PointerMoves
<1>2. ASSUME NEW w \in Workers, Delete(w) PROVE MovesAsSeen
  <2>1. data'[Pointer] = Missing
    BY <1>2, KeyFacts DEF Delete, Written, IInv, TypeOK
  <2>2. Read(Pointer)' = Missing
    BY <2>1 DEF Read
  <2>3. QED BY <2>2 DEF MovesAsSeen
<1>3. ASSUME NEW w \in Workers, Step(w), ~ (Check(w) \/ Write(w) \/ Delete(w))
      PROVE  FALSE
  BY <1>3 DEF Step, Finish, Readback, Begin, CreatePending, Receipt, Index, PutPointer, Public,
              Restore, Crash, Unwritten, Give, Go
<1>4. CASE Visit \/ VisitReceipt \/ VisitFile \/ VisitCandidate
  BY <1>4 DEF Visit, VisitReceipt, VisitFile, VisitCandidate, Behind
<1>5. QED BY <1>1, <1>2, <1>3, <1>4 DEF Next, vars

\* The receipts tell the pointer's history, for any number of builds, processes,
\* executions and faults, on any backend but the local one: no promotion replaces a
\* pointer that its receipt does not name.
THEOREM PointerMovesAsReceiptsSay == Spec => PointerMovesAsSeen
<1>1. IInv /\ [Next]_vars => [LET before == Read(Pointer)
                                  after == Read(Pointer)'
                              IN  (backend # "local" /\ after # before) =>
                                    \/ after = Missing
                                    \/ seen[after.n] = before
                                    \/ before # Missing /\ seen[before.n] = after]_<<data, meta>>
  BY StepMoves DEF MovesAsSeen
<1>2. QED BY <1>1, PreviewInvariant, PTL DEF Spec, PointerMovesAsSeen

=============================================================================
