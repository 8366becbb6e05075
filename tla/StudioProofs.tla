---------------------------- MODULE StudioProofs ----------------------------
(***************************************************************************)
(* Proofs about Studio, for every number of builds, of restores, of rows   *)
(* kept and of faults, and for every content and page.                     *)
(***************************************************************************)
EXTENDS Studio, TLAPS

-----------------------------------------------------------------------------
(* Rows.                                                                    *)

Numbers == 1 .. MaxBuilds + MaxRestores

\* Two rows that say the same of the page.
SamePage(row, other) ==
    /\ row.seq = other.seq /\ row.num = other.num /\ row.content = other.content
    /\ row.hid = other.hid /\ row.shown = other.shown /\ row.seen = other.seen

\* What each change of a row leaves of it.
LEMMA AnnouncedRow ==
    ASSUME NEW row \in Version, NEW s \in OpenStatus
    PROVE  /\ Announced(row, s) \in Version /\ SamePage(Announced(row, s), row)
           /\ Announced(row, s).restricted = row.restricted
           /\ Announced(row, s).status = IF row.status \in OpenStatus THEN s ELSE row.status
  BY DEF Announced, SamePage, Version, OpenStatus, EndStatus

LEMMA BrokenRow ==
    ASSUME NEW row \in Version, NEW s \in {"failed", "cancelled"}
    PROVE  /\ Broken(row, s) \in Version /\ SamePage(Broken(row, s), row)
           /\ Broken(row, s).restricted = row.restricted
           /\ Broken(row, s).status =
                IF row.status \in {"ready", "none", "deleted"} THEN row.status ELSE s
  BY DEF Broken, SamePage, Version, EndStatus

LEMMA RestrictedRow ==
    ASSUME NEW row \in Version, NEW hidden, hidden = [row EXCEPT !.restricted = TRUE]
    PROVE  /\ hidden \in Version /\ SamePage(hidden, row)
           /\ hidden.restricted /\ hidden.status = row.status
  BY DEF SamePage, Version

\* The rows that are nobody's.
LEMMA EmptyRows ==
    /\ NoVersion \in Version /\ NoVersion.status = "none"
    /\ Deleted \in Version /\ Deleted.status = "deleted"
<1>1. Approved \in Contents
  BY StudioAssumption DEF Contents
<1>2. QED BY <1>1 DEF NoVersion, Deleted, Version

\* The row that a build begins with.
LEMMA FreshRow ==
    ASSUME NEW seq \in Numbers, NEW content \in Contents, NEW hid \in SUBSET STRING
    PROVE  /\ Fresh(content, hid, seq) \in Version
           /\ Fresh(content, hid, seq).status = "generating"
           /\ ~ Fresh(content, hid, seq).restricted
           /\ Fresh(content, hid, seq).seq = seq /\ Fresh(content, hid, seq).content = content
<1>1. seq \in Nat
  BY StudioAssumption DEF Numbers
<1>2. QED BY <1>1 DEF Fresh, NoVersion, Version, OpenStatus

\* A page that goes live after a build.
LEMMA MadeReadyRow ==
    ASSUME NEW row \in Version, NEW num \in Numbers,
           NEW page, page.shown \in SUBSET STRING,
           NEW seen \in {"not_run", "passed", "unavailable"},
           NEW live, live = MadeReady(row, num, page, seen)
    PROVE  /\ live \in Version /\ live.status = "ready" /\ live.num = num
           /\ live.seq = row.seq /\ live.restricted = row.restricted
           /\ live.content = row.content /\ live.hid = row.hid
           /\ live.shown = page.shown /\ live.seen = seen
<1>1. num \in Nat
  BY StudioAssumption DEF Numbers
<1>2. QED BY <1>1 DEF MadeReady, Version, EndStatus

\* A page that goes live as the copy of an earlier one.
LEMMA CopiedRow ==
    ASSUME NEW row \in Version, NEW seq \in Numbers, NEW num \in Numbers,
           NEW live, live = Copied(row, seq, num)
    PROVE  /\ live \in Version /\ live.status = "ready" /\ live.num = num
           /\ live.seq = seq /\ ~ live.restricted /\ live.hid = {}
           /\ live.content = row.content /\ live.shown = row.shown /\ live.seen = row.seen
<1>1. seq \in Nat /\ num \in Nat
  BY StudioAssumption DEF Numbers
<1>2. QED BY <1>1 DEF Copied, NoVersion, Version, EndStatus

-----------------------------------------------------------------------------
(* The book: the session, the rows, the runs and the tasks.                 *)

RunStatus == {"none", "pending", "running", "succeeded", "failed", "cancelled"}

BookTyped(s, w, q, t) ==
    /\ s \in Session /\ w \in [Versions -> Version]
    /\ q \in [Builds -> RunStatus] /\ t \in [Builds -> Task]

\* A session has a page unless it never had one, and a change has a page to
\* change.
SessionSound(s, t) ==
    /\ s.status = "build_running" <=> s.flight # 0
    /\ s.status = "ready" => s.active # 0
    /\ s.status \in {"not_started", "needs_attention"} => s.active = 0
    /\ s.flight # 0 => (t[s.flight].op = "change" => s.active # 0)
    /\ s.active = 0 <=> s.number = 0

\* The live page can be served and is the newest page by both its counters.
LiveSound(s, w) ==
    s.active # 0 =>
      /\ w[s.active].status = "ready" /\ ~ w[s.active].restricted /\ w[s.active].num = s.number
      /\ \A v \in Versions \ {s.active} :
            w[v].status = "ready" => w[v].seq < w[s.active].seq /\ w[v].num < s.number

\* A row that is being built is the newest row, and of the build in flight.
OpenSound(s, w) ==
    \A v \in Versions :
        w[v].status \in OpenStatus =>
          /\ s.flight = v /\ ~ w[v].restricted
          /\ \A u \in Versions \ {v} : IsRow(w[u]) => w[u].seq < w[v].seq

\* What run and row of a build tell each other.
RunSound(s, w, q, t, r) ==
    /\ t[r].op = "none" => q[r] = "none" /\ w[r].status = "none" /\ s.flight # r
    /\ s.flight = r => q[r] \in {"pending", "running"}
                       /\ w[r].status \in {"none"} \cup OpenStatus
    /\ w[r].status = "ready" => q[r] = "succeeded"
    /\ w[r].status = "failed" => q[r] = "failed"
    /\ w[r].status = "cancelled" => q[r] = "cancelled"

Book(s, w, q, t) ==
    /\ BookTyped(s, w, q, t) /\ SessionSound(s, t) /\ LiveSound(s, w) /\ OpenSound(s, w)
    /\ \A r \in Builds : RunSound(s, w, q, t, r)

LEMMA BuildsAreVersions ==
    /\ Builds \subseteq Versions /\ Restores \subseteq Versions /\ Builds \cap Restores = {}
    /\ 0 \notin Versions
  BY StudioAssumption DEF Builds, Restores, Versions

\* A build that ends without a page, however it ends.
LEMMA EndedBook ==
    ASSUME NEW s, NEW w, NEW q, NEW t, Book(s, w, q, t),
           NEW r \in Builds, s.flight = r, NEW x \in {"failed", "cancelled"}
    PROVE  Book(Failed(s), [w EXCEPT ![r] = Broken(@, x)], [q EXCEPT ![r] = x], t)
<1> DEFINE s1 == Failed(s)
           w1 == [w EXCEPT ![r] = Broken(@, x)]
           q1 == [q EXCEPT ![r] = x]
<1>1. /\ s1 \in Session /\ s1.flight = 0 /\ s1.active = s.active /\ s1.number = s.number
      /\ s1.status = IF s.active # 0 THEN "ready" ELSE "needs_attention"
  BY DEF Book, BookTyped, Failed, Session, StudioStatus
<1>2. w[r].status \in {"none"} \cup OpenStatus /\ q[r] \in {"pending", "running"}
  BY DEF Book, RunSound
<1>3. r \in Versions /\ w[r] \in Version
  BY BuildsAreVersions DEF Book, BookTyped
<1>4. /\ w1 \in [Versions -> Version] /\ SamePage(w1[r], w[r])
      /\ w1[r].restricted = w[r].restricted
      /\ w1[r].status = IF w[r].status = "none" THEN "none" ELSE x
      /\ \A v \in Versions \ {r} : w1[v] = w[v]
  <2>1. /\ Broken(w[r], x) \in Version /\ SamePage(Broken(w[r], x), w[r])
        /\ Broken(w[r], x).restricted = w[r].restricted
        /\ Broken(w[r], x).status =
             IF w[r].status \in {"ready", "none", "deleted"} THEN w[r].status ELSE x
    BY <1>3, BrokenRow
  <2>2. w \in [Versions -> Version] /\ w1[r] = Broken(w[r], x)
    BY <1>3 DEF Book, BookTyped
  <2>3. QED BY <1>2, <1>3, <2>1, <2>2 DEF OpenStatus
<1>5. q1 \in [Builds -> RunStatus] /\ q1[r] = x /\ \A p \in Builds \ {r} : q1[p] = q[p]
  BY DEF Book, BookTyped, RunStatus
<1>6. BookTyped(s1, w1, q1, t)
  BY <1>1, <1>4, <1>5 DEF Book, BookTyped
<1>7. SessionSound(s1, t)
  BY <1>1 DEF Book, SessionSound
<1>8. LiveSound(s1, w1)
  <2>1. w[r].status # "ready" /\ w1[r].status # "ready"
    BY <1>2, <1>4 DEF OpenStatus
  <2>2. QED BY <1>1, <1>4, <2>1 DEF Book, LiveSound
<1>9. OpenSound(s1, w1)
  BY <1>1, <1>2, <1>3, <1>4 DEF Book, OpenSound, OpenStatus
<1>10. ASSUME NEW p \in Builds PROVE RunSound(s1, w1, q1, t, p)
  <2>1. RunSound(s, w, q, t, p) /\ p \in Versions
    BY BuildsAreVersions DEF Book
  <2>2. CASE p = r
    BY <1>1, <1>2, <1>4, <1>5, <2>1, <2>2, BuildsAreVersions DEF RunSound, OpenStatus
  <2>3. CASE p # r
    BY <1>1, <1>4, <1>5, <2>1, <2>3, BuildsAreVersions DEF RunSound
  <2>4. QED BY <2>2, <2>3
<1>11. QED BY <1>6, <1>7, <1>8, <1>9, <1>10 DEF Book

\* A build or a change that begins, when none is in flight.
LEMMA LaunchedBook ==
    ASSUME NEW s, NEW w, NEW q, NEW t, Book(s, w, q, t),
           NEW r \in Builds, t[r].op = "none", s.status # "build_running",
           NEW op \in {"build", "change"}, op = "change" => s.active # 0,
           NEW base \in Contents
    PROVE  Book([s EXCEPT !.status = "build_running", !.flight = r], w,
                [q EXCEPT ![r] = "pending"], [t EXCEPT ![r] = [op |-> op, base |-> base]])
<1> DEFINE s1 == [s EXCEPT !.status = "build_running", !.flight = r]
           q1 == [q EXCEPT ![r] = "pending"]
           t1 == [t EXCEPT ![r] = [op |-> op, base |-> base]]
<1>1. /\ s1 \in Session /\ s1.flight = r /\ s1.active = s.active /\ s1.number = s.number
      /\ s1.status = "build_running" /\ r # 0 /\ s.flight = 0
  BY BuildsAreVersions DEF Book, BookTyped, SessionSound, Session, StudioStatus, Builds
<1>2. q1 \in [Builds -> RunStatus] /\ q1[r] = "pending" /\ \A p \in Builds \ {r} : q1[p] = q[p]
  BY DEF Book, BookTyped, RunStatus
<1>3. /\ t1 \in [Builds -> Task] /\ t1[r].op = op
      /\ \A p \in Builds \ {r} : t1[p] = t[p]
  BY DEF Book, BookTyped, Task
<1>4. BookTyped(s1, w, q1, t1)
  BY <1>1, <1>2, <1>3 DEF Book, BookTyped
<1>5. SessionSound(s1, t1)
  BY <1>1, <1>3 DEF Book, SessionSound
<1>6. LiveSound(s1, w)
  BY <1>1 DEF Book, LiveSound
<1>7. OpenSound(s1, w)
  BY <1>1, BuildsAreVersions DEF Book, OpenSound
<1>8. ASSUME NEW p \in Builds PROVE RunSound(s1, w, q1, t1, p)
  <2>1. RunSound(s, w, q, t, p)
    BY DEF Book
  <2>2. CASE p = r
    BY <1>1, <1>2, <1>3, <2>1, <2>2 DEF RunSound
  <2>3. CASE p # r
    BY <1>1, <1>2, <1>3, <2>1, <2>3 DEF RunSound
  <2>4. QED BY <2>2, <2>3
<1>9. QED BY <1>4, <1>5, <1>6, <1>7, <1>8 DEF Book

\* The row of the build in flight, the newest of all.
LEMMA NewRowBook ==
    ASSUME NEW s, NEW w, NEW q, NEW t, Book(s, w, q, t),
           NEW r \in Builds, s.flight = r, w[r].status = "none",
           NEW row \in Version, row.status = "generating", ~ row.restricted,
           \A v \in Versions : IsRow(w[v]) => w[v].seq < row.seq,
           NEW q1, q1 = q \/ q1 = [q EXCEPT ![r] = "running"]
    PROVE  Book(s, [w EXCEPT ![r] = row], q1, t)
<1> DEFINE w1 == [w EXCEPT ![r] = row]
<1>1. r \in Versions
  BY BuildsAreVersions
<1>2. /\ w1 \in [Versions -> Version] /\ w1[r] = row
      /\ \A v \in Versions \ {r} : w1[v] = w[v]
  BY <1>1 DEF Book, BookTyped
<1>3. /\ q1 \in [Builds -> RunStatus] /\ \A p \in Builds \ {r} : q1[p] = q[p]
      /\ q1[r] \in {"pending", "running"}
  BY DEF Book, BookTyped, RunSound, RunStatus
<1>4. BookTyped(s, w1, q1, t)
  BY <1>2, <1>3 DEF Book, BookTyped
<1>5. LiveSound(s, w1)
  BY <1>1, <1>2 DEF Book, LiveSound
<1>6. OpenSound(s, w1)
  BY <1>1, <1>2 DEF Book, OpenSound
<1>7. ASSUME NEW p \in Builds PROVE RunSound(s, w1, q1, t, p)
  <2>1. RunSound(s, w, q, t, p) /\ p \in Versions
    BY BuildsAreVersions DEF Book
  <2>2. CASE p = r
    BY <1>2, <1>3, <2>1, <2>2 DEF RunSound, OpenStatus
  <2>3. CASE p # r
    BY <1>2, <1>3, <2>1, <2>3 DEF RunSound
  <2>4. QED BY <2>2, <2>3
<1>8. QED BY <1>4, <1>5, <1>6, <1>7 DEF Book

\* A progress report.
LEMMA MarkedBook ==
    ASSUME NEW s, NEW w, NEW q, NEW t, Book(s, w, q, t),
           NEW r \in Builds, NEW stage \in OpenStatus
    PROVE  Book(s, [w EXCEPT ![r] = Announced(@, stage)], q, t)
<1> DEFINE w1 == [w EXCEPT ![r] = Announced(@, stage)]
<1>1. r \in Versions /\ w[r] \in Version
  BY BuildsAreVersions DEF Book, BookTyped
<1>2. /\ Announced(w[r], stage) \in Version /\ SamePage(Announced(w[r], stage), w[r])
      /\ Announced(w[r], stage).restricted = w[r].restricted
      /\ Announced(w[r], stage).status =
           IF w[r].status \in OpenStatus THEN stage ELSE w[r].status
  BY <1>1, AnnouncedRow
<1>3. /\ w1 \in [Versions -> Version] /\ w1[r] = Announced(w[r], stage)
      /\ \A v \in Versions \ {r} : w1[v] = w[v]
  BY <1>1, <1>2 DEF Book, BookTyped
<1>4. BookTyped(s, w1, q, t)
  BY <1>3 DEF Book, BookTyped
<1>5. LiveSound(s, w1)
  BY <1>1, <1>2, <1>3 DEF Book, LiveSound, SamePage, OpenStatus
<1>6. OpenSound(s, w1)
  BY <1>1, <1>2, <1>3 DEF Book, OpenSound, SamePage, OpenStatus, IsRow
<1>7. ASSUME NEW p \in Builds PROVE RunSound(s, w1, q, t, p)
  BY <1>1, <1>2, <1>3, BuildsAreVersions DEF Book, RunSound, OpenStatus
<1>8. QED BY <1>4, <1>5, <1>6, <1>7 DEF Book

\* A change that the interpreter answers in words.
LEMMA RepliedBook ==
    ASSUME NEW s, NEW w, NEW q, NEW t, Book(s, w, q, t),
           NEW r \in Builds, s.flight = r, w[r].status = "none", t[r].op = "change"
    PROVE  Book([s EXCEPT !.status = "ready", !.flight = 0], w,
                [q EXCEPT ![r] = RunSucceeded(@)], t)
<1> DEFINE s1 == [s EXCEPT !.status = "ready", !.flight = 0]
           q1 == [q EXCEPT ![r] = RunSucceeded(@)]
<1>1. /\ s1 \in Session /\ s1.flight = 0 /\ s1.active = s.active /\ s1.number = s.number
      /\ s1.status = "ready" /\ r # 0 /\ s.active # 0
  BY BuildsAreVersions DEF Book, BookTyped, SessionSound, Session, StudioStatus, Builds
<1>2. q1 \in [Builds -> RunStatus] /\ \A p \in Builds \ {r} : q1[p] = q[p]
  BY DEF Book, BookTyped, RunStatus, RunSucceeded
<1>3. BookTyped(s1, w, q1, t)
  BY <1>1, <1>2 DEF Book, BookTyped
<1>4. SessionSound(s1, t)
  BY <1>1 DEF Book, SessionSound
<1>5. LiveSound(s1, w)
  BY <1>1 DEF Book, LiveSound
<1>6. OpenSound(s1, w)
  BY <1>1, BuildsAreVersions DEF Book, OpenSound, OpenStatus
<1>7. ASSUME NEW p \in Builds PROVE RunSound(s1, w, q1, t, p)
  <2>1. RunSound(s, w, q, t, p) /\ p # 0
    BY BuildsAreVersions DEF Book
  <2>2. CASE p = r
    BY <1>1, <2>1, <2>2 DEF RunSound, Book, SessionSound
  <2>3. CASE p # r
    BY <1>1, <1>2, <2>1, <2>3 DEF RunSound
  <2>4. QED BY <2>2, <2>3
<1>8. QED BY <1>3, <1>4, <1>5, <1>6, <1>7 DEF Book

\* A page goes live: that of the build in flight, or, when there is none, a
\* copy of an earlier one.
LEMMA LiveRowBook ==
    ASSUME NEW s, NEW w, NEW q, NEW t, Book(s, w, q, t),
           NEW v \in Versions, NEW n \in Numbers,
           NEW live \in Version, live.status = "ready", live.num = n, ~ live.restricted,
           \A u \in Versions \ {v} : IsRow(w[u]) => w[u].seq < live.seq /\ w[u].num < n,
           NEW q1, \/ v \in Builds /\ s.flight = v /\ q1 = [q EXCEPT ![v] = RunSucceeded(@)]
                   \/ v \in Restores /\ s.flight = 0 /\ q1 = q
    PROVE  Book([status |-> "ready", active |-> v, number |-> n, flight |-> 0],
                [w EXCEPT ![v] = live], q1, t)
<1> DEFINE s1 == [status |-> "ready", active |-> v, number |-> n, flight |-> 0]
           w1 == [w EXCEPT ![v] = live]
<1>1. s1 \in Session /\ n \in Nat /\ n # 0 /\ v # 0
  BY StudioAssumption, BuildsAreVersions DEF Session, StudioStatus, Numbers
<1>2. /\ w1 \in [Versions -> Version] /\ w1[v] = live
      /\ \A u \in Versions \ {v} : w1[u] = w[u]
  BY DEF Book, BookTyped
<1>3. /\ q1 \in [Builds -> RunStatus] /\ \A p \in Builds \ {v} : q1[p] = q[p]
      /\ v \in Builds => q1[v] = "succeeded"
  <2>1. CASE v \in Builds /\ s.flight = v /\ q1 = [q EXCEPT ![v] = RunSucceeded(@)]
    BY <2>1 DEF Book, BookTyped, RunSound, RunStatus, RunSucceeded
  <2>2. CASE v \in Restores /\ s.flight = 0 /\ q1 = q
    BY <2>2, BuildsAreVersions DEF Book, BookTyped
  <2>3. QED BY <2>1, <2>2
<1>4. BookTyped(s1, w1, q1, t)
  BY <1>1, <1>2, <1>3 DEF Book, BookTyped
<1>5. SessionSound(s1, t)
  BY <1>1 DEF SessionSound
<1>6. LiveSound(s1, w1)
  BY <1>2 DEF LiveSound, IsRow
<1>7. \A u \in Versions \ {v} : w[u].status \notin OpenStatus
  BY BuildsAreVersions DEF Book, OpenSound
<1>8. OpenSound(s1, w1)
  BY <1>2, <1>7 DEF OpenSound, OpenStatus
<1>9. ASSUME NEW p \in Builds PROVE RunSound(s1, w1, q1, t, p)
  <2>1. RunSound(s, w, q, t, p) /\ p # 0 /\ p \in Versions
    BY BuildsAreVersions DEF Book
  <2>2. CASE p = v
    BY <1>2, <1>3, <2>1, <2>2, BuildsAreVersions DEF RunSound
  <2>3. CASE p # v
    BY <1>2, <1>3, <2>1, <2>3 DEF RunSound
  <2>4. QED BY <2>2, <2>3
<1>10. QED BY <1>4, <1>5, <1>6, <1>8, <1>9 DEF Book

\* Older pages are restricted: any but the live one.
LEMMA RestrictedBook ==
    ASSUME NEW s, NEW w, NEW q, NEW t, Book(s, w, q, t),
           NEW old \in SUBSET Versions,
           \A v \in old : w[v].status = "ready" /\ v # s.active
    PROVE  /\ Book(s, Restricted(w, old), q, t)
           /\ \A v \in Versions :
                /\ SamePage(Restricted(w, old)[v], w[v])
                /\ Restricted(w, old)[v].status = w[v].status
                /\ Restricted(w, old)[v].restricted = (w[v].restricted \/ v \in old)
<1> DEFINE w1 == Restricted(w, old)
<1>1. w \in [Versions -> Version]
  BY DEF Book, BookTyped
<1>2. ASSUME NEW v \in Versions
      PROVE  /\ w1[v] \in Version /\ SamePage(w1[v], w[v]) /\ w1[v].status = w[v].status
             /\ w1[v].restricted = (w[v].restricted \/ v \in old)
  <2>1. w[v] \in Version /\ w[v].restricted \in BOOLEAN
    BY <1>1 DEF Version
  <2>2. CASE v \in old
    <3>1. w1[v] = [w[v] EXCEPT !.restricted = TRUE]
      BY <1>1, <2>2 DEF Restricted
    <3>2. QED BY <2>1, <2>2, <3>1, RestrictedRow
  <2>3. CASE v \notin old
    BY <1>1, <2>1, <2>3 DEF Restricted, SamePage
  <2>4. QED BY <2>2, <2>3
<1>3. w1 \in [Versions -> Version]
  BY <1>1, <1>2 DEF Restricted
<1>4. BookTyped(s, w1, q, t)
  BY <1>3 DEF Book, BookTyped
<1>5. LiveSound(s, w1)
  <2>1. s.active # 0 => s.active \in Versions
    BY DEF Book, BookTyped, Session
  <2>2. QED BY <1>2, <2>1 DEF Book, LiveSound, SamePage
<1>6. OpenSound(s, w1)
  BY <1>2 DEF Book, OpenSound, SamePage, IsRow, OpenStatus
<1>7. ASSUME NEW p \in Builds PROVE RunSound(s, w1, q, t, p)
  BY <1>2, BuildsAreVersions DEF Book, RunSound
<1>8. Book(s, w1, q, t)
  BY <1>4, <1>5, <1>6, <1>7 DEF Book
<1>9. QED BY <1>2, <1>8

\* Rows that ended are deleted: any but the live page.
LEMMA DeletedBook ==
    ASSUME NEW s, NEW w, NEW q, NEW t, Book(s, w, q, t),
           NEW doomed \in SUBSET Versions,
           \A v \in doomed : v # s.active /\ w[v].status \notin OpenStatus \cup {"none"}
    PROVE  /\ Book(s, Without(w, doomed), q, t)
           /\ \A v \in Versions : Without(w, doomed)[v] = IF v \in doomed THEN Deleted ELSE w[v]
<1> DEFINE w1 == Without(w, doomed)
<1>1. Deleted \in Version /\ Deleted.status = "deleted"
  BY EmptyRows
<1>2. /\ w1 \in [Versions -> Version]
      /\ \A v \in Versions : w1[v] = IF v \in doomed THEN Deleted ELSE w[v]
  BY <1>1 DEF Book, BookTyped, Without
<1>3. BookTyped(s, w1, q, t)
  BY <1>2 DEF Book, BookTyped
<1>4. LiveSound(s, w1)
  <2>1. s.active # 0 => s.active \in Versions
    BY DEF Book, BookTyped, Session
  <2>2. QED BY <1>1, <1>2, <2>1 DEF Book, LiveSound
<1>5. OpenSound(s, w1)
  BY <1>1, <1>2 DEF Book, OpenSound, IsRow, OpenStatus
<1>6. ASSUME NEW p \in Builds PROVE RunSound(s, w1, q, t, p)
  BY <1>1, <1>2, BuildsAreVersions DEF Book, RunSound
<1>7. Book(s, w1, q, t)
  BY <1>3, <1>4, <1>5, <1>6 DEF Book
<1>8. QED BY <1>2, <1>7

-----------------------------------------------------------------------------
(* The executions.                                                          *)

PCs == {"none", "open", "enter", "interpret", "reply", "create", "announce", "mark",
        "work", "promote", "record", "settle", "hook"}

\* Before the build's row is made, while the page is made, and after.
Early == {"open", "enter", "interpret", "reply", "create"}
Busy == {"announce", "mark", "work"}
Late == {"record", "settle", "hook"}

JobStatus == {"absent", "queued", "running", "succeeded", "failed", "cancelled"}

\* What a browser may have said of a page that is promoted.
Verdicts(browser) == IF browser = "off" THEN {"not_run"} ELSE Sights[browser] \ {"failed"}

\* An execution belongs to a job that was claimed; it makes the row of its
\* build, builds the content the row names, and holds, after each stage, a
\* page that passed the stage.
Working(e, j, op, row, st) ==
    /\ op = "none" => j = "absent"
    /\ j \in {"absent", "queued"} =>
         e.pc = "none" /\ e.stage = "generating" /\ row.status = "none"
    /\ e.pc \in Early => e.stage = "generating" /\ row.status = "none"
    /\ e.pc \in {"interpret", "reply", "create"} => op = "change"
    /\ e.pc \in Busy \cup {"promote"} /\ row.status \in OpenStatus => row.content = e.content
    /\ e.pc \in Busy /\ e.stage # "generating" => e.page \in Pages(st.theme, e.content)
    /\ e.pc \in Busy /\ e.stage = "verifying" => e.page.failed = "no" /\ st.browser # "off"
    /\ e.pc = "promote" => /\ e.page \in Pages(st.theme, e.content) /\ e.page.failed = "no"
                           /\ e.seen \in Verdicts(st.browser)
    /\ e.pc = "settle" => e.out # "none"

\* A step of an execution, with all else as it was.
Stepped(f, e, pc) ==
    /\ f \in Exec /\ f.pc = pc /\ f.stage = e.stage /\ f.content = e.content
    /\ f.hid = e.hid /\ f.page = e.page /\ f.seen = e.seen

LEMMA GoesTyped ==
    ASSUME NEW e \in Exec, NEW pc \in PCs
    PROVE  Stepped([e EXCEPT !.pc = pc], e, pc)
  BY DEF Stepped, Exec, PCs

LEMMA NoExecTyped ==
    NoExec \in Exec /\ NoExec.pc = "none" /\ NoExec.stage = "generating"
  BY StudioAssumption DEF NoExec, NoPage, Exec, Contents, OpenStatus

\* What an execution leaves behind it when it is over.
LEMMA OverTyped ==
    ASSUME NEW pc \in Late, NEW out \in {"none", "succeeded", "cancelled", "failed"}
    PROVE  /\ [NoExec EXCEPT !.pc = pc] \in Exec /\ [NoExec EXCEPT !.pc = pc].pc = pc
           /\ [NoExec EXCEPT !.pc = pc, !.out = out] \in Exec
           /\ [NoExec EXCEPT !.pc = pc, !.out = out].pc = pc
           /\ [NoExec EXCEPT !.pc = pc, !.out = out].out = out
  BY StudioAssumption DEF NoExec, NoPage, Exec, Contents, OpenStatus, Late

\* An execution that is over has nothing to account for.
LEMMA OverWorking ==
    ASSUME NEW e \in Exec, NEW f \in Exec, NEW j \in JobStatus, NEW k \in JobStatus,
           NEW op, NEW row, NEW st, Working(e, j, op, row, st),
           e.pc # "none" \/ j \notin {"absent", "queued"}, k = j \/ k \notin {"absent", "queued"},
           f.pc \in Late \cup {"none"}, f.pc = "settle" => f.out # "none"
    PROVE  Working(f, k, op, row, st)
  BY DEF Working, Early, Busy, Late

\* Nothing others do to the row gets in the way.
LEMMA StillWorking ==
    ASSUME NEW e \in Exec, NEW j \in JobStatus, NEW op, NEW st,
           NEW row, NEW row1, Working(e, j, op, row, st),
           row.status = "none" => row1.status = "none",
           row1.status \in OpenStatus =>
             row.status \in OpenStatus /\ row1.content = row.content
    PROVE  Working(e, j, op, row1, st)
  BY DEF Working

IInv ==
    /\ Book(sess, ver, run, task)
    /\ job \in [Builds -> JobStatus] /\ exec \in [Builds -> Exec]
    /\ site \in [theme : SiteThemes, browser : DOMAIN Sights] /\ faults \in 0 .. MaxFaults
    /\ \A r \in Builds : Working(exec[r], job[r], task[r].op, ver[r], site)

LEMMA TypesAndRows == IInv => TypeOK /\ RowsAgree
<1> SUFFICES ASSUME IInv PROVE TypeOK /\ RowsAgree
  OBVIOUS
<1>1. TypeOK
  BY DEF IInv, Book, BookTyped, TypeOK, RunStatus, JobStatus
<1>2. ASSUME NEW r \in Builds
      PROVE  /\ ver[r].status = "ready" => run[r] = "succeeded"
             /\ ver[r].status = "failed" => run[r] = "failed"
             /\ ver[r].status = "cancelled" => run[r] = "cancelled"
             /\ ver[r].status \in OpenStatus => Matches(r)
  <2>1. /\ RunSound(sess, ver, run, task, r) /\ OpenSound(sess, ver)
        /\ SessionSound(sess, task) /\ r \in Versions /\ r # 0
    BY <1>2, BuildsAreVersions DEF IInv, Book
  <2>2. QED BY <2>1 DEF RunSound, OpenSound, SessionSound, Matches
<1>3. QED BY <1>1, <1>2 DEF RowsAgree

LEMMA InitBook == Init => IInv
<1> SUFFICES ASSUME Init PROVE IInv
  OBVIOUS
<1>1. NoVersion \in Version /\ NoVersion.status = "none"
  BY EmptyRows
<1>2. Approved \in Contents
  BY StudioAssumption DEF Contents
<1>3. /\ sess \in Session /\ sess.status = "not_started" /\ sess.active = 0
      /\ sess.number = 0 /\ sess.flight = 0
  BY DEF Init, Session, StudioStatus
<1>4. /\ task \in [Builds -> Task] /\ \A r \in Builds : task[r].op = "none"
  BY <1>2 DEF Init, Task
<1>5. BookTyped(sess, ver, run, task)
  BY <1>1, <1>3, <1>4 DEF Init, BookTyped, RunStatus
<1>6. SessionSound(sess, task) /\ LiveSound(sess, ver)
  BY <1>3 DEF SessionSound, LiveSound
<1>7. \A v \in Versions : ver[v].status = "none"
  BY <1>1 DEF Init
<1>8. OpenSound(sess, ver)
  BY <1>7 DEF OpenSound, OpenStatus
<1>9. \A r \in Builds : RunSound(sess, ver, run, task, r)
  <2>1. \A r \in Builds : run[r] = "none" /\ r # 0 /\ r \in Versions
    BY BuildsAreVersions DEF Init
  <2>2. QED BY <1>3, <1>7, <2>1 DEF RunSound
<1>10. /\ job \in [Builds -> JobStatus] /\ exec \in [Builds -> Exec]
       /\ site \in [theme : SiteThemes, browser : DOMAIN Sights] /\ faults \in 0 .. MaxFaults
  BY StudioAssumption, NoExecTyped DEF Init, JobStatus
<1>11. \A r \in Builds : Working(exec[r], job[r], task[r].op, ver[r], site)
  <2>1. \A r \in Builds : /\ job[r] = "absent" /\ exec[r].pc = "none"
                          /\ exec[r].stage = "generating" /\ ver[r].status = "none"
    BY <1>7, NoExecTyped, BuildsAreVersions DEF Init
  <2>2. QED BY <2>1 DEF Working, Early, Busy
<1>12. QED BY <1>5, <1>6, <1>8, <1>9, <1>10, <1>11 DEF IInv, Book

-----------------------------------------------------------------------------
(* Steps that touch nothing but one build's execution and job.              *)

LEMMA QuietStep ==
    ASSUME IInv, NEW r \in Builds, UNCHANGED <<sess, ver, task, run, site>>,
           faults' \in 0 .. MaxFaults,
           NEW e \in Exec, exec' = [exec EXCEPT ![r] = e],
           NEW j \in JobStatus, job' = [job EXCEPT ![r] = j],
           Working(e, j, task[r].op, ver[r], site)
    PROVE  IInv'
<1>1. Book(sess, ver, run, task)'
  BY DEF IInv
<1>2. /\ exec' \in [Builds -> Exec] /\ job' \in [Builds -> JobStatus]
      /\ exec'[r] = e /\ job'[r] = j
      /\ \A p \in Builds \ {r} : exec'[p] = exec[p] /\ job'[p] = job[p]
  BY DEF IInv
<1>3. \A p \in Builds : Working(exec'[p], job'[p], task[p].op, ver[p], site)
  BY <1>2 DEF IInv
<1>4. QED BY <1>1, <1>2, <1>3 DEF IInv

\* The same, for a step that leaves the job alone.
LEMMA ExecStep ==
    ASSUME IInv, NEW r \in Builds, UNCHANGED <<sess, ver, task, run, job, site, faults>>,
           NEW e \in Exec, exec' = [exec EXCEPT ![r] = e],
           Working(e, job[r], task[r].op, ver[r], site)
    PROVE  IInv'
<1>1. job[r] \in JobStatus /\ job' = [job EXCEPT ![r] = job[r]] /\ faults' \in 0 .. MaxFaults
  BY DEF IInv
<1>2. QED BY <1>1, QuietStep

\* An execution that is over.
LEMMA OverStep ==
    ASSUME IInv, NEW r \in Builds, UNCHANGED <<sess, ver, task, run, job, site, faults>>,
           exec[r].pc # "none",
           NEW e \in Exec, e.pc \in Late, e.pc = "settle" => e.out # "none",
           exec' = [exec EXCEPT ![r] = e]
    PROVE  IInv'
<1>1. Working(e, job[r], task[r].op, ver[r], site)
  BY OverWorking DEF IInv
<1>2. QED BY <1>1, ExecStep

LEMMA ReturnsOver ==
    ASSUME IInv, NEW r \in Builds, NEW out \in {"succeeded", "cancelled", "failed"},
           Returns(r, out)
    PROVE  \E e \in Exec :
             e.pc = "settle" /\ e.out = out /\ exec' = [exec EXCEPT ![r] = e]
  BY OverTyped DEF Returns, Late

LEMMA GoesOn ==
    ASSUME IInv, NEW r \in Builds, NEW pc \in PCs, Goes(r, pc)
    PROVE  \E e \in Exec : Stepped(e, exec[r], pc) /\ exec' = [exec EXCEPT ![r] = e]
<1> DEFINE e == [exec[r] EXCEPT !.pc = pc]
<1>1. exec[r] \in Exec
  BY DEF IInv
<1>2. e \in Exec /\ Stepped(e, exec[r], pc)
  BY <1>1, GoesTyped DEF Stepped
<1>3. exec' = [exec EXCEPT ![r] = e]
  BY DEF Goes
<1>4. QED BY <1>2, <1>3

LEMMA QueueSteps ==
    ASSUME IInv, NEW r \in Builds, Claim(r) \/ Recover(r) \/ Crash(r)
    PROVE  IInv'
<1>0. /\ exec[r] \in Exec /\ job[r] \in JobStatus /\ faults \in 0 .. MaxFaults /\ MaxFaults \in Nat
      /\ exec = [exec EXCEPT ![r] = exec[r]] /\ job = [job EXCEPT ![r] = job[r]]
      /\ Working(exec[r], job[r], task[r].op, ver[r], site)
      /\ {"running", "failed"} \subseteq JobStatus
  BY StudioAssumption DEF IInv, JobStatus
<1>1. CASE Claim(r)
  <2>1. UNCHANGED <<sess, ver, task, run, site, faults>> /\ job[r] = "queued"
    BY <1>1 DEF Claim
  <2>2. CASE job' = [job EXCEPT ![r] = "running"] /\ exec' = [exec EXCEPT ![r].pc = "open"]
    <3> DEFINE e == [exec[r] EXCEPT !.pc = "open"]
    <3>1. Stepped(e, exec[r], "open") /\ e \in Exec
      BY <1>0, GoesTyped, ZenonT(20) DEF PCs, Stepped
    <3>2. Working(e, "running", task[r].op, ver[r], site)
      BY <1>0, <2>1, <3>1 DEF Working, Stepped, Early, Busy
    <3>3. exec' = [exec EXCEPT ![r] = e]
      BY <2>2
    <3>4. QED BY <1>0, <2>1, <2>2, <3>1, <3>2, <3>3, QuietStep
  <2>3. CASE job' = [job EXCEPT ![r] = "failed"] /\ UNCHANGED exec
    <3>1. Working(exec[r], "failed", task[r].op, ver[r], site)
      BY <1>0, <2>1 DEF Working, Early, Busy
    <3>2. QED BY <1>0, <2>1, <2>3, <3>1, QuietStep
  <2>4. QED BY <1>1, <2>2, <2>3 DEF Claim
<1>2. CASE Recover(r)
  <2>1. UNCHANGED <<sess, ver, task, run, exec, site>> /\ job[r] = "running"
        /\ job' = [job EXCEPT ![r] = "failed"] /\ faults' \in 0 .. MaxFaults
    BY <1>0, <1>2 DEF Recover
  <2>2. Working(exec[r], "failed", task[r].op, ver[r], site)
    BY <1>0, <2>1 DEF Working
  <2>3. QED BY <1>0, <2>1, <2>2, QuietStep
<1>3. CASE Crash(r)
  <2>1. /\ UNCHANGED <<sess, ver, task, run, job, site>> /\ exec[r].pc # "none"
        /\ exec' = [exec EXCEPT ![r] = NoExec] /\ faults' \in 0 .. MaxFaults
    BY <1>0, <1>3 DEF Crash
  <2>2. Working(NoExec, job[r], task[r].op, ver[r], site)
    BY <1>0, <2>1, NoExecTyped, OverWorking
  <2>3. QED BY <1>0, <2>1, <2>2, NoExecTyped, QuietStep
<1>4. QED BY <1>1, <1>2, <1>3

LEMMA OpenStep == ASSUME IInv, NEW r \in Builds, Open(r) PROVE IInv'
<1>0. exec[r].pc = "open" /\ UNCHANGED <<sess, ver, task, run, job, site, faults>>
  BY DEF Open
<1>1. CASE Goes(r, "enter")
  <2>1. PICK e \in Exec : Stepped(e, exec[r], "enter") /\ exec' = [exec EXCEPT ![r] = e]
    BY <1>1, GoesOn DEF PCs
  <2>2. Working(e, job[r], task[r].op, ver[r], site)
    BY <1>0, <2>1 DEF IInv, Working, Stepped, Early, Busy
  <2>3. QED BY <1>0, <2>1, <2>2, ExecStep
<1>2. ASSUME NEW out \in {"cancelled", "failed"}, Returns(r, out) PROVE IInv'
  BY <1>0, <1>2, ReturnsOver, OverStep DEF Late
<1>3. QED BY <1>1, <1>2 DEF Open

\* Where a handler gives up, and where the worker's timeout cuts it off.
LEMMA RecordsOver ==
    ASSUME IInv, NEW r \in Builds, exec[r].pc # "none", Goes(r, "record"),
           UNCHANGED <<sess, ver, task, run, job, site, faults>>
    PROVE  IInv'
<1>1. PICK e \in Exec : Stepped(e, exec[r], "record") /\ exec' = [exec EXCEPT ![r] = e]
  BY GoesOn DEF PCs
<1>2. QED BY <1>1, OverStep DEF Stepped, Late

LEMMA TimeoutStep == ASSUME IInv, NEW r \in Builds, Timeout(r) PROVE IInv'
  BY OverTyped, OverStep DEF Timeout, Late

LEMMA InterpretStep == ASSUME IInv, NEW r \in Builds, Interpret(r) PROVE IInv'
<1>0. exec[r].pc = "interpret" /\ UNCHANGED <<sess, ver, task, run, job, site, faults>>
  BY DEF Interpret
<1>1. CASE Goes(r, "record")
  BY <1>0, <1>1, RecordsOver
<1>2. CASE Goes(r, "reply")
  <2>1. PICK e \in Exec : Stepped(e, exec[r], "reply") /\ exec' = [exec EXCEPT ![r] = e]
    BY <1>2, GoesOn DEF PCs
  <2>2. Working(e, job[r], task[r].op, ver[r], site)
    BY <1>0, <2>1 DEF IInv, Working, Stepped, Early, Busy
  <2>3. QED BY <1>0, <2>1, <2>2, ExecStep
<1>3. ASSUME NEW decision \in Changes[task[r].base],
             exec' = [exec EXCEPT ![r] = [NoExec EXCEPT
                        !.pc = "create", !.content = decision.content, !.hid = decision.removed]]
      PROVE  IInv'
  <2> DEFINE e == [NoExec EXCEPT !.pc = "create", !.content = decision.content,
                                 !.hid = decision.removed]
  <2>1. decision.content \in Contents /\ decision.removed \in SUBSET STRING
    <3>1. task[r].base \in DOMAIN Leaves
      BY DEF IInv, Book, BookTyped, Task, Contents
    <3>2. QED BY <3>1, StudioAssumption DEF Contents
  <2>2. e \in Exec /\ e.pc = "create" /\ e.stage = "generating"
    BY <2>1 DEF NoExec, NoPage, Exec, OpenStatus
  <2>3. Working(e, job[r], task[r].op, ver[r], site)
    BY <1>0, <2>2 DEF IInv, Working, Early, Busy
  <2>4. QED BY <1>0, <1>3, <2>2, <2>3, ExecStep
<1>4. QED BY <1>1, <1>2, <1>3 DEF Interpret

LEMMA AnnounceStep == ASSUME IInv, NEW r \in Builds, Announce(r) PROVE IInv'
<1>0. exec[r].pc = "announce" /\ UNCHANGED <<sess, ver, task, run, job, site, faults>>
  BY DEF Announce
<1>1. CASE Goes(r, "mark")
  <2>1. PICK e \in Exec : Stepped(e, exec[r], "mark") /\ exec' = [exec EXCEPT ![r] = e]
    BY <1>1, GoesOn DEF PCs
  <2>2. Working(e, job[r], task[r].op, ver[r], site)
    BY <1>0, <2>1 DEF IInv, Working, Stepped, Early, Busy
  <2>3. QED BY <1>0, <2>1, <2>2, ExecStep
<1>2. CASE Returns(r, "cancelled")
  BY <1>0, <1>2, ReturnsOver, OverStep DEF Late
<1>3. QED BY <1>1, <1>2 DEF Announce

\* A page that is built, validated or seen is taken to the next stage.
LEMMA GenerateStep == ASSUME IInv, NEW r \in Builds, Generate(r) PROVE IInv'
<1>0. exec[r].pc = "work" /\ UNCHANGED <<sess, ver, task, run, job, site, faults>>
  BY DEF Generate
<1>1. CASE Goes(r, "record")
  BY <1>0, <1>1, RecordsOver
<1>2. ASSUME NEW page \in Pages(site.theme, exec[r].content), page.failed # "generate",
             exec' = [exec EXCEPT ![r] = [Reports(r, "validating") EXCEPT !.page = page]]
      PROVE  IInv'
  <2> DEFINE e == [Reports(r, "validating") EXCEPT !.page = page]
  <2>1. exec[r] \in Exec /\ site.theme \in SiteThemes /\ exec[r].content \in DOMAIN Leaves
    BY DEF IInv, Exec, Contents
  <2>2. page \in [failed : {"generate", "validate", "no"}, shown : SUBSET STRING]
    BY <1>2, <2>1, StudioAssumption
  <2>3. /\ e \in Exec /\ e.pc = "announce" /\ e.stage = "validating"
        /\ e.content = exec[r].content /\ e.page = page
    BY <2>1, <2>2 DEF Reports, Exec, OpenStatus
  <2>4. Working(e, job[r], task[r].op, ver[r], site)
    BY <1>0, <1>2, <2>3 DEF IInv, Working, Early, Busy
  <2>5. QED BY <1>0, <1>2, <2>3, <2>4, ExecStep
<1>3. QED BY <1>1, <1>2 DEF Generate

LEMMA PromotesOn ==
    ASSUME IInv, NEW r \in Builds, exec[r].pc = "work", exec[r].stage # "generating",
           exec[r].page.failed = "no", NEW seen \in Verdicts(site.browser), Promotes(r, seen),
           UNCHANGED <<sess, ver, task, run, job, site, faults>>
    PROVE  IInv'
<1> DEFINE e == [exec[r] EXCEPT !.pc = "promote", !.stage = "generating", !.seen = seen]
<1>1. exec[r] \in Exec /\ site.browser \in DOMAIN Sights
  BY DEF IInv
<1>2. seen \in {"not_run", "passed", "unavailable"}
  BY <1>1, StudioAssumption DEF Verdicts
<1>3. /\ e \in Exec /\ e.pc = "promote" /\ e.stage = "generating" /\ e.seen = seen
      /\ e.content = exec[r].content /\ e.page = exec[r].page
  BY <1>1, <1>2 DEF Exec, OpenStatus
<1>4. Working(e, job[r], task[r].op, ver[r], site)
  BY <1>3 DEF IInv, Working, Early, Busy
<1>5. exec' = [exec EXCEPT ![r] = e]
  BY DEF Promotes
<1>6. QED BY <1>3, <1>4, <1>5, ExecStep

LEMMA ValidatesStep == ASSUME IInv, NEW r \in Builds, Validates(r) PROVE IInv'
<1>0. /\ exec[r].pc = "work" /\ exec[r].stage = "validating"
      /\ UNCHANGED <<sess, ver, task, run, job, site, faults>>
  BY DEF Validates
<1>1. CASE Goes(r, "record")
  BY <1>0, <1>1, RecordsOver
<1>2. CASE exec[r].page.failed = "no" /\ site.browser = "off" /\ Promotes(r, "not_run")
  BY <1>0, <1>2, PromotesOn DEF Verdicts
<1>3. CASE /\ exec[r].page.failed = "no" /\ site.browser # "off"
           /\ exec' = [exec EXCEPT ![r] = Reports(r, "verifying")]
  <2> DEFINE e == Reports(r, "verifying")
  <2>1. exec[r] \in Exec
    BY DEF IInv
  <2>2. /\ e \in Exec /\ e.pc = "announce" /\ e.stage = "verifying"
        /\ e.content = exec[r].content /\ e.page = exec[r].page
    BY <2>1 DEF Reports, Exec, OpenStatus
  <2>3. Working(e, job[r], task[r].op, ver[r], site)
    BY <1>0, <1>3, <2>2 DEF IInv, Working, Early, Busy
  <2>4. QED BY <1>0, <1>3, <2>2, <2>3, ExecStep
<1>4. QED BY <1>1, <1>2, <1>3 DEF Validates

LEMMA VerifiesStep == ASSUME IInv, NEW r \in Builds, Verifies(r) PROVE IInv'
<1>0. /\ exec[r].pc = "work" /\ exec[r].stage = "verifying"
      /\ UNCHANGED <<sess, ver, task, run, job, site, faults>>
  BY DEF Verifies
<1>1. CASE Goes(r, "record")
  BY <1>0, <1>1, RecordsOver
<1>2. ASSUME NEW seen \in Sights[site.browser] \ {"failed"}, Promotes(r, seen) PROVE IInv'
  <2>1. exec[r].page.failed = "no" /\ site.browser # "off"
    BY <1>0 DEF IInv, Working, Busy
  <2>2. QED BY <1>0, <1>2, <2>1, PromotesOn DEF Verdicts
<1>3. QED BY <1>1, <1>2 DEF Verifies

LEMMA SettleStep == ASSUME IInv, NEW r \in Builds, Settle(r) PROVE IInv'
<1>0. /\ exec[r].pc = "settle" /\ UNCHANGED <<sess, ver, task, run, site, faults>>
      /\ exec[r] \in Exec /\ job[r] \in JobStatus /\ faults' \in 0 .. MaxFaults
      /\ Working(exec[r], job[r], task[r].op, ver[r], site)
  BY DEF Settle, IInv
<1>1. PICK e \in Exec : e.pc \in {"hook", "none"} /\ exec' = [exec EXCEPT ![r] = e]
  BY OverTyped, NoExecTyped DEF Settle, Late
<1>2. PICK j \in JobStatus : /\ job' = [job EXCEPT ![r] = j]
                             /\ j = job[r] \/ j \notin {"absent", "queued"}
  <2>1. CASE Ours(r) /\ exec[r].out # "cancelled"
    <3>1. job' = [job EXCEPT ![r] = exec[r].out] /\ job[r] = "running"
      BY <2>1 DEF Settle, Ours
    <3>2. exec[r].out \in {"succeeded", "failed"}
      BY <1>0, <2>1 DEF Exec, Working
    <3>3. QED BY <3>1, <3>2 DEF JobStatus
  <2>2. CASE ~ (Ours(r) /\ exec[r].out # "cancelled")
    BY <1>0, <2>2 DEF Settle, IInv
  <2>3. QED BY <2>1, <2>2
<1>3. Working(e, j, task[r].op, ver[r], site)
  BY <1>0, <1>1, <1>2, OverWorking DEF Late
<1>4. QED BY <1>0, <1>1, <1>2, <1>3, QuietStep

-----------------------------------------------------------------------------
(* Steps that write the book.                                               *)

\* What a step may make of a row while others work on it.
Spared(row1, row) ==
    /\ row.status = "none" => row1.status = "none"
    /\ row1.status \in OpenStatus => row.status \in OpenStatus /\ row1.content = row.content

\* What a step may make of a page: the same, restricted, or none.
Fewer(row1, row) ==
    row1.status = "ready" => /\ row.status = "ready" /\ SamePage(row1, row)
                             /\ row.restricted => row1.restricted

LEMMA BookStep ==
    ASSUME IInv, NEW r \in Builds, Book(sess, ver, run, task)', UNCHANGED <<site, faults>>,
           job' \in [Builds -> JobStatus], exec' \in [Builds -> Exec],
           \A p \in Builds \ {r} : /\ task'[p].op = task[p].op /\ job'[p] = job[p]
                                   /\ exec'[p] = exec[p] /\ Spared(ver'[p], ver[p]),
           Working(exec'[r], job'[r], task'[r].op, ver'[r], site)
    PROVE  IInv'
<1>1. ASSUME NEW p \in Builds PROVE Working(exec'[p], job'[p], task'[p].op, ver'[p], site)
  <2>1. CASE p # r
    BY <2>1, StillWorking DEF IInv, Spared
  <2>2. QED BY <2>1
<1>2. QED BY <1>1 DEF IInv

\* The same, when no execution takes a step.
LEMMA RowStep ==
    ASSUME IInv, Book(sess, ver, run, task)', UNCHANGED <<task, job, exec, site, faults>>,
           \A p \in Builds : Spared(ver'[p], ver[p])
    PROVE  IInv'
<1>1. ASSUME NEW p \in Builds PROVE Working(exec'[p], job'[p], task'[p].op, ver'[p], site)
  BY StillWorking DEF IInv, Spared
<1>2. QED BY <1>1 DEF IInv

LEMMA MarkStep == ASSUME IInv, NEW r \in Builds, Mark(r) PROVE IInv'
<1>0. /\ exec[r].pc = "mark" /\ UNCHANGED <<sess, task, run, job, site, faults>>
      /\ exec[r] \in Exec /\ ver[r] \in Version /\ r \in Versions
      /\ Working(exec[r], job[r], task[r].op, ver[r], site)
      /\ ver \in [Versions -> Version]
  BY BuildsAreVersions DEF Mark, IInv, Book, BookTyped
<1>1. exec[r].stage \in OpenStatus
  BY <1>0 DEF Exec
<1>2. ver' = [ver EXCEPT ![r] = Announced(@, exec[r].stage)]
  BY DEF Mark
<1>3. Book(sess, ver, run, task)'
  BY <1>0, <1>1, <1>2, MarkedBook DEF IInv
<1>4. PICK e \in Exec : Stepped(e, exec[r], "work") /\ exec' = [exec EXCEPT ![r] = e]
  BY GoesOn DEF PCs, Mark
<1>5. /\ exec' \in [Builds -> Exec] /\ exec'[r] = e
      /\ \A p \in Builds \ {r} : exec'[p] = exec[p]
  BY <1>4 DEF IInv
<1>6. /\ ver'[r].status \in OpenStatus => ver[r].status \in OpenStatus
      /\ ver'[r].content = ver[r].content
      /\ \A p \in Builds \ {r} : ver'[p] = ver[p]
  BY <1>0, <1>1, <1>2, AnnouncedRow, BuildsAreVersions DEF SamePage
<1>7. Working(e, job[r], task[r].op, ver'[r], site)
  BY <1>0, <1>4, <1>6 DEF Working, Stepped, Early, Busy
<1>8. job' \in [Builds -> JobStatus]
  BY <1>0 DEF IInv
<1>9. QED BY <1>0, <1>3, <1>5, <1>6, <1>7, <1>8, BookStep DEF Spared

\* The row that a build, and a change once it is understood, begin with.
LEMMA NewRowMade ==
    ASSUME IInv, NEW r \in Builds, Matches(r), ver[r].status = "none",
           NEW content \in Contents, NEW hid \in SUBSET STRING,
           NEW seq \in Numbers, NextSeq(seq), NewRow(r, content, hid, seq),
           NEW q1, q1 = run \/ q1 = [run EXCEPT ![r] = "running"]
    PROVE  /\ Book(sess, ver', q1, task) /\ ver'[r].content = content
           /\ \A p \in Builds \ {r} : ver'[p] = ver[p]
<1> DEFINE row == Fresh(content, hid, seq)
<1>1. /\ row \in Version /\ row.status = "generating" /\ ~ row.restricted
      /\ row.seq = seq /\ row.content = content
  BY FreshRow
<1>2. ver' = [ver EXCEPT ![r] = row]
  BY DEF NewRow
<1>3. \A v \in Versions : IsRow(ver[v]) => ver[v].seq < row.seq
  BY <1>1 DEF NextSeq, Rows
<1>4. sess.flight = r /\ Book(sess, ver, run, task)
  BY DEF Matches, IInv
<1>5. Book(sess, [ver EXCEPT ![r] = row], q1, task)
  BY <1>1, <1>3, <1>4, NewRowBook
<1>6. r \in Versions /\ ver \in [Versions -> Version]
  BY BuildsAreVersions DEF IInv, Book, BookTyped
<1>7. QED BY <1>1, <1>2, <1>5, <1>6, BuildsAreVersions

LEMMA RunningBook ==
    ASSUME NEW s, NEW w, NEW q, NEW t, Book(s, w, q, t), NEW r \in Builds, s.flight = r
    PROVE  Book(s, w, [q EXCEPT ![r] = "running"], t)
<1> DEFINE q1 == [q EXCEPT ![r] = "running"]
<1>1. q1 \in [Builds -> RunStatus] /\ q1[r] = "running" /\ \A p \in Builds \ {r} : q1[p] = q[p]
  BY DEF Book, BookTyped, RunStatus
<1>2. ASSUME NEW p \in Builds PROVE RunSound(s, w, q1, t, p)
  BY <1>1 DEF Book, RunSound, OpenStatus
<1>3. QED BY <1>1, <1>2 DEF Book, BookTyped

LEMMA EnterStep == ASSUME IInv, NEW r \in Builds, Enter(r) PROVE IInv'
<1>0. /\ exec[r].pc = "enter" /\ UNCHANGED <<sess, task, job, site, faults>>
      /\ exec[r] \in Exec /\ r \in Versions
      /\ Working(exec[r], job[r], task[r].op, ver[r], site)
      /\ job' \in [Builds -> JobStatus] /\ task[r].base \in Contents
      /\ {} \in SUBSET STRING
  BY BuildsAreVersions DEF Enter, IInv, Book, BookTyped, Task
<1>1. ver[r].status = "none" /\ exec[r].stage = "generating" /\ job[r] \notin {"absent", "queued"}
  BY <1>0 DEF Working, Early
<1>2. ASSUME Matches(r), run' = [run EXCEPT ![r] = "running"],
             NEW seq \in Numbers, NextSeq(seq), NewRow(r, task[r].base, {}, seq),
             exec' = [exec EXCEPT ![r].pc = "announce", ![r].content = task[r].base]
      PROVE  IInv'
  <2> DEFINE e == [exec[r] EXCEPT !.pc = "announce", !.content = task[r].base]
  <2>1. /\ Book(sess, ver', run', task) /\ ver'[r].content = task[r].base
        /\ \A p \in Builds \ {r} : ver'[p] = ver[p]
    BY <1>0, <1>1, <1>2, NewRowMade
  <2>2. /\ e \in Exec /\ e.pc = "announce" /\ e.stage = "generating" /\ e.content = task[r].base
    BY <1>0, <1>1 DEF Exec
  <2>3. /\ exec' \in [Builds -> Exec] /\ exec'[r] = e
        /\ \A p \in Builds \ {r} : exec'[p] = exec[p]
    <3>1. exec \in [Builds -> Exec]
      BY DEF IInv
    <3>2. exec' = [exec EXCEPT ![r] = e]
      BY <1>2, <3>1
    <3>3. QED BY <2>2, <3>1, <3>2
  <2>4. Working(e, job[r], task[r].op, ver'[r], site)
    BY <1>0, <1>1, <2>1, <2>2 DEF Working, Early, Busy
  <2>5. QED BY <1>0, <2>1, <2>3, <2>4, BookStep DEF Spared
<1>3. CASE /\ Matches(r) /\ run' = [run EXCEPT ![r] = "running"] /\ UNCHANGED ver
           /\ task[r].op = "change" /\ Goes(r, "interpret")
  <2>1. Book(sess, ver, run, task)'
    BY <1>0, <1>3, RunningBook DEF IInv, Matches
  <2>2. PICK e \in Exec : Stepped(e, exec[r], "interpret") /\ exec' = [exec EXCEPT ![r] = e]
    BY <1>3, GoesOn DEF PCs
  <2>3. /\ exec' \in [Builds -> Exec] /\ exec'[r] = e
        /\ \A p \in Builds \ {r} : exec'[p] = exec[p]
    BY <2>2 DEF IInv
  <2>4. Working(e, job[r], task[r].op, ver'[r], site)
    BY <1>0, <1>1, <1>3, <2>2 DEF Working, Stepped, Early, Busy
  <2>5. QED BY <1>0, <1>3, <2>1, <2>3, <2>4, BookStep DEF Spared
<1>4. CASE ~ Matches(r) /\ Returns(r, "cancelled") /\ UNCHANGED <<ver, run>>
  BY <1>0, <1>4, ReturnsOver, OverStep DEF Late
<1>5. QED BY <1>2, <1>3, <1>4 DEF Enter, Numbers

LEMMA CreateStep == ASSUME IInv, NEW r \in Builds, Create(r) PROVE IInv'
<1>0. /\ exec[r].pc = "create" /\ UNCHANGED <<sess, run, task, job, site, faults>>
      /\ exec[r] \in Exec /\ exec[r].content \in Contents /\ exec[r].hid \in SUBSET STRING
      /\ Working(exec[r], job[r], task[r].op, ver[r], site) /\ job' \in [Builds -> JobStatus]
  BY DEF Create, IInv, Exec
<1>1. ver[r].status = "none" /\ exec[r].stage = "generating" /\ job[r] \notin {"absent", "queued"}
  BY <1>0 DEF Working, Early
<1>2. ASSUME Matches(r), NEW seq \in Numbers, NextSeq(seq),
             NewRow(r, exec[r].content, exec[r].hid, seq), Goes(r, "announce")
      PROVE  IInv'
  <2>1. /\ Book(sess, ver', run, task) /\ ver'[r].content = exec[r].content
        /\ \A p \in Builds \ {r} : ver'[p] = ver[p]
    BY <1>0, <1>1, <1>2, NewRowMade
  <2>2. PICK e \in Exec : Stepped(e, exec[r], "announce") /\ exec' = [exec EXCEPT ![r] = e]
    BY <1>2, GoesOn DEF PCs
  <2>3. /\ exec' \in [Builds -> Exec] /\ exec'[r] = e
        /\ \A p \in Builds \ {r} : exec'[p] = exec[p]
    BY <2>2 DEF IInv
  <2>4. Working(e, job[r], task[r].op, ver'[r], site)
    BY <1>0, <1>1, <2>1, <2>2 DEF Working, Stepped, Early, Busy
  <2>5. QED BY <1>0, <2>1, <2>3, <2>4, BookStep DEF Spared
<1>3. CASE Returns(r, "cancelled") /\ UNCHANGED ver
  BY <1>0, <1>3, ReturnsOver, OverStep DEF Late
<1>4. QED BY <1>2, <1>3 DEF Create, Numbers

\* An execution that writes the book and is over.
LEMMA EndStep ==
    ASSUME IInv, NEW r \in Builds, Book(sess, ver, run, task)', UNCHANGED <<task, job, site, faults>>,
           exec[r].pc # "none", NEW e \in Exec, e.pc \in {"settle", "none"},
           e.pc = "settle" => e.out # "none", exec' = [exec EXCEPT ![r] = e],
           \A p \in Builds \ {r} : Spared(ver'[p], ver[p])
    PROVE  IInv'
<1>1. /\ exec' \in [Builds -> Exec] /\ exec'[r] = e /\ job' \in [Builds -> JobStatus]
      /\ \A p \in Builds \ {r} : exec'[p] = exec[p]
  BY DEF IInv
<1>2. Working(e, job[r], task[r].op, ver'[r], site)
  BY OverWorking DEF IInv, Working, Early, Busy
<1>3. QED BY <1>1, <1>2, BookStep

LEMMA ReplyStep == ASSUME IInv, NEW r \in Builds, Reply(r) PROVE IInv'
<1>0. exec[r].pc = "reply" /\ UNCHANGED <<ver, task, job, site, faults>>
  BY DEF Reply
<1>1. CASE /\ Matches(r) /\ sess' = [sess EXCEPT !.status = "ready", !.flight = 0]
           /\ run' = [run EXCEPT ![r] = RunSucceeded(@)] /\ Returns(r, "succeeded")
  <2>1. ver[r].status = "none" /\ task[r].op = "change" /\ sess.flight = r
    BY <1>0, <1>1 DEF IInv, Working, Early, Matches
  <2>2. Book(sess, ver, run, task)'
    BY <1>0, <1>1, <2>1, RepliedBook DEF IInv
  <2>3. QED BY <1>0, <1>1, <2>2, ReturnsOver, EndStep DEF Spared
<1>2. CASE Returns(r, "cancelled") /\ UNCHANGED <<sess, run>>
  BY <1>0, <1>2, ReturnsOver, OverStep DEF Late
<1>3. QED BY <1>1, <1>2 DEF Reply

\* What ends a build spares the rows of the others.
LEMMA PersistBook ==
    ASSUME IInv, NEW r \in Builds, Persist(r), UNCHANGED task
    PROVE  /\ Book(sess, ver, run, task)'
           /\ \A p \in Builds \ {r} : Spared(ver'[p], ver[p])
<1>1. CASE Matches(r)
  <2>1. /\ sess' = Failed(sess) /\ ver' = [ver EXCEPT ![r] = Broken(@, "failed")]
        /\ run' = [run EXCEPT ![r] = "failed"] /\ sess.flight = r
    BY <1>1 DEF Persist, Matches
  <2>2. Book(sess, ver, run, task)'
    BY <2>1, EndedBook DEF IInv
  <2>3. \A p \in Builds \ {r} : ver'[p] = ver[p]
    BY <2>1, BuildsAreVersions DEF IInv, Book, BookTyped
  <2>4. QED BY <2>2, <2>3 DEF Spared
<1>2. CASE ~ Matches(r)
  <2>1. UNCHANGED <<sess, ver, run>>
    BY <1>2 DEF Persist
  <2>2. QED BY <2>1 DEF IInv, Spared
<1>3. QED BY <1>1, <1>2

LEMMA RecordStep == ASSUME IInv, NEW r \in Builds, Record(r) PROVE IInv'
<1>1. exec[r].pc = "record" /\ UNCHANGED <<task, job, site, faults>> /\ Returns(r, "failed")
  BY DEF Record
<1>2. Book(sess, ver, run, task)' /\ \A p \in Builds \ {r} : Spared(ver'[p], ver[p])
  BY <1>1, PersistBook DEF Record
<1>3. QED BY <1>1, <1>2, ReturnsOver, EndStep

LEMMA HookStep == ASSUME IInv, NEW r \in Builds, Hook(r) PROVE IInv'
<1>1. exec[r].pc = "hook" /\ UNCHANGED <<task, job, site, faults>>
      /\ exec' = [exec EXCEPT ![r] = NoExec]
  BY DEF Hook
<1>2. Book(sess, ver, run, task)' /\ \A p \in Builds \ {r} : Spared(ver'[p], ver[p])
  BY <1>1, PersistBook DEF Hook
<1>3. QED BY <1>1, <1>2, NoExecTyped, EndStep

\* Every operation of the API starts from a session whose lost build, if any,
\* has ended.
LEMMA Reconciled ==
    ASSUME IInv
    PROVE  /\ Book(Sess, Ver, Run, task)
           /\ Sess.active = sess.active /\ Sess.number = sess.number
           /\ \A v \in Versions :
                /\ Spared(Ver[v], ver[v]) /\ SamePage(Ver[v], ver[v])
                /\ Ver[v].restricted = ver[v].restricted
                /\ Ver[v].status = "ready" <=> ver[v].status = "ready"
                /\ IsRow(Ver[v]) <=> IsRow(ver[v])
<1>1. CASE ~ Lost
  BY <1>1 DEF IInv, Sess, Ver, Run, Spared, SamePage
<1>2. CASE Lost
  <2> DEFINE r == sess.flight
  <2>1. r \in Builds
    BY <1>2 DEF IInv, Book, BookTyped, Session, SessionSound, Lost
  <2>2. /\ Sess = Failed(sess) /\ Ver = [ver EXCEPT ![r] = Broken(@, "failed")]
        /\ Run = [run EXCEPT ![r] = "failed"]
    BY <1>2 DEF Sess, Ver, Run
  <2>3. Book(Sess, Ver, Run, task)
    BY <2>1, <2>2, EndedBook DEF IInv
  <2>4. sess \in Session /\ ver \in [Versions -> Version] /\ r \in Versions
        /\ ver[r].status \in {"none"} \cup OpenStatus
    BY <2>1, BuildsAreVersions DEF IInv, Book, BookTyped, RunSound
  <2>5. Sess.active = sess.active /\ Sess.number = sess.number
    BY <2>2, <2>4 DEF Failed, Session
  <2>6. /\ \A v \in Versions \ {r} : Ver[v] = ver[v]
        /\ Ver[r] = Broken(ver[r], "failed")
    BY <2>2, <2>4
  <2>7. /\ SamePage(Ver[r], ver[r]) /\ Ver[r].restricted = ver[r].restricted
        /\ Ver[r].status = IF ver[r].status = "none" THEN "none" ELSE "failed"
    BY <2>4, <2>6, BrokenRow DEF OpenStatus
  <2>8. ASSUME NEW v \in Versions
        PROVE  /\ Spared(Ver[v], ver[v]) /\ SamePage(Ver[v], ver[v])
               /\ Ver[v].restricted = ver[v].restricted
               /\ Ver[v].status = "ready" <=> ver[v].status = "ready"
               /\ IsRow(Ver[v]) <=> IsRow(ver[v])
    BY <2>4, <2>6, <2>7 DEF Spared, SamePage, IsRow, OpenStatus
  <2>9. QED BY <2>3, <2>5, <2>8
<1>3. QED BY <1>1, <1>2

LEMMA ReconcileStep == ASSUME IInv, Reconcile PROVE IInv'
<1>1. /\ sess' = Sess /\ ver' = Ver /\ run' = Run
      /\ UNCHANGED <<task, job, exec, site, faults>>
  BY DEF Reconcile
<1>2. Book(sess, ver, run, task)' /\ \A p \in Builds : Spared(ver'[p], ver[p])
  BY <1>1, Reconciled, BuildsAreVersions
<1>3. QED BY <1>1, <1>2, RowStep

LEMMA LaunchStep ==
    ASSUME IInv, NEW r \in Builds, NEW op \in {"build", "change"}, NEW base \in Contents,
           Launch(r, op, base), Sess.status # "build_running", op = "change" => Sess.active # 0
    PROVE  IInv'
<1>1. /\ task[r].op = "none" /\ UNCHANGED <<exec, site, faults>> /\ ver' = Ver
      /\ task' = [task EXCEPT ![r] = [op |-> op, base |-> base]]
      /\ run' = [Run EXCEPT ![r] = "pending"] /\ job' = [job EXCEPT ![r] = "queued"]
      /\ sess' = [Sess EXCEPT !.status = "build_running", !.flight = r]
  BY DEF Launch
<1>2. Book(Sess, Ver, Run, task) /\ \A p \in Builds : Spared(Ver[p], ver[p])
  BY Reconciled, BuildsAreVersions
<1>3. Book(sess, ver, run, task)'
  BY <1>1, <1>2, LaunchedBook
<1>4. /\ job' \in [Builds -> JobStatus] /\ job'[r] = "queued"
      /\ \A p \in Builds \ {r} : job'[p] = job[p] /\ task'[p].op = task[p].op
      /\ task'[r].op = op
  BY <1>1 DEF IInv, JobStatus, Book, BookTyped
<1>5. Working(exec'[r], job'[r], task'[r].op, ver'[r], site)
  <2>1. Working(exec[r], job[r], task[r].op, ver[r], site) /\ job[r] = "absent"
    BY <1>1 DEF IInv, Working
  <2>2. exec[r].pc = "none" /\ exec[r].stage = "generating" /\ ver'[r].status = "none"
    BY <1>1, <1>2, <2>1 DEF Working, Spared
  <2>3. QED BY <1>1, <1>4, <2>2 DEF Working, Early, Busy
<1>6. exec' \in [Builds -> Exec]
  BY <1>1 DEF IInv
<1>7. QED BY <1>1, <1>2, <1>3, <1>4, <1>5, <1>6, BookStep

LEMMA StartStep == ASSUME IInv, NEW r \in Builds, Start(r) PROVE IInv'
  BY LaunchStep, StudioAssumption DEF Start, Contents

LEMMA PostMessageStep == ASSUME IInv, NEW r \in Builds, PostMessage(r) PROVE IInv'
<1>1. ver[Sess.active].content \in Contents
  BY Reconciled DEF PostMessage, Book, BookTyped, Session, IInv, Version
<1>2. QED BY <1>1, LaunchStep DEF PostMessage

LEMMA StopStep == ASSUME IInv, Stop PROVE IInv'
<1> DEFINE r == sess.flight
<1>1. /\ r \in Builds /\ run[r] \in {"pending", "running"}
      /\ Working(exec[r], job[r], task[r].op, ver[r], site)
      /\ exec[r] \in Exec /\ job[r] \in JobStatus
  BY DEF Stop, IInv, Book, BookTyped, Session, SessionSound, RunSound
<1>2. /\ sess' = Failed(sess) /\ ver' = [ver EXCEPT ![r] = Broken(@, "cancelled")]
      /\ run' = [run EXCEPT ![r] = "cancelled"] /\ UNCHANGED <<task, exec, site, faults>>
      /\ job' = IF Alive(r) THEN [job EXCEPT ![r] = "cancelled"] ELSE job
  BY <1>1 DEF Stop, RunCancelled
<1>3. Book(sess, ver, run, task)'
  BY <1>1, <1>2, EndedBook DEF IInv
<1>4. /\ \A p \in Builds \ {r} : ver'[p] = ver[p]
      /\ ver'[r] = Broken(ver[r], "cancelled") /\ ver[r] \in Version
  BY <1>1, <1>2, BuildsAreVersions DEF IInv, Book, BookTyped
<1>5. Spared(ver'[r], ver[r])
  BY <1>4, BrokenRow DEF Spared, OpenStatus
<1>6. /\ job' \in [Builds -> JobStatus]
      /\ job'[r] = job[r] \/ (job'[r] = "cancelled" /\ job[r] \in {"queued", "running"})
      /\ \A p \in Builds \ {r} : job'[p] = job[p]
  BY <1>1, <1>2 DEF IInv, JobStatus, Alive
<1>7. Working(exec[r], job'[r], task[r].op, ver'[r], site)
  <2>1. Working(exec[r], job[r], task[r].op, ver'[r], site)
    BY <1>1, <1>5, StillWorking DEF Spared
  <2>2. QED BY <1>6, <2>1 DEF Working
<1>8. exec' \in [Builds -> Exec]
  BY <1>2 DEF IInv
<1>9. QED BY <1>1, <1>2, <1>3, <1>4, <1>6, <1>7, <1>8, BookStep DEF Spared

LEMMA SweepStep == ASSUME IInv, Sweep PROVE IInv'
<1>1. PICK aged \in SUBSET Swept \ {{}} : ver' = Without(ver, aged)
  BY DEF Sweep
<1>2. UNCHANGED <<sess, task, run, job, exec, site, faults>>
  BY DEF Sweep
<1>3. aged \in SUBSET Versions
      /\ \A v \in aged : v # sess.active /\ ver[v].status \notin OpenStatus \cup {"none"}
  BY <1>1 DEF Swept, Rows, EndStatus, OpenStatus
<1>4. /\ Book(sess, Without(ver, aged), run, task)
      /\ \A v \in Versions : Without(ver, aged)[v] = IF v \in aged THEN Deleted ELSE ver[v]
  BY <1>3, DeletedBook DEF IInv
<1>5. \A p \in Builds : Spared(ver'[p], ver[p])
  BY <1>1, <1>3, <1>4, EmptyRows, BuildsAreVersions DEF Spared, OpenStatus
<1>6. QED BY <1>1, <1>2, <1>4, <1>5, RowStep

\* The live page, with what pruning leaves of the others.
LEMMA PrunedBook ==
    ASSUME NEW s, NEW w, NEW q, NEW t, Book(s, w, q, t), s.flight = 0, s.active \in Versions
    PROVE  /\ Book(s, Without(w, Pruned(w, s.active)), q, t)
           /\ Without(w, Pruned(w, s.active))[s.active] = w[s.active]
           /\ \A v \in Versions :
                Without(w, Pruned(w, s.active))[v] = w[v]
                \/ (IsRow(w[v]) /\ Without(w, Pruned(w, s.active))[v] = Deleted)
<1> DEFINE doomed == Pruned(w, s.active)
<1>1. DOMAIN w = Versions
  BY DEF Book, BookTyped
<1>2. doomed \in SUBSET Versions /\ \A v \in doomed : v # s.active /\ IsRow(w[v])
  BY <1>1 DEF Pruned
<1>3. \A v \in Versions : w[v].status \notin OpenStatus
  BY BuildsAreVersions DEF Book, OpenSound
<1> HIDE DEF doomed
<1>4. /\ Book(s, Without(w, doomed), q, t)
      /\ \A v \in Versions : Without(w, doomed)[v] = IF v \in doomed THEN Deleted ELSE w[v]
  BY <1>2, <1>3, DeletedBook DEF IsRow
<1>5. QED BY <1>2, <1>4 DEF doomed

\* A restore: the copy is the newest page, and no other page is new.
LEMMA RestoreRows ==
    ASSUME IInv, NEW new \in Restores, NEW source \in Versions, Restore(new, source)
    PROVE  /\ Book(sess, ver, run, task)'
           /\ sess'.status = "ready" /\ sess'.number > sess.number
           /\ \A p \in Versions \ {new} :
                Fewer(ver'[p], ver[p]) /\ Spared(ver'[p], ver[p])
                /\ (ver'[p].status = "ready" => ver'[p].num < ver'[new].num)
           /\ ver[source].status = "ready"
           /\ ver'[new].content = ver[source].content /\ ver'[new].shown = ver[source].shown
           /\ ver'[new].seen = ver[source].seen /\ ver'[new].hid = {}
<1>1. PICK seq \in Numbers, num \in Numbers :
        /\ NextSeq(seq) /\ NextNumber(num)
        /\ ver' = Without([Ver EXCEPT ![new] = Copied(ver[source], seq, num)],
                          Pruned([Ver EXCEPT ![new] = Copied(ver[source], seq, num)], new))
        /\ sess' = [Sess EXCEPT !.active = new, !.number = num]
  BY DEF Restore, Numbers
<1>2. /\ ver[new].status = "none" /\ Sess.status = "ready" /\ run' = Run
      /\ UNCHANGED <<task, job, exec, site, faults>> /\ ver[source].status = "ready"
  BY DEF Restore, Restorable, Servable
<1> DEFINE live == Copied(ver[source], seq, num)
           w == [Ver EXCEPT ![new] = live]
           s == [status |-> "ready", active |-> new, number |-> num, flight |-> 0]
<1>3. /\ live \in Version /\ live.status = "ready" /\ live.num = num /\ live.seq = seq
      /\ ~ live.restricted /\ live.hid = {} /\ live.content = ver[source].content
      /\ live.shown = ver[source].shown /\ live.seen = ver[source].seen
  BY CopiedRow DEF IInv, Book, BookTyped
<1>4. /\ Book(Sess, Ver, Run, task) /\ Ver \in [Versions -> Version] /\ Sess \in Session
      /\ Sess.flight = 0 /\ Sess.active # 0 /\ Sess.number = sess.number
      /\ \A v \in Versions :
           /\ IsRow(Ver[v]) <=> IsRow(ver[v])
           /\ SamePage(Ver[v], ver[v]) /\ Spared(Ver[v], ver[v]) /\ Fewer(Ver[v], ver[v])
  BY <1>2, Reconciled DEF Book, BookTyped, SessionSound, Fewer
<1>5. \A u \in Versions \ {new} : IsRow(Ver[u]) => Ver[u].seq < live.seq /\ Ver[u].num < num
  BY <1>1, <1>3, <1>4 DEF NextSeq, NextNumber, Rows, SamePage
<1>6. sess' = s
  BY <1>1, <1>2, <1>4 DEF Session
<1>7. new \in Versions
  BY BuildsAreVersions
<1>8. sess.number < num
  <2>1. Sess.active \in Versions /\ Ver[Sess.active].status = "ready"
        /\ Ver[Sess.active].num = sess.number
    BY <1>4 DEF Book, BookTyped, Session, LiveSound
  <2>2. Sess.active # new
    BY <1>2, <1>4, <1>7, <2>1 DEF Fewer
  <2>3. QED BY <1>5, <2>1, <2>2 DEF IsRow
<1> HIDE DEF live
<1>9. Book(s, w, Run, task)
  BY <1>3, <1>4, <1>5, <1>7, LiveRowBook
<1>10. s.active = new /\ s.flight = 0 /\ s.status = "ready" /\ s.number = num
  OBVIOUS
<1>11. ver' = Without(w, Pruned(w, new))
  BY <1>1 DEF live
<1>12. w[new] = live /\ \A v \in Versions \ {new} : w[v] = Ver[v]
  BY <1>4, <1>7
<1> HIDE DEF w, s
<1>13. /\ Book(s, ver', Run, task) /\ ver'[new] = w[new]
       /\ \A v \in Versions : ver'[v] = w[v] \/ (IsRow(w[v]) /\ ver'[v] = Deleted)
  BY <1>7, <1>9, <1>10, <1>11, PrunedBook
<1>14. ASSUME NEW p \in Versions \ {new}
       PROVE  /\ Fewer(ver'[p], ver[p]) /\ Spared(ver'[p], ver[p])
              /\ ver'[p].status = "ready" => ver'[p].num < num
  <2>1. CASE ver'[p] = Ver[p]
    BY <1>4, <1>5, <2>1 DEF IsRow
  <2>2. CASE IsRow(Ver[p]) /\ ver'[p] = Deleted
    BY <1>4, <2>2, EmptyRows DEF Spared, Fewer, IsRow, OpenStatus
  <2>3. QED BY <1>12, <1>13, <2>1, <2>2
<1>15. Book(sess, ver, run, task)'
  BY <1>2, <1>6, <1>13
<1>16. QED BY <1>2, <1>3, <1>6, <1>8, <1>10, <1>12, <1>13, <1>14, <1>15

LEMMA RestoreStep ==
    ASSUME IInv, NEW new \in Restores, NEW source \in Versions, Restore(new, source)
    PROVE  IInv'
<1>1. Book(sess, ver, run, task)' /\ \A p \in Builds : Spared(ver'[p], ver[p])
  BY RestoreRows, BuildsAreVersions
<1>2. UNCHANGED <<task, job, exec, site, faults>>
  BY DEF Restore
<1>3. QED BY <1>1, <1>2, RowStep

\* A build that goes live: its page is the newest, no other page is new, and
\* those that show what it took away are restricted.
LEMMA GoLiveRows ==
    ASSUME IInv, NEW r \in Builds, Matches(r), exec[r].pc = "promote",
           ver[r].status \in OpenStatus, GoLive(r), UNCHANGED task
    PROVE  /\ Book(sess, ver, run, task)'
           /\ sess'.status = "ready" /\ sess'.number > sess.number
           /\ \A p \in Versions \ {r} :
                /\ Fewer(ver'[p], ver[p]) /\ Spared(ver'[p], ver[p])
                /\ ver'[p].status = "ready" =>
                     ver'[p].num < ver'[r].num
                     /\ (p \in Showing(r, ver[r].hid) => ver'[p].restricted)
           /\ ver'[r].content = exec[r].content /\ ver'[r].shown = exec[r].page.shown
           /\ ver'[r].seen = exec[r].seen /\ ver'[r].hid = ver[r].hid
<1> DEFINE old == Showing(r, ver[r].hid)
<1>1. PICK num \in Numbers :
        LET live == [ver EXCEPT ![r] = MadeReady(@, num, exec[r].page, exec[r].seen)]
            rows == Restricted(live, Showing(r, ver[r].hid))
        IN  /\ NextNumber(num)
            /\ ver' = Without(rows, Pruned(rows, r))
            /\ sess' = [status |-> "ready", active |-> r, number |-> num, flight |-> 0]
            /\ run' = [run EXCEPT ![r] = RunSucceeded(@)]
  BY DEF GoLive, Numbers
<1> DEFINE row == MadeReady(ver[r], num, exec[r].page, exec[r].seen)
           w == [ver EXCEPT ![r] = row]
           s == [status |-> "ready", active |-> r, number |-> num, flight |-> 0]
           q == [run EXCEPT ![r] = RunSucceeded(@)]
<1>2. /\ ver \in [Versions -> Version] /\ r \in Versions /\ ver[r] \in Version
      /\ exec[r] \in Exec /\ sess.flight = r /\ ~ ver[r].restricted
      /\ Book(sess, ver, run, task) /\ sess \in Session
  BY BuildsAreVersions DEF IInv, Book, BookTyped, Matches, OpenSound
<1>3. /\ row \in Version /\ row.status = "ready" /\ row.num = num /\ row.seq = ver[r].seq
      /\ row.restricted = ver[r].restricted /\ row.content = ver[r].content
      /\ row.hid = ver[r].hid /\ row.shown = exec[r].page.shown /\ row.seen = exec[r].seen
  BY <1>2, MadeReadyRow DEF Exec
<1>4. \A u \in Versions \ {r} : IsRow(ver[u]) => ver[u].seq < row.seq /\ ver[u].num < num
  BY <1>1, <1>2, <1>3 DEF NextNumber, Rows, Book, OpenSound
<1>5. w[r] = row /\ \A u \in Versions \ {r} : w[u] = ver[u]
  BY <1>2
<1>6. sess.number < num
  <2>1. CASE sess.active = 0
    BY <1>2, <2>1, StudioAssumption DEF Book, SessionSound, Numbers
  <2>2. CASE sess.active # 0
    <3>1. sess.active \in Versions /\ ver[sess.active].status = "ready"
          /\ ver[sess.active].num = sess.number /\ sess.active # r
      BY <1>2, <2>2 DEF Session, Book, LiveSound, OpenStatus
    <3>2. QED BY <1>4, <3>1 DEF IsRow
  <2>3. QED BY <2>1, <2>2
<1>7. ver[r].content = exec[r].content
  BY DEF IInv, Working
<1> HIDE DEF row
<1>8. Book(s, w, q, task)
  BY <1>2, <1>3, <1>4, LiveRowBook
<1>9. old \in SUBSET Versions /\ \A v \in old : w[v].status = "ready" /\ v # r
  BY <1>2, <1>5 DEF Showing, Ready
<1>10. s.active = r /\ s.flight = 0 /\ s.status = "ready" /\ s.number = num
  OBVIOUS
<1>11. /\ sess' = s /\ run' = q
       /\ ver' = Without(Restricted(w, old), Pruned(Restricted(w, old), r))
  BY <1>1 DEF row
<1> HIDE DEF w, s, q, old
<1> DEFINE rows == Restricted(w, old)
<1>12. /\ Book(s, rows, q, task)
       /\ \A v \in Versions : /\ SamePage(rows[v], w[v]) /\ rows[v].status = w[v].status
                              /\ rows[v].restricted = (w[v].restricted \/ v \in old)
  BY <1>8, <1>9, <1>10, RestrictedBook
<1> HIDE DEF rows
<1>13. /\ Book(s, ver', q, task) /\ ver'[r] = rows[r]
       /\ \A v \in Versions : ver'[v] = rows[v] \/ (IsRow(rows[v]) /\ ver'[v] = Deleted)
  BY <1>2, <1>10, <1>11, <1>12, PrunedBook DEF rows
<1>14. Book(sess, ver, run, task)'
  BY <1>11, <1>13
<1>15. ASSUME NEW p \in Versions \ {r}
       PROVE  /\ Fewer(ver'[p], ver[p]) /\ Spared(ver'[p], ver[p])
              /\ ver'[p].status = "ready" => ver'[p].num < num /\ (p \in old => ver'[p].restricted)
  <2>1. /\ SamePage(rows[p], ver[p]) /\ rows[p].status = ver[p].status
        /\ rows[p].restricted = (ver[p].restricted \/ p \in old)
    BY <1>5, <1>12
  <2>2. CASE ver'[p] = rows[p]
    BY <1>4, <2>1, <2>2 DEF Fewer, Spared, SamePage, IsRow
  <2>3. CASE IsRow(rows[p]) /\ ver'[p] = Deleted
    BY <2>1, <2>3, EmptyRows DEF Fewer, Spared, IsRow, OpenStatus
  <2>4. QED BY <1>13, <2>2, <2>3
<1>16. /\ ver'[r].content = exec[r].content /\ ver'[r].shown = exec[r].page.shown
       /\ ver'[r].seen = exec[r].seen /\ ver'[r].hid = ver[r].hid /\ ver'[r].num = num
  BY <1>2, <1>3, <1>5, <1>7, <1>12, <1>13 DEF SamePage
<1>17. QED BY <1>6, <1>10, <1>11, <1>14, <1>15, <1>16, SMTT(20) DEF old

LEMMA PromoteStep == ASSUME IInv, NEW r \in Builds, Promote(r) PROVE IInv'
<1>0. exec[r].pc = "promote" /\ UNCHANGED <<task, job, site, faults>>
  BY DEF Promote
<1>1. CASE /\ Matches(r) /\ ver[r].status \in OpenStatus /\ GoLive(r)
           /\ Returns(r, "succeeded")
  <2>1. Book(sess, ver, run, task)' /\ \A p \in Builds \ {r} : Spared(ver'[p], ver[p])
    BY <1>0, <1>1, GoLiveRows, BuildsAreVersions
  <2>2. QED BY <1>0, <1>1, <2>1, ReturnsOver, EndStep
<1>2. CASE Returns(r, "cancelled") /\ UNCHANGED <<sess, ver, run>>
  BY <1>0, <1>2, ReturnsOver, OverStep DEF Late
<1>3. CASE Goes(r, "record") /\ UNCHANGED <<sess, ver, run>>
  BY <1>0, <1>3, RecordsOver
<1>4. QED BY <1>1, <1>2, <1>3 DEF Promote

LEMMA NextKeepsBook == IInv /\ [Next]_vars => IInv'
<1> SUFFICES ASSUME IInv, [Next]_vars PROVE IInv'
  OBVIOUS
<1>1. ASSUME NEW r \in Builds,
             Start(r) \/ PostMessage(r) \/ Claim(r) \/ Recover(r) \/ Timeout(r) \/ Crash(r)
      PROVE  IInv'
  BY <1>1, StartStep, PostMessageStep, QueueSteps, TimeoutStep
<1>2. ASSUME NEW r \in Builds, Handler(r) PROVE IInv'
  BY <1>2, OpenStep, EnterStep, InterpretStep, ReplyStep, CreateStep, AnnounceStep, MarkStep,
     GenerateStep, ValidatesStep, VerifiesStep, PromoteStep, RecordStep, SettleStep, HookStep
  DEF Handler
<1>3. ASSUME NEW new \in Restores, NEW source \in Versions, Restore(new, source) PROVE IInv'
  BY <1>3, RestoreStep
<1>4. CASE Reconcile \/ Stop \/ Sweep
  BY <1>4, ReconcileStep, StopStep, SweepStep
<1>5. CASE UNCHANGED vars
  BY <1>5 DEF vars, IInv
<1>6. QED BY <1>1, <1>2, <1>3, <1>4, <1>5 DEF Next

THEOREM StudioBook == Spec => []IInv
  BY InitBook, NextKeepsBook, PTL DEF Spec

\* Every row, whatever state a session is in, has its type, and the row and
\* the run of a build tell the same story.
THEOREM StudioTypes == Spec => []TypeOK
  BY StudioBook, TypesAndRows, PTL

THEOREM RowsAndRunsAgree == Spec => []RowsAgree
  BY StudioBook, TypesAndRows, PTL

-----------------------------------------------------------------------------
(* What a step does to the live page.                                       *)

Building == sess.status = "build_running"
NoNewPage == \A p \in Versions : Fewer(ver'[p], ver[p])

\* A build's page goes live.
Publishes(r) ==
    /\ Matches(r) /\ exec[r].pc = "promote" /\ ver[r].status \in OpenStatus
    /\ GoLive(r) /\ UNCHANGED <<task, site>>

LEMMA SamePages == ver' = ver => NoNewPage
  BY DEF NoNewPage, Fewer, SamePage

LEMMA FailedNames ==
    ASSUME NEW s \in Session
    PROVE  Failed(s).number = s.number /\ Failed(s).status # "build_running"
  BY DEF Failed, Session

\* The end of a build that is in flight, without a page.
LEMMA EndsPageless ==
    ASSUME IInv, NEW r \in Builds, sess.flight = r, NEW x \in {"failed", "cancelled"},
           sess' = Failed(sess), ver' = [ver EXCEPT ![r] = Broken(@, x)]
    PROVE  NoNewPage /\ Building /\ ~ Building' /\ sess'.number = sess.number
<1>1. /\ sess \in Session /\ ver \in [Versions -> Version] /\ r \in Versions /\ r # 0
      /\ ver[r] \in Version /\ sess.status = "build_running"
  BY BuildsAreVersions DEF IInv, Book, BookTyped, SessionSound
<1>2. \A v \in Versions \ {r} : ver'[v] = ver[v]
  BY <1>1
<1>3. ver'[r] = Broken(ver[r], x)
  BY <1>1
<1>4. Fewer(ver'[r], ver[r])
  BY <1>1, <1>3, BrokenRow DEF Fewer
<1>5. QED BY <1>1, <1>2, <1>4, FailedNames DEF NoNewPage, Fewer, SamePage, Building

LEMMA PersistMoves ==
    ASSUME IInv, NEW r \in Builds, Persist(r)
    PROVE  /\ NoNewPage /\ sess'.number = sess.number
           /\ (sess' = sess \/ (Building /\ ~ Building'))
<1>1. CASE Matches(r)
  BY <1>1, EndsPageless DEF Persist, Matches
<1>2. CASE ~ Matches(r)
  BY <1>2, SamePages DEF Persist
<1>3. QED BY <1>1, <1>2

LEMMA LaunchMoves ==
    ASSUME IInv, NEW r \in Builds, Start(r) \/ PostMessage(r)
    PROVE  NoNewPage /\ Building' /\ sess'.number = sess.number /\ UNCHANGED site
<1>1. /\ sess' = [Sess EXCEPT !.status = "build_running", !.flight = r] /\ ver' = Ver
      /\ UNCHANGED site
  BY DEF Start, PostMessage, Launch
<1>2. Sess \in Session /\ Sess.number = sess.number
      /\ \A p \in Versions : Fewer(Ver[p], ver[p])
  BY Reconciled DEF Book, BookTyped, Fewer
<1>3. QED BY <1>1, <1>2 DEF Session, NoNewPage, Building

LEMMA RowMoves ==
    ASSUME IInv, NEW r \in Builds, Mark(r) \/ Enter(r) \/ Create(r)
    PROVE  NoNewPage /\ UNCHANGED <<sess, site>>
<1>0. ver \in [Versions -> Version] /\ r \in Versions /\ ver[r] \in Version
  BY BuildsAreVersions DEF IInv, Book, BookTyped
<1>1. CASE Mark(r)
  <2>1. /\ ver' = [ver EXCEPT ![r] = Announced(@, exec[r].stage)] /\ UNCHANGED <<sess, site>>
        /\ exec[r].stage \in OpenStatus
    BY <1>1 DEF Mark, IInv, Exec
  <2>2. Fewer(ver'[r], ver[r])
    BY <1>0, <2>1, AnnouncedRow DEF Fewer, OpenStatus
  <2>3. QED BY <1>0, <2>1, <2>2 DEF NoNewPage, Fewer, SamePage
<1>2. ASSUME NEW content \in Contents, NEW hid \in SUBSET STRING, NEW seq \in Numbers,
             NewRow(r, content, hid, seq)
      PROVE  NoNewPage
  <2>1. ver' = [ver EXCEPT ![r] = Fresh(content, hid, seq)]
    BY <1>2 DEF NewRow
  <2>2. Fewer(ver'[r], ver[r])
    BY <1>0, <2>1, FreshRow DEF Fewer
  <2>3. QED BY <1>0, <2>1, <2>2 DEF NoNewPage, Fewer, SamePage
<1>3. CASE Enter(r)
  <2>1. task[r].base \in Contents /\ {} \in SUBSET STRING
    BY DEF IInv, Book, BookTyped, Task
  <2>2. QED BY <1>2, <1>3, <2>1, SamePages DEF Enter, Numbers
<1>4. CASE Create(r)
  <2>1. exec[r].content \in Contents /\ exec[r].hid \in SUBSET STRING
    BY DEF IInv, Exec
  <2>2. QED BY <1>2, <1>4, <2>1, SamePages DEF Create, Numbers
<1>5. QED BY <1>1, <1>3, <1>4

LEMMA QuietMoves ==
    ASSUME NEW r \in Builds,
           \/ Claim(r) \/ Recover(r) \/ Timeout(r) \/ Crash(r) \/ Open(r) \/ Interpret(r)
           \/ Announce(r) \/ Generate(r) \/ Validates(r) \/ Verifies(r) \/ Settle(r)
    PROVE  UNCHANGED <<sess, ver, site>>
  BY DEF Claim, Recover, Timeout, Crash, Open, Interpret, Announce, Generate, Validates,
         Verifies, Settle

\* What a step does to the live page: nothing, or it begins a build, or ends
\* one without a page, or a page goes live after a build or by a restore.
StepKind ==
    \/ NoNewPage /\ sess' = sess
    \/ NoNewPage /\ Building' /\ sess'.number = sess.number
    \/ NoNewPage /\ Building /\ ~ Building' /\ sess'.number = sess.number
    \/ \E r \in Builds : Publishes(r)
    \/ \E new \in Restores, source \in Versions : Restore(new, source)

LEMMA ReconcileMoves == ASSUME IInv, Reconcile PROVE StepKind /\ UNCHANGED site
<1> DEFINE r == sess.flight
<1>1. r \in Builds
  BY DEF Reconcile, Lost, IInv, Book, BookTyped, Session, SessionSound
<1>2. sess' = Failed(sess) /\ ver' = [ver EXCEPT ![r] = Broken(@, "failed")] /\ UNCHANGED site
  BY DEF Reconcile, Sess, Ver
<1>3. QED BY <1>1, <1>2, EndsPageless DEF StepKind

LEMMA StopMoves == ASSUME IInv, Stop PROVE StepKind /\ UNCHANGED site
<1> DEFINE r == sess.flight
<1>1. r \in Builds
  BY DEF Stop, IInv, Book, BookTyped, Session, SessionSound
<1>2. sess' = Failed(sess) /\ ver' = [ver EXCEPT ![r] = Broken(@, "cancelled")] /\ UNCHANGED site
  BY DEF Stop
<1>3. QED BY <1>1, <1>2, EndsPageless DEF StepKind

LEMMA SweepMoves == ASSUME IInv, Sweep PROVE StepKind /\ UNCHANGED site
<1>1. PICK aged \in SUBSET Swept \ {{}} : ver' = Without(ver, aged)
  BY DEF Sweep
<1>2. UNCHANGED <<sess, site>> /\ DOMAIN ver = Versions
  BY DEF Sweep, IInv, Book, BookTyped
<1>3. \A v \in Versions : ver'[v] = IF v \in aged THEN Deleted ELSE ver[v]
  BY <1>1, <1>2 DEF Without
<1>4. NoNewPage
  BY <1>3, EmptyRows DEF NoNewPage, Fewer, SamePage
<1>5. QED BY <1>2, <1>4 DEF StepKind

LEMMA ReplyMoves == ASSUME IInv, NEW r \in Builds, Reply(r) PROVE StepKind /\ UNCHANGED site
<1>1. UNCHANGED <<ver, site>> /\ sess \in Session
  BY DEF Reply, IInv, Book, BookTyped
<1>2. CASE Matches(r) /\ sess' = [sess EXCEPT !.status = "ready", !.flight = 0]
  <2>1. Building /\ ~ Building' /\ sess'.number = sess.number
    BY <1>1, <1>2 DEF Building, Matches, Session
  <2>2. QED BY <1>1, <2>1, SamePages DEF StepKind
<1>3. CASE UNCHANGED sess
  BY <1>1, <1>3, SamePages DEF StepKind
<1>4. QED BY <1>2, <1>3 DEF Reply

LEMMA PromoteMoves == ASSUME IInv, NEW r \in Builds, Promote(r) PROVE StepKind /\ UNCHANGED site
<1>1. UNCHANGED <<task, site>> /\ exec[r].pc = "promote"
  BY DEF Promote
<1>2. CASE Matches(r) /\ ver[r].status \in OpenStatus /\ GoLive(r)
  BY <1>1, <1>2 DEF StepKind, Publishes
<1>3. CASE UNCHANGED <<sess, ver>>
  BY <1>1, <1>3, SamePages DEF StepKind
<1>4. QED BY <1>2, <1>3 DEF Promote

LEMMA StepKinds == IInv /\ [Next]_vars => StepKind /\ UNCHANGED site
<1> SUFFICES ASSUME IInv, [Next]_vars PROVE StepKind /\ UNCHANGED site
  OBVIOUS
<1>1. ASSUME NEW r \in Builds, Start(r) \/ PostMessage(r) PROVE StepKind /\ UNCHANGED site
  BY <1>1, LaunchMoves DEF StepKind
<1>2. ASSUME NEW r \in Builds,
             \/ Claim(r) \/ Recover(r) \/ Timeout(r) \/ Crash(r) \/ Open(r) \/ Interpret(r)
             \/ Announce(r) \/ Generate(r) \/ Validates(r) \/ Verifies(r) \/ Settle(r)
      PROVE  StepKind /\ UNCHANGED site
  BY <1>2, QuietMoves, SamePages DEF StepKind
<1>3. ASSUME NEW r \in Builds, Mark(r) \/ Enter(r) \/ Create(r) PROVE StepKind /\ UNCHANGED site
  BY <1>3, RowMoves DEF StepKind
<1>4. ASSUME NEW r \in Builds, Record(r) \/ Hook(r) PROVE StepKind /\ UNCHANGED site
  BY <1>4, PersistMoves DEF StepKind, Record, Hook
<1>5. ASSUME NEW r \in Builds, Handler(r) PROVE StepKind /\ UNCHANGED site
  BY <1>2, <1>3, <1>4, <1>5, ReplyMoves, PromoteMoves DEF Handler
<1>6. ASSUME NEW new \in Restores, NEW source \in Versions, Restore(new, source)
      PROVE  StepKind /\ UNCHANGED site
  BY <1>6 DEF StepKind, Restore
<1>7. CASE UNCHANGED vars
  BY <1>7, SamePages DEF vars, StepKind
<1>8. QED
  BY <1>1, <1>2, <1>5, <1>6, <1>7, ReconcileMoves, StopMoves, SweepMoves DEF Next

-----------------------------------------------------------------------------
(* The live page is only replaced by a later one.                           *)

LEMMA PublishKeeps ==
    ASSUME IInv, NEW r \in Builds, Publishes(r)
    PROVE  Building /\ ~ Building' /\ sess'.number > sess.number /\ sess'.number \in Nat
<1>1. Book(sess, ver, run, task)' /\ sess'.status = "ready" /\ sess'.number > sess.number
  BY GoLiveRows DEF Publishes
<1>2. QED BY <1>1 DEF Publishes, Building, Matches, Book, BookTyped, Session

LEMMA RestoreKeeps ==
    ASSUME IInv, NEW new \in Restores, NEW source \in Versions, Restore(new, source)
    PROVE  /\ ~ Building' /\ sess.number > 0
           /\ sess'.number > sess.number /\ sess'.number \in Nat
<1>1. Book(sess, ver, run, task)' /\ sess'.status = "ready" /\ sess'.number > sess.number
  BY RestoreRows
<1>2. sess.number # 0 /\ sess.number \in Nat
  <2>1. Book(Sess, Ver, Run, task) /\ Sess.number = sess.number /\ Sess.status = "ready"
    BY Reconciled DEF Restore
  <2>2. QED BY <2>1 DEF Book, BookTyped, SessionSound, Session
<1>3. QED BY <1>1, <1>2 DEF Building, Book, BookTyped, Session

LEMMA StepKeepsLivePage ==
    IInv /\ [Next]_vars => [Page!Next]_<<sess.status = "build_running", sess.number>>
<1> SUFFICES ASSUME IInv, [Next]_vars
             PROVE  [Page!Next]_<<sess.status = "build_running", sess.number>>
  OBVIOUS
<1>1. StepKind
  BY StepKinds
<1>2. CASE sess' = sess
  BY <1>2
<1>3. CASE Building' /\ sess'.number = sess.number
  BY <1>3 DEF Building, Page!Next, Page!Begin
<1>4. CASE Building /\ ~ Building' /\ sess'.number = sess.number
  BY <1>4 DEF Building, Page!Next, Page!Abandon
<1>5. ASSUME NEW r \in Builds, Publishes(r)
      PROVE  [Page!Next]_<<sess.status = "build_running", sess.number>>
  BY <1>5, PublishKeeps DEF Building, Page!Next, Page!Publish
<1>6. ASSUME NEW new \in Restores, NEW source \in Versions, Restore(new, source)
      PROVE  [Page!Next]_<<sess.status = "build_running", sess.number>>
  BY <1>6, RestoreKeeps DEF Building, Page!Next, Page!Restore
<1>7. QED BY <1>1, <1>2, <1>3, <1>4, <1>5, <1>6 DEF StepKind

\* Studio implements LivePage: one build at a time, and however builds end and
\* whatever is restored, pruned or swept, the live page only moves to a page
\* with a higher number.
THEOREM StudioKeepsLivePage == Spec => KeepsLivePage
<1>1. Init => Page!Init
  BY DEF Init, Page!Init
<1>2. IInv /\ [Next]_vars => [Page!Next]_<<sess.status = "build_running", sess.number>>
  BY StepKeepsLivePage
<1>3. QED BY <1>1, <1>2, StudioBook, PTL DEF Spec, KeepsLivePage, Page!Spec

-----------------------------------------------------------------------------
(* What a page shows.                                                       *)

\* What Studio relies on: a page that validation lets pass shows what its
\* content promises and no more than it permits, and a browser that has to look
\* at a page does not let it pass unseen.
PagesSound ==
    /\ \A theme \in SiteThemes, content \in Contents : \A page \in Pages(theme, content) :
          page.failed = "no" =>
            Promises(theme, content) \subseteq page.shown /\ page.shown \subseteq Permits(theme, content)
    /\ "required" \in DOMAIN Sights => Sights["required"] \subseteq {"passed", "failed"}

AllSound == \A v \in Ready : Sound(v)

LEMMA SoundKept ==
    ASSUME AllSound, NoNewPage, UNCHANGED site
    PROVE  AllSound'
<1>1. ASSUME NEW v \in Ready' PROVE Sound(v)'
  <2>1. v \in Ready /\ SamePage(ver'[v], ver[v])
    BY <1>1 DEF Ready, NoNewPage, Fewer
  <2>2. QED BY <2>1 DEF AllSound, Sound, SamePage
<1>2. QED BY <1>1 DEF AllSound

LEMMA HiddenKept ==
    ASSUME HiddenStaysHidden, NoNewPage
    PROVE  HiddenStaysHidden'
<1>1. ASSUME NEW v \in Ready', NEW u \in Ready', ver'[u].num < ver'[v].num, ~ ver'[u].restricted
      PROVE  ver'[u].shown \cap ver'[v].hid = {}
  <2>1. /\ v \in Ready /\ SamePage(ver'[v], ver[v])
        /\ u \in Ready /\ SamePage(ver'[u], ver[u]) /\ ~ ver[u].restricted
    BY <1>1 DEF Ready, NoNewPage, Fewer
  <2>2. QED BY <1>1, <2>1 DEF HiddenStaysHidden, SamePage
<1>2. QED BY <1>1 DEF HiddenStaysHidden

\* The page of a build is sound, because it passed.
LEMMA PublishSound ==
    ASSUME IInv, PagesSound, AllSound, NEW r \in Builds, Publishes(r)
    PROVE  AllSound'
<1>1. /\ Working(exec[r], job[r], task[r].op, ver[r], site) /\ exec[r].pc = "promote"
      /\ exec[r] \in Exec /\ site.theme \in SiteThemes /\ site.browser \in DOMAIN Sights
      /\ UNCHANGED site
  BY DEF IInv, Publishes
<1>2. /\ exec[r].page \in Pages(site.theme, exec[r].content) /\ exec[r].page.failed = "no"
      /\ exec[r].seen \in Verdicts(site.browser) /\ exec[r].content \in Contents
  BY <1>1 DEF Working, Exec
<1>3. /\ ver'[r].content = exec[r].content /\ ver'[r].shown = exec[r].page.shown
      /\ ver'[r].seen = exec[r].seen
      /\ \A p \in Versions \ {r} : Fewer(ver'[p], ver[p])
  BY GoLiveRows DEF Publishes
<1>4. Sound(r)'
  <2>1. /\ Promises(site.theme, exec[r].content) \subseteq exec[r].page.shown
        /\ exec[r].page.shown \subseteq Permits(site.theme, exec[r].content)
    BY <1>1, <1>2 DEF PagesSound
  <2>2. site.browser = "required" => exec[r].seen = "passed"
    BY <1>1, <1>2 DEF PagesSound, Verdicts
  <2>3. QED BY <1>1, <1>3, <2>1, <2>2 DEF Sound
<1>5. ASSUME NEW v \in Ready' PROVE Sound(v)'
  <2>1. CASE v = r
    BY <1>4, <2>1
  <2>2. CASE v # r
    <3>1. v \in Ready /\ SamePage(ver'[v], ver[v])
      BY <1>3, <1>5, <2>2 DEF Ready, Fewer
    <3>2. QED BY <1>1, <3>1 DEF AllSound, Sound, SamePage
  <2>3. QED BY <2>1, <2>2
<1>6. QED BY <1>5 DEF AllSound

\* A sound page shows no text that is not in its content.
LEMMA SoundShowsContent ==
    ASSUME IInv, NEW v \in Versions, Sound(v)
    PROVE  ver[v].shown \subseteq Leaves[ver[v].content]
<1>1. site.theme \in SiteThemes /\ ver[v].content \in DOMAIN Leaves
  BY DEF IInv, Book, BookTyped, Version, Contents
<1>2. Permits(site.theme, ver[v].content) \subseteq Leaves[ver[v].content]
  BY <1>1, StudioAssumption
<1>3. QED BY <1>2 DEF Sound

LEMMA PublishHides ==
    ASSUME IInv, AllSound, HiddenStaysHidden, NEW r \in Builds, Publishes(r)
    PROVE  HiddenStaysHidden'
<1>1. /\ ver'[r].hid = ver[r].hid /\ r \in Versions /\ ver[r].status \in OpenStatus
      /\ \A p \in Versions \ {r} :
           /\ Fewer(ver'[p], ver[p])
           /\ ver'[p].status = "ready" =>
                ver'[p].num < ver'[r].num
                /\ (p \in Showing(r, ver[r].hid) => ver'[p].restricted)
  BY GoLiveRows, BuildsAreVersions DEF Publishes
<1>2. \A p \in Versions : ver'[p].status = "ready" => ver'[p].num \in Nat
  BY GoLiveRows DEF Publishes, Book, BookTyped, Version
<1>3. ASSUME NEW v \in Ready', NEW u \in Ready', ver'[u].num < ver'[v].num, ~ ver'[u].restricted
      PROVE  ver'[u].shown \cap ver'[v].hid = {}
  <2>1. u \in Versions /\ v \in Versions /\ ver'[u].status = "ready" /\ ver'[v].status = "ready"
    BY <1>3 DEF Ready
  <2>2. u # r
    <3>1. SUFFICES ASSUME u = r PROVE FALSE
      OBVIOUS
    <3>2. v # r /\ ver'[v].num < ver'[r].num
      BY <1>1, <1>2, <1>3, <2>1, <3>1
    <3>3. QED BY <1>2, <1>3, <2>1, <3>1, <3>2
  <2>3. u \in Ready /\ SamePage(ver'[u], ver[u]) /\ ~ ver[u].restricted
    BY <1>1, <1>3, <2>1, <2>2 DEF Ready, Fewer
  <2>4. CASE v = r
    <3>1. Leaves[ver[u].content] \cap ver[r].hid = {}
      BY <1>1, <1>3, <2>1, <2>2, <2>3 DEF Showing
    <3>2. ver[u].shown \subseteq Leaves[ver[u].content]
      BY <2>1, <2>3, SoundShowsContent DEF AllSound
    <3>3. QED BY <1>1, <2>3, <2>4, <3>1, <3>2 DEF SamePage
  <2>5. CASE v # r
    <3>1. v \in Ready /\ SamePage(ver'[v], ver[v])
      BY <1>1, <2>1, <2>5 DEF Ready, Fewer
    <3>2. QED BY <1>3, <2>3, <3>1 DEF HiddenStaysHidden, SamePage
  <2>6. QED BY <2>4, <2>5
<1>4. QED BY <1>3 DEF HiddenStaysHidden

\* A copy is as sound as its source, and the newest page hides nothing.
LEMMA RestoreSound ==
    ASSUME IInv, AllSound, HiddenStaysHidden,
           NEW new \in Restores, NEW source \in Versions, Restore(new, source)
    PROVE  AllSound' /\ HiddenStaysHidden'
<1>1. /\ ver[source].status = "ready" /\ ver'[new].hid = {} /\ new \in Versions
      /\ ver'[new].content = ver[source].content /\ ver'[new].shown = ver[source].shown
      /\ ver'[new].seen = ver[source].seen
      /\ \A p \in Versions \ {new} :
           /\ Fewer(ver'[p], ver[p])
           /\ ver'[p].status = "ready" => ver'[p].num < ver'[new].num
      /\ UNCHANGED site
  BY RestoreRows, BuildsAreVersions DEF Restore
<1>2. \A p \in Versions : ver'[p].num \in Nat
  BY RestoreRows DEF Book, BookTyped, Version
<1>3. ASSUME NEW v \in Ready' PROVE Sound(v)'
  <2>1. CASE v = new
    BY <1>1, <2>1 DEF AllSound, Sound, Ready
  <2>2. CASE v # new
    <3>1. v \in Ready /\ SamePage(ver'[v], ver[v])
      BY <1>1, <1>3, <2>2 DEF Ready, Fewer
    <3>2. QED BY <1>1, <3>1 DEF AllSound, Sound, SamePage
  <2>3. QED BY <2>1, <2>2
<1>4. ASSUME NEW v \in Ready', NEW u \in Ready', ver'[u].num < ver'[v].num, ~ ver'[u].restricted
      PROVE  ver'[u].shown \cap ver'[v].hid = {}
  <2>1. u \in Versions /\ v \in Versions /\ ver'[u].status = "ready" /\ ver'[v].status = "ready"
    BY <1>4 DEF Ready
  <2>2. CASE v = new
    BY <1>1, <2>2
  <2>3. CASE v # new
    <3>1. u # new
      BY <1>1, <1>2, <1>4, <2>1, <2>3
    <3>2. /\ v \in Ready /\ SamePage(ver'[v], ver[v])
          /\ u \in Ready /\ SamePage(ver'[u], ver[u]) /\ ~ ver[u].restricted
      BY <1>1, <1>4, <2>1, <2>3, <3>1 DEF Ready, Fewer
    <3>3. QED BY <1>4, <3>2 DEF HiddenStaysHidden, SamePage
  <2>4. QED BY <2>2, <2>3
<1>5. QED BY <1>3, <1>4 DEF AllSound, HiddenStaysHidden

LEMMA PagesStep ==
    ASSUME PagesSound, IInv, AllSound, HiddenStaysHidden, [Next]_vars
    PROVE  AllSound' /\ HiddenStaysHidden'
<1>1. StepKind /\ UNCHANGED site
  BY StepKinds
<1>2. CASE NoNewPage
  BY <1>1, <1>2, SoundKept, HiddenKept
<1>3. ASSUME NEW r \in Builds, Publishes(r) PROVE AllSound' /\ HiddenStaysHidden'
  BY <1>3, PublishSound, PublishHides
<1>4. ASSUME NEW new \in Restores, NEW source \in Versions, Restore(new, source)
      PROVE  AllSound' /\ HiddenStaysHidden'
  BY <1>4, RestoreSound
<1>5. QED BY <1>1, <1>2, <1>3, <1>4 DEF StepKind

LEMMA InitPages == Init => AllSound /\ HiddenStaysHidden
<1> SUFFICES ASSUME Init PROVE Ready = {}
  BY DEF AllSound, HiddenStaysHidden
<1>1. QED BY EmptyRows DEF Init, Ready

LEMMA LiveFromBook == IInv /\ AllSound => LivePageSound
<1> SUFFICES ASSUME IInv, AllSound PROVE LivePageSound
  OBVIOUS
<1>1. SessionSound(sess, task) /\ LiveSound(sess, ver)
  BY DEF IInv, Book
<1>2. QED BY <1>1 DEF SessionSound, LiveSound, LivePageSound, AllSound, Servable, Ready

\* Whatever the model writes and however builds, stops, restores and deletions
\* interleave: if validation is right about each single page, then the live
\* page can be served and is the newest, and every page in reach shows its own
\* content.
THEOREM LivePageHolds == ASSUME PagesSound PROVE Spec => []LivePageSound
<1>1. Init => IInv /\ AllSound /\ HiddenStaysHidden
  BY InitBook, InitPages
<1>2. (IInv /\ AllSound /\ HiddenStaysHidden) /\ [Next]_vars
        => (IInv /\ AllSound /\ HiddenStaysHidden)'
  BY PagesSound, NextKeepsBook, PagesStep
<1>3. IInv /\ AllSound /\ HiddenStaysHidden => LivePageSound
  BY LiveFromBook
<1>4. QED BY <1>1, <1>2, <1>3, PTL DEF Spec

\* Under the same condition, what a request took off the page is on no older
\* page that can still be shown.
THEOREM HiddenHolds == ASSUME PagesSound PROVE Spec => []HiddenStaysHidden
<1>1. Init => IInv /\ AllSound /\ HiddenStaysHidden
  BY InitBook, InitPages
<1>2. (IInv /\ AllSound /\ HiddenStaysHidden) /\ [Next]_vars
        => (IInv /\ AllSound /\ HiddenStaysHidden)'
  BY PagesSound, NextKeepsBook, PagesStep
<1>3. QED BY <1>1, <1>2, PTL DEF Spec

=============================================================================
