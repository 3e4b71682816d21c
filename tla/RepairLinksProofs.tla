-------------------------- MODULE RepairLinksProofs --------------------------
(***************************************************************************)
(* Theorems about RepairLinks, for any set of branches and any bounds.     *)
(* What is said of first successes and of links rests on two assumptions,  *)
(* which the theorems name: nobody names parents, and every branch has one *)
(* client, which waits for its answers.                                    *)
(***************************************************************************)
EXTENDS RepairLinks, SequenceTheorems, WellFoundedInduction, TLAPS

-----------------------------------------------------------------------------
(* Numbers. *)

Less == {p \in Nat \X Nat : p[1] < p[2]}

LEMMA LessWF == IsWellFoundedOn(Less, Nat)
<1>1. OpToRel(<, Nat) = Less
  BY DEF OpToRel, Less
<1> QED BY <1>1, NatLessThanWellFounded

\* A set of numbers that is not empty has a least element.
LEMMA LeastNumber ==
  ASSUME NEW T \in SUBSET Nat, T # {}
  PROVE  \E x \in T : \A y \in T : x <= y
<1>1. PICK x \in T : \A y \in T : <<y, x>> \notin Less
  BY LessWF, WFMin
<1> SUFFICES ASSUME NEW y \in T PROVE x <= y
  OBVIOUS
<1>2. x \in Nat /\ y \in Nat /\ <<y, x>> \notin Less
  BY <1>1
<1>3. ~(y < x)
  BY <1>2 DEF Less
<1> QED BY <1>2, <1>3

-----------------------------------------------------------------------------
(* What is reachable from an event. *)

\* up names earlier events as the parents of every event.
Chain(up) == DOMAIN up = Times /\ \A i \in Times : up[i] \subseteq 1..(i - 1)

Reach(f, up, i) == IF i = 0 THEN {} ELSE {i} \cup UNION {f[p] : p \in up[i]}

Solves(f, up, m) == f = [i \in 0..m |-> Reach(f, up, i)]

\* The recursion of Reachable has a solution: one for the first m events gives one
\* for the next.
LEMMA ReachExists ==
  ASSUME NEW up, Chain(up)
  PROVE  \E f : Solves(f, up, MaxEvents)
<1> DEFINE n == MaxEvents
           T == {m \in 0..n : ~\E f : Solves(f, up, m)}
<1>0. n \in Nat /\ n \in 0..n /\ Times = 1..n
  BY LinkConstants DEF Times
<1> HIDE DEF n
<1> SUFFICES ASSUME T # {} PROVE FALSE
  <2>1. CASE T = {}
    <3>1. n \notin T
      BY <2>1
    <3> QED BY <1>0, <3>1 DEF n
  <2> QED BY <2>1
<1>1. T \in SUBSET Nat
  BY <1>0
<1>2. PICK m \in T : \A k \in T : m <= k
  BY <1>1, LeastNumber
<1>3. m \in 0..n /\ m \in Nat /\ ~\E f : Solves(f, up, m)
  BY <1>2, <1>0
<1>4. CASE m = 0
  <2> DEFINE f == [i \in 0..0 |-> {}]
  <2>1. Solves(f, up, 0)
    BY DEF Solves, Reach
  <2> QED BY <1>3, <1>4, <2>1
<1>5. CASE m # 0
  <2>1. m - 1 \in 0..n /\ m - 1 \notin T
    <3>1. m - 1 \in 0..n /\ ~(m <= m - 1)
      BY <1>0, <1>3, <1>5
    <3> QED BY <1>2, <3>1
  <2>2. PICK f : Solves(f, up, m - 1)
    BY <2>1
  <2> DEFINE g == [i \in 0..m |-> IF i = m THEN Reach(f, up, m) ELSE f[i]]
  <2>3. ASSUME NEW i \in 0..m PROVE g[i] = Reach(g, up, i)
    <3>1. CASE i = 0
      BY <1>3, <1>5, <2>2, <3>1 DEF Solves, Reach
    <3>2. CASE i # 0
      <4>1. i \in Times /\ up[i] \subseteq 1..(i - 1) /\ i \in 1..m
        BY <1>0, <1>3, <3>2 DEF Chain
      <4>2. \A p \in up[i] : p \in 0..m /\ p # m
        BY <1>3, <4>1
      <4>3. \A p \in up[i] : g[p] = f[p]
        BY <4>2
      <4>4. g[i] = Reach(f, up, i)
        <5>1. CASE i = m
          BY <5>1
        <5>2. CASE i # m
          <6>1. i \in 0..(m - 1)
            BY <1>3, <5>2, <4>1
          <6>2. f[i] = Reach(f, up, i)
            BY <2>2, <6>1 DEF Solves
          <6> QED BY <5>2, <6>2
        <5> QED BY <5>1, <5>2
      <4> HIDE DEF g
      <4>5. UNION {g[p] : p \in up[i]} = UNION {f[p] : p \in up[i]}
        BY <4>3
      <4> QED BY <3>2, <4>5, <4>4 DEF Reach
    <3> QED BY <3>1, <3>2
  <2>4. DOMAIN g = 0..m /\ g = [i \in 0..m |-> g[i]]
    OBVIOUS
  <2> HIDE DEF g
  <2>5. Solves(g, up, m)
    BY <2>3, <2>4 DEF Solves
  <2> QED BY <1>3, <2>5
<1> QED BY <1>4, <1>5

\* Nothing is reachable from no event; from an event, itself and what its parents
\* reach.
LEMMA ReachableStep ==
  ASSUME NEW up, Chain(up)
  PROVE  /\ Reachable(up, 0) = {}
         /\ \A i \in Times : Reachable(up, i) = {i} \cup UNION {Reachable(up, p) : p \in up[i]}
<1> DEFINE D == {0} \cup DOMAIN up
           reach == CHOOSE f :
             f = [i \in D |-> IF i = 0 THEN {} ELSE {i} \cup UNION {f[p] : p \in up[i]}]
<1>1. D = 0..MaxEvents
  BY LinkConstants DEF Chain, Times
<1>2. \A e : Reachable(up, e) = reach[e]
  BY DEF Reachable
<1>3. PICK f : Solves(f, up, MaxEvents)
  BY ReachExists
<1>4. f = [i \in D |-> IF i = 0 THEN {} ELSE {i} \cup UNION {f[p] : p \in up[i]}]
  BY <1>1, <1>3 DEF Solves, Reach
<1>5. reach = [i \in D |-> IF i = 0 THEN {} ELSE {i} \cup UNION {reach[p] : p \in up[i]}]
  BY <1>4
<1> HIDE DEF reach, D
<1>6. \A i \in Times : i # 0 /\ i \in D
  BY <1>1, LinkConstants DEF Times
<1>7. 0 \in D
  BY <1>1, LinkConstants
<1>8. ASSUME NEW i \in Times PROVE reach[i] = {i} \cup UNION {reach[p] : p \in up[i]}
  BY <1>5, <1>6
<1>9. reach[0] = {}
  BY <1>5, <1>7
<1>10. ASSUME NEW i \in Times
       PROVE  Reachable(up, i) = {i} \cup UNION {Reachable(up, p) : p \in up[i]}
  <2>1. {Reachable(up, p) : p \in up[i]} = {reach[p] : p \in up[i]}
    BY <1>2
  <2> QED BY <1>2, <1>8, <2>1
<1> QED BY <1>2, <1>9, <1>10

\* What is reachable from one of some events that have their parents among them is
\* among them.
LEMMA ReachableWithin ==
  ASSUME NEW up, Chain(up), NEW S \in SUBSET Times, \A i \in S : up[i] \subseteq S,
         NEW e \in {0} \cup S
  PROVE  Reachable(up, e) \subseteq S
<1> DEFINE T == {x \in S : ~(Reachable(up, x) \subseteq S)}
<1>0. Times \subseteq Nat
  BY DEF Times
<1>1. T = {}
  <2> SUFFICES ASSUME T # {} PROVE FALSE
    OBVIOUS
  <2>1. T \in SUBSET Nat
    BY <1>0
  <2>2. PICK m \in T : \A k \in T : m <= k
    BY <2>1, LeastNumber
  <2>3. m \in S /\ m \in Times /\ m \in Nat /\ ~(Reachable(up, m) \subseteq S)
    BY <2>2, <1>0
  <2>4. Reachable(up, m) = {m} \cup UNION {Reachable(up, p) : p \in up[m]}
    BY <2>3, ReachableStep
  <2>5. ASSUME NEW p \in up[m] PROVE Reachable(up, p) \subseteq S
    <3>1. p \in S /\ p \in 1..(m - 1)
      BY <2>3 DEF Chain
    <3>2. p \notin T
      BY <2>2, <2>3, <3>1
    <3> QED BY <3>1, <3>2
  <2> QED BY <2>3, <2>4, <2>5
<1>2. CASE e = 0
  BY <1>2, ReachableStep
<1>3. CASE e # 0
  BY <1>1, <1>3
<1> QED BY <1>2, <1>3

\* Other events change nothing of it.
LEMMA ReachableStays ==
  ASSUME NEW up, Chain(up), NEW vp, Chain(vp), NEW S \in SUBSET Times,
         \A i \in S : up[i] \subseteq S /\ vp[i] = up[i],
         NEW e \in {0} \cup S
  PROVE  Reachable(vp, e) = Reachable(up, e)
<1> DEFINE T == {x \in S : Reachable(vp, x) # Reachable(up, x)}
<1>0. Times \subseteq Nat
  BY DEF Times
<1>1. T = {}
  <2> SUFFICES ASSUME T # {} PROVE FALSE
    OBVIOUS
  <2>1. T \in SUBSET Nat
    BY <1>0
  <2>2. PICK k \in T : \A x \in T : k <= x
    BY <2>1, LeastNumber
  <2>3. k \in S /\ k \in Times /\ k \in Nat /\ Reachable(vp, k) # Reachable(up, k)
    BY <2>2, <1>0
  <2>4. /\ Reachable(up, k) = {k} \cup UNION {Reachable(up, p) : p \in up[k]}
        /\ Reachable(vp, k) = {k} \cup UNION {Reachable(vp, p) : p \in up[k]}
    BY <2>3, ReachableStep
  <2>5. ASSUME NEW p \in up[k] PROVE Reachable(vp, p) = Reachable(up, p)
    <3>1. p \in S /\ p \in 1..(k - 1)
      BY <2>3 DEF Chain
    <3>2. p \notin T
      BY <2>2, <2>3, <3>1
    <3> QED BY <3>1, <3>2
  <2> QED BY <2>3, <2>4, <2>5
<1>2. CASE e = 0
  BY <1>2, ReachableStep
<1>3. CASE e # 0
  BY <1>1, <1>3
<1> QED BY <1>2, <1>3

-----------------------------------------------------------------------------
(***************************************************************************)
(* The history, whoever writes it with whatever parents.  Shown is Visible *)
(* by the parents the events name: the invariant says nothing of the table *)
(* of edges, so that it also holds while a write to the table is half      *)
(* done.  A request is only going to put what is stored, and gives an      *)
(* event a time after those of its parents.                                *)
(***************************************************************************)

Shown(b) == Reachable(Parents, rows[b].head)

ShapeInv ==
  /\ events \in [Times -> Event \cup {None}]
  /\ rows \in [Branches -> Row \cup {None}]
  /\ job \in [Workers -> Job \cup {None}]
  /\ lost \subseteq Stored

\* stored, created: the events and the branches there are.
RowOK(r, stored, created) ==
  {r.head, r.base} \subseteq {0} \cup stored /\ r.from \in created \cup {None}

JobOK(j, stored, created) ==
  /\ RowOK(j.row, stored, created)
  /\ j.event \in {0} \cup stored
  /\ j.event # 0 => j.step = "row" /\ j.branch \in created
  /\ j.step = "event" => /\ j.branch \in created /\ j.parents \subseteq stored
                         /\ \A p \in j.parents, t \in j.times : p < t
  /\ j.step = "base" => j.row.from \in created

EventsInv ==
  \A e \in Stored : /\ \A p \in events[e].parents : p \in Stored /\ p < e
                    /\ events[e].branch \in Created

RowsInv == \A b \in Created : RowOK(rows[b], Stored, Created)

JobsInv == \A w \in Workers : job[w] # None => JobOK(job[w], Stored, Created)

HistInv == ShapeInv /\ EventsInv /\ RowsInv /\ JobsInv

\* No step takes back an event or a branch.
Grows ==
  /\ Stored \subseteq Stored' /\ \A e \in Stored : events'[e] = events[e]
  /\ Created \subseteq Created'

LEMMA TimesAreNumbers == Times \subseteq Nat /\ 0 \notin Times /\ \A e \in Times : e \in 0..MaxEvents
BY LinkConstants DEF Times

LEMMA StoredEvents ==
  ASSUME HistInv
  PROVE  /\ Stored \subseteq Times
         /\ \A e \in Stored : events[e] \in Event /\ Parents[e] = events[e].parents
                              /\ events[e].branch \in Branches
         /\ Chain(Parents)
         /\ \A e \in Stored : Parents[e] \subseteq Stored
<1>1. Stored \subseteq Times
  BY DEF Stored
<1>2. \A e \in Stored : events[e] \in Event /\ Parents[e] = events[e].parents
  BY DEF HistInv, ShapeInv, Stored, Parents
<1>3. ASSUME NEW e \in Times PROVE Parents[e] \subseteq 1..(e - 1)
  <2>1. CASE e \in Stored
    <3>1. \A p \in Parents[e] : p \in Times /\ p < e
      BY <1>1, <1>2, <2>1 DEF HistInv, EventsInv
    <3> QED BY <3>1, <1>3 DEF Times
  <2>2. CASE e \notin Stored
    BY <1>3, <2>2 DEF Parents
  <2> QED BY <2>1, <2>2
<1>4. Chain(Parents)
  BY <1>3 DEF Chain, Parents
<1> QED BY <1>1, <1>2, <1>4 DEF HistInv, EventsInv, Event

LEMMA ChainNext == HistInv' => Chain(Parents)'
<1>1. HistInv => Chain(Parents)
  BY StoredEvents
<1> QED BY <1>1, PTL

LEMMA CreatedRow ==
  ASSUME HistInv, NEW b \in Created
  PROVE  /\ b \in Branches /\ rows[b] \in Row /\ rows[b] # None
         /\ RowOK(rows[b], Stored, Created) /\ Shown(b) \subseteq Stored
<1>1. b \in Branches /\ rows[b] \in Row /\ rows[b] # None
  BY DEF Created, HistInv, ShapeInv
<1>2. RowOK(rows[b], Stored, Created)
  BY DEF HistInv, RowsInv
<1>3. rows[b].head \in {0} \cup Stored
  BY <1>2 DEF RowOK
<1>4. Shown(b) \subseteq Stored
  BY <1>3, StoredEvents, ReachableWithin DEF Shown
<1> QED BY <1>1, <1>2, <1>4

LEMMA CreatedRowNext == HistInv' => (\A b \in Created : Shown(b) \subseteq Stored)'
<1>1. HistInv => \A b \in Created : Shown(b) \subseteq Stored
  BY CreatedRow
<1> QED BY <1>1, PTL

LEMMA InitHist == HistoryInit => HistInv /\ edges = Parents
<1> SUFFICES ASSUME HistoryInit PROVE HistInv /\ edges = Parents
  OBVIOUS
<1> DEFINE r == [head |-> 0, base |-> 0, from |-> None, rollback |-> FALSE]
<1>1. Stored = {}
  BY DEF HistoryInit, Stored
<1>2. r \in Row /\ r.head = 0 /\ r.base = 0 /\ r.from = None
      /\ rows = [b \in Branches |-> IF b = Main THEN r ELSE None]
  BY LinkConstants DEF HistoryInit, Row
<1> HIDE DEF r
<1>3. \A b \in Created : rows[b] = r
  BY <1>2 DEF Created
<1>4. ShapeInv
  BY <1>1, <1>2 DEF ShapeInv, HistoryInit
<1>5. EventsInv /\ RowsInv /\ JobsInv
  BY <1>1, <1>2, <1>3 DEF EventsInv, RowsInv, JobsInv, RowOK, HistoryInit
<1>6. edges = Parents
  BY <1>1 DEF HistoryInit, Parents
<1> QED BY <1>4, <1>5, <1>6 DEF HistInv

LEMMA RowStays ==
  ASSUME NEW r, NEW S, NEW C, NEW T, NEW D, S \subseteq T, C \subseteq D, RowOK(r, S, C)
  PROVE  RowOK(r, T, D)
BY DEF RowOK

LEMMA JobStays ==
  ASSUME NEW j, NEW S, NEW C, NEW T, NEW D, S \subseteq T, C \subseteq D, JobOK(j, S, C)
  PROVE  JobOK(j, T, D)
BY RowStays DEF JobOK

\* A worker goes on, or is done, and nothing is put.
LEMMA JobStep ==
  ASSUME HistInv, NEW w \in Workers, NEW j, Become(w, j), UNCHANGED <<events, rows, lost>>,
         j = None \/ (j \in Job /\ JobOK(j, Stored, Created))
  PROVE  HistInv'
<1>1. Stored' = Stored /\ Created' = Created
  BY DEF Stored, Created
<1>2. job' \in [Workers -> Job \cup {None}]
      /\ \A v \in Workers : job'[v] = IF v = w THEN j ELSE job[v]
  BY DEF Become, HistInv, ShapeInv
<1> QED BY <1>1, <1>2 DEF HistInv, ShapeInv, EventsInv, RowsInv, JobsInv

\* What a worker becomes that only reads.
LEMMA ReaderJobs ==
  ASSUME HistInv, NEW w \in Workers,
         \/ \E b \in Created : BeginAppend(w, b) \/ BeginSnapshot(w, b)
         \/ \E n \in Branches : BeginRollback(w, n) \/ \E b \in Created : BeginBranch(w, n, b)
         \/ ReadBase(w)
  PROVE  HistInv'
<1>0. UNCHANGED <<events, rows, lost>>
  BY DEF BeginAppend, BeginSnapshot, BeginRollback, BeginBranch, ReadBase
<1>1. ASSUME NEW b \in Created, BeginAppend(w, b) PROVE HistInv'
  <2>1. PICK P \in {{rows[b].head} \ {0}} \cup (IF ClientParents THEN SUBSET Stored ELSE {}) :
          Become(w, [step |-> "event", branch |-> b, row |-> rows[b], parents |-> P,
                     times |-> {e \in Times : \A x \in Stored : x < e}, event |-> 0])
    BY <1>1 DEF BeginAppend
  <2>2. P \subseteq Stored
    BY CreatedRow DEF RowOK
  <2> DEFINE later == {e \in Times : \A x \in Stored : x < e}
             j == [step |-> "event", branch |-> b, row |-> rows[b], parents |-> P,
                   times |-> later, event |-> 0]
  <2>3. later \subseteq Times /\ \A p \in P, t \in later : p < t
    BY <2>2
  <2> HIDE DEF later
  <2>4. j \in Job
    BY <2>2, <2>3, CreatedRow, StoredEvents, LinkConstants DEF Job
  <2>5. /\ j.step = "event" /\ j.branch = b /\ j.row = rows[b] /\ j.parents = P
        /\ j.times = later /\ j.event = 0
    OBVIOUS
  <2>6. Become(w, j)
    BY <2>1 DEF later
  <2> HIDE DEF j
  <2>7. JobOK(j, Stored, Created)
    BY <2>2, <2>3, <2>5, CreatedRow DEF JobOK
  <2> QED BY <1>0, <2>4, <2>6, <2>7, JobStep
<1>2. ASSUME NEW b \in Created, BeginSnapshot(w, b) PROVE HistInv'
  <2> DEFINE j == [step |-> "row", branch |-> b, row |-> rows[b], parents |-> {}, times |-> {},
                   event |-> 0]
  <2>1. Become(w, j)
    BY <1>2 DEF BeginSnapshot
  <2>2. j \in Job
    BY CreatedRow, LinkConstants DEF Job
  <2>3. JobOK(j, Stored, Created)
    BY CreatedRow DEF JobOK
  <2> HIDE DEF j
  <2> QED BY <1>0, <2>1, <2>2, <2>3, JobStep
<1>3. ASSUME NEW step \in {"row", "base"}, NEW n \in Branches, NEW e \in {0} \cup Stored,
             NEW from \in Created \cup {None}, NEW rb \in BOOLEAN, step = "base" => from \in Created,
             Become(w, NewBranch(step, n, e, from, rb))
      PROVE  HistInv'
  <2> DEFINE j == NewBranch(step, n, e, from, rb)
             r == [head |-> e, base |-> e, from |-> from, rollback |-> rb]
  <2>0. Created \subseteq Branches /\ e \in 0..MaxEvents
    BY StoredEvents, TimesAreNumbers, LinkConstants DEF Created
  <2>1. r \in Row /\ RowOK(r, Stored, Created)
    BY <2>0 DEF Row, RowOK
  <2>2. j = [step |-> step, branch |-> n, parents |-> {}, times |-> {}, event |-> 0, row |-> r]
    BY DEF NewBranch
  <2> HIDE DEF r
  <2>3. j \in Job
    BY <2>1, <2>2, LinkConstants DEF Job
  <2>4. j.step = step /\ j.row = r /\ j.event = 0 /\ r.from = from
    BY <2>2 DEF r
  <2> HIDE DEF j
  <2>5. JobOK(j, Stored, Created)
    BY <1>3, <2>1, <2>4 DEF JobOK
  <2>6. Become(w, j)
    BY <1>3 DEF j
  <2> QED BY <1>0, <2>3, <2>5, <2>6, JobStep
<1>4. ASSUME NEW n \in Branches, BeginRollback(w, n) PROVE HistInv'
  <2>1. PICK e \in {0} \cup (Stored \ (InFlight \cup lost)) :
          Become(w, NewBranch("row", n, e, None, TRUE))
    BY <1>4 DEF BeginRollback
  <2> QED BY <2>1, <1>3
<1>5. ASSUME NEW n \in Branches, NEW b \in Created, BeginBranch(w, n, b) PROVE HistInv'
  <2>1. CASE \E e \in Stored : Become(w, NewBranch("row", n, e, b, FALSE))
    BY <2>1, <1>3
  <2>2. CASE Become(w, NewBranch("base", n, 0, b, FALSE))
    BY <2>2, <1>3
  <2> QED BY <1>5, <2>1, <2>2 DEF BeginBranch
<1>6. ASSUME ReadBase(w) PROVE HistInv'
  <2>1. /\ job[w] # None /\ job[w].step = "base"
        /\ Become(w, NewBranch("row", job[w].branch, rows[job[w].row.from].head,
                               job[w].row.from, FALSE))
    BY <1>6 DEF ReadBase
  <2>2. job[w] \in Job /\ JobOK(job[w], Stored, Created)
    BY <2>1 DEF HistInv, ShapeInv, JobsInv
  <2>3. job[w].branch \in Branches /\ job[w].row.from \in Created
    BY <2>1, <2>2 DEF Job, JobOK
  <2>4. rows[job[w].row.from].head \in {0} \cup Stored
    BY <2>3, CreatedRow DEF RowOK
  <2> QED BY <2>1, <2>3, <2>4, <1>3
<1> QED BY <1>1, <1>2, <1>4, <1>5, <1>6

\* What a put of event e does.
EventPut(w, o, e) ==
  /\ e \in job[w].times \ Stored /\ e \in Times /\ Stored' = Stored \cup {e}
  /\ events'[e] = [outcome |-> o, branch |-> job[w].branch, parents |-> job[w].parents]
  /\ events' \in [Times -> Event \cup {None}]
  /\ \A x \in Stored : events'[x] = events[x]
  /\ edges' = [edges EXCEPT ![e] = job[w].parents]
  /\ job' \in [Workers -> Job \cup {None}]
  /\ \A v \in Workers \ {w} : job'[v] = job[v]
  /\ job'[w] \in Job /\ job'[w] # None
  /\ job'[w].step = "row" /\ job'[w].branch = job[w].branch /\ job'[w].event = e
  /\ job'[w].row = [job[w].row EXCEPT !.head = e]

LEMMA PutEventFacts ==
  ASSUME HistInv, NEW w \in Workers, NEW o \in Outcomes, PutEvent(w, o)
  PROVE  /\ job[w] # None /\ job[w].step = "event" /\ job[w] \in Job
         /\ UNCHANGED <<rows, lost>>
         /\ \E e : EventPut(w, o, e)
<1>1. job[w] # None /\ job[w].step = "event" /\ job[w] \in Job /\ UNCHANGED <<rows, lost>>
  BY DEF PutEvent, HistInv, ShapeInv
<1>2. PICK e \in job[w].times \ Stored :
        /\ events' = [events EXCEPT ![e] =
                        [outcome |-> o, branch |-> job[w].branch, parents |-> job[w].parents]]
        /\ edges' = [edges EXCEPT ![e] = job[w].parents]
        /\ Become(w, [job[w] EXCEPT !.step = "row", !.row.head = e, !.event = e,
                                    !.parents = {}, !.times = {}])
  BY DEF PutEvent
<1> DEFINE r == [outcome |-> o, branch |-> job[w].branch, parents |-> job[w].parents]
           j == [job[w] EXCEPT !.step = "row", !.row.head = e, !.event = e,
                               !.parents = {}, !.times = {}]
<1>3. r \in Event /\ e \in Times
  BY <1>1, <1>2, LinkConstants DEF Event, Job
<1>4. /\ j \in Job /\ j.step = "row" /\ j.branch = job[w].branch /\ j.event = e
      /\ j.row = [job[w].row EXCEPT !.head = e]
  BY <1>1, <1>3, TimesAreNumbers DEF Job, Row
<1> HIDE DEF r, j
<1>5. events' = [events EXCEPT ![e] = r] /\ job' = [job EXCEPT ![w] = j]
  BY <1>2 DEF Become, r, j
<1>6. events \in [Times -> Event \cup {None}] /\ job \in [Workers -> Job \cup {None}]
  BY DEF HistInv, ShapeInv
<1>7. events' \in [Times -> Event \cup {None}] /\ events'[e] = r
      /\ \A x \in Times \ {e} : events'[x] = events[x]
  BY <1>3, <1>5, <1>6
<1>8. Stored' = Stored \cup {e}
  <2>1. r # None
    BY <1>3, NoneIsNoRow
  <2> QED BY <1>3, <1>7, <2>1 DEF Stored
<1>9. /\ job' \in [Workers -> Job \cup {None}] /\ job'[w] = j /\ j # None
      /\ \A v \in Workers \ {w} : job'[v] = job[v]
  BY <1>4, <1>5, <1>6, NoneIsNoRow
<1>10. \A x \in Stored : events'[x] = events[x]
  BY <1>2, <1>7 DEF Stored
<1> QED BY <1>1, <1>2, <1>3, <1>4, <1>7, <1>8, <1>9, <1>10 DEF r, EventPut

LEMMA PutEventKeeps ==
  ASSUME HistInv, NEW w \in Workers, NEW o \in Outcomes, PutEvent(w, o)
  PROVE  HistInv' /\ (edges = Parents => edges' = Parents')
<1>1. /\ job[w] # None /\ job[w].step = "event" /\ job[w] \in Job
      /\ UNCHANGED <<rows, lost>>
  BY PutEventFacts
<1>2. PICK e : EventPut(w, o, e)
  BY PutEventFacts
<1>3. JobOK(job[w], Stored, Created) /\ Created' = Created
  BY <1>1 DEF HistInv, JobsInv, Created
<1>4. ShapeInv'
  BY <1>1, <1>2 DEF EventPut, HistInv, ShapeInv
<1>5. /\ events'[e].branch = job[w].branch /\ events'[e].parents = job[w].parents
      /\ job[w].branch \in Created /\ job[w].parents \subseteq Stored
      /\ \A p \in job[w].parents : p < e
  BY <1>1, <1>2, <1>3 DEF EventPut, JobOK
<1>6. EventsInv'
  BY <1>2, <1>3, <1>5 DEF EventPut, HistInv, EventsInv
<1>7. RowsInv'
  BY <1>1, <1>2, <1>3, RowStays DEF EventPut, HistInv, RowsInv
<1>8. JobsInv'
  <2>1. RowOK(job'[w].row, Stored', Created)
    <3>1. job[w].row \in Row /\ RowOK(job[w].row, Stored, Created)
      BY <1>1, <1>3 DEF Job, JobOK
    <3>2. /\ job'[w].row.head = e /\ job'[w].row.base = job[w].row.base
          /\ job'[w].row.from = job[w].row.from
      BY <1>2, <3>1 DEF EventPut, Row
    <3> QED BY <1>2, <3>1, <3>2 DEF EventPut, RowOK
  <2>2. JobOK(job'[w], Stored', Created)
    BY <1>2, <1>5, <2>1 DEF EventPut, JobOK
  <2>3. ASSUME NEW v \in Workers, v # w, job[v] # None
        PROVE  JobOK(job[v], Stored', Created)
    BY <1>2, <2>3, JobStays DEF EventPut, HistInv, JobsInv
  <2> QED BY <1>2, <1>3, <2>2, <2>3 DEF JobsInv, EventPut
<1>9. ASSUME edges = Parents PROVE edges' = Parents'
  <2>1. Parents' = [x \in Times |-> IF x \in Stored' THEN events'[x].parents ELSE {}]
    BY DEF Parents
  <2>2. edges' = [x \in Times |-> IF x = e THEN job[w].parents ELSE Parents[x]]
    BY <1>2, <1>9 DEF EventPut, Parents
  <2>3. ASSUME NEW x \in Times
        PROVE  (IF x = e THEN job[w].parents ELSE Parents[x])
                 = (IF x \in Stored' THEN events'[x].parents ELSE {})
    BY <1>2, <1>5, <2>3 DEF EventPut, Parents
  <2> QED BY <2>1, <2>2, <2>3
<1> QED BY <1>4, <1>6, <1>7, <1>8, <1>9 DEF HistInv

LEMMA PutRowKeeps ==
  ASSUME HistInv, NEW w \in Workers, PutRow(w)
  PROVE  /\ HistInv' /\ UNCHANGED <<events, edges, lost>>
         /\ Created' = Created \cup {job[w].branch}
         /\ job[w] \in Job /\ job[w] # None /\ JobOK(job[w], Stored, Created)
         /\ \A v \in Workers : job'[v] = IF v = w THEN None ELSE job[v]
         /\ \A b \in Branches : rows'[b] = IF b = job[w].branch THEN job[w].row ELSE rows[b]
<1>1. /\ job[w] # None /\ rows' = [rows EXCEPT ![job[w].branch] = job[w].row]
      /\ Become(w, None) /\ UNCHANGED <<events, edges, lost>>
  BY DEF PutRow
<1>2. /\ job[w] \in Job /\ JobOK(job[w], Stored, Created) /\ job[w].branch \in Branches
      /\ job[w].row \in Row /\ RowOK(job[w].row, Stored, Created) /\ job[w].row # None
  BY <1>1, NoneIsNoRow DEF HistInv, ShapeInv, JobsInv, Job, JobOK
<1>3. /\ rows' \in [Branches -> Row \cup {None}]
      /\ \A b \in Branches : rows'[b] = IF b = job[w].branch THEN job[w].row ELSE rows[b]
      /\ job' \in [Workers -> Job \cup {None}]
      /\ \A v \in Workers : job'[v] = IF v = w THEN None ELSE job[v]
  BY <1>1, <1>2 DEF HistInv, ShapeInv, Become
<1>4. Stored' = Stored /\ Created' = Created \cup {job[w].branch}
  BY <1>1, <1>2, <1>3 DEF Stored, Created
<1>5. ShapeInv' /\ EventsInv'
  BY <1>1, <1>3, <1>4 DEF HistInv, ShapeInv, EventsInv
<1>6. RowsInv'
  <2>1. ASSUME NEW b \in Created' PROVE RowOK(rows'[b], Stored', Created')
    <3>1. CASE b = job[w].branch
      BY <1>2, <1>3, <1>4, <3>1, RowStays
    <3>2. CASE b # job[w].branch
      <4>1. b \in Created /\ b \in Branches /\ rows'[b] = rows[b]
        BY <1>3, <1>4, <3>2 DEF Created
      <4> QED BY <1>4, <4>1, RowStays DEF HistInv, RowsInv
    <3> QED BY <3>1, <3>2
  <2> QED BY <2>1 DEF RowsInv
<1>7. JobsInv'
  BY <1>3, <1>4, JobStays DEF HistInv, JobsInv
<1>8. HistInv'
  BY <1>5, <1>6, <1>7 DEF HistInv
<1> QED BY <1>1, <1>2, <1>3, <1>4, <1>8

LEMMA LoseKeeps ==
  ASSUME HistInv, NEW w \in Workers, Lose(w)
  PROVE  HistInv'
<1>1. /\ job[w] # None /\ job[w].event # 0 /\ lost' = lost \cup {job[w].event}
      /\ Become(w, None) /\ UNCHANGED <<events, edges, rows>>
  BY DEF Lose
<1>2. job[w].event \in Stored
  BY <1>1 DEF HistInv, JobsInv, JobOK
<1>3. Stored' = Stored /\ Created' = Created
  BY <1>1 DEF Stored, Created
<1>4. \A v \in Workers : job'[v] = IF v = w THEN None ELSE job[v]
  BY <1>1 DEF HistInv, ShapeInv, Become
<1>5. job' \in [Workers -> Job \cup {None}]
  BY <1>1 DEF HistInv, ShapeInv, Become
<1> QED BY <1>1, <1>2, <1>3, <1>4, <1>5
        DEF HistInv, ShapeInv, EventsInv, RowsInv, JobsInv

\* A step that puts nothing, or only the row of a branch.
Reads(w) ==
  \/ \E b \in Created : BeginAppend(w, b) \/ BeginSnapshot(w, b)
  \/ \E n \in Branches : BeginRollback(w, n) \/ \E b \in Created : BeginBranch(w, n, b)
  \/ ReadBase(w)

LEMMA ReadsPutNothing ==
  ASSUME NEW w, Reads(w)
  PROVE  UNCHANGED <<events, edges, rows, lost>>
BY DEF Reads, BeginAppend, BeginSnapshot, BeginRollback, BeginBranch, ReadBase

LEMMA StepOf ==
  ASSUME HistoryNext
  PROVE  \E w \in Workers : Reads(w) \/ (\E o \in Outcomes : PutEvent(w, o)) \/ PutRow(w) \/ Lose(w)
BY DEF HistoryNext, Reads

\* A step of the history.
LEMMA HistoryStep ==
  ASSUME HistInv, HistoryNext
  PROVE  HistInv' /\ Grows /\ (edges = Parents => edges' = Parents')
<1>1. PICK w \in Workers :
        Reads(w) \/ (\E o \in Outcomes : PutEvent(w, o)) \/ PutRow(w) \/ Lose(w)
  BY StepOf
<1>2. CASE Reads(w) \/ Lose(w)
  <2>1. UNCHANGED <<events, edges, rows>>
    BY <1>2, ReadsPutNothing DEF Lose
  <2>2. HistInv'
    BY <1>2, ReaderJobs, LoseKeeps DEF Reads
  <2> QED BY <2>1, <2>2 DEF Grows, Stored, Created, Parents
<1>3. CASE PutRow(w)
  <2>1. HistInv' /\ UNCHANGED <<events, edges>> /\ Created \subseteq Created'
    BY <1>3, PutRowKeeps
  <2> QED BY <2>1 DEF Grows, Stored, Parents
<1>4. ASSUME NEW o \in Outcomes, PutEvent(w, o)
      PROVE  HistInv' /\ Grows /\ (edges = Parents => edges' = Parents')
  <2>1. HistInv' /\ (edges = Parents => edges' = Parents')
    BY <1>4, PutEventKeeps
  <2>2. Stored \subseteq Stored' /\ (\A x \in Stored : events'[x] = events[x]) /\ UNCHANGED rows
    BY <1>4, PutEventFacts DEF EventPut
  <2>3. Grows
    BY <2>2 DEF Grows, Created
  <2> QED BY <2>1, <2>3
<1> QED BY <1>1, <1>2, <1>3, <1>4

LEMMA HistStill ==
  ASSUME HistInv, UNCHANGED <<events, rows, job, lost>>
  PROVE  HistInv' /\ Grows /\ Parents' = Parents /\ Stored' = Stored /\ Created' = Created
<1>1. Parents' = Parents /\ Stored' = Stored /\ Created' = Created
  BY DEF Parents, Stored, Created
<1> QED BY <1>1 DEF HistInv, ShapeInv, EventsInv, RowsInv, JobsInv, Grows

LEMMA HistoryInvariant == HistorySpec => [](HistInv /\ edges = Parents)
<1>1. HistInv /\ edges = Parents /\ [HistoryNext]_history => (HistInv /\ edges = Parents)'
  BY HistoryStep, HistStill DEF history
<1> QED BY <1>1, InitHist, PTL DEF HistorySpec

-----------------------------------------------------------------------------
(* Types. *)

LEMMA HistTypes ==
  ASSUME HistInv, \A e \in Times : edges[e] \in {{}, Parents[e]}
  PROVE  HistoryTypeOK
<1>1. \A b \in Created : {rows[b].head, rows[b].base} \subseteq {0} \cup Stored
  BY CreatedRow DEF RowOK
<1> QED BY <1>1 DEF HistoryTypeOK, HistInv, ShapeInv, EventsInv

\* The history keeps its shape, whoever writes it with whatever parents: an event's
\* parents are earlier events, and the table of edges has the parents the events
\* name.
THEOREM HistoryTypeCorrect == HistorySpec => []HistoryTypeOK
<1>1. HistInv /\ edges = Parents => HistoryTypeOK
  BY HistTypes DEF Parents
<1> QED BY <1>1, HistoryInvariant, PTL

-----------------------------------------------------------------------------
(***************************************************************************)
(* One client per branch.  A request then puts the row as it is, but for   *)
(* the event it appends: nobody else has put the branch since it read.     *)
(***************************************************************************)

OneClientPerBranch == \A b \in Branches : \A v, w \in Writers[b] : v = w

\* rs, es: the rows and the events there are.
OwnedJob(w, j, rs, es) ==
  /\ w \in Writers[j.branch]
  /\ j.step = "event" => j.row = rs[j.branch]
  /\ j.step = "base" => rs[j.branch] = None
  /\ j.step = "row" /\ j.event = 0 => rs[j.branch] \in {None, j.row}
  /\ j.event # 0 => /\ es[j.event].branch = j.branch
                    /\ j.row = [rs[j.branch] EXCEPT !.head = j.event]

OwnedInv == \A w \in Workers : job[w] # None => OwnedJob(w, job[w], rows, events)

\* A request that reads.
ReadJob(j) ==
  /\ j.event = 0
  /\ j.step = "event" =>
       /\ j.branch \in Created
       /\ ~ClientParents => j.parents = {rows[j.branch].head} \ {0}
       /\ \A t \in j.times, x \in Stored : x < t

LEMMA ReadsFacts ==
  ASSUME HistInv, OwnedInv, NEW w \in Workers, Reads(w)
  PROVE  /\ \E j : Become(w, j) /\ OwnedJob(w, j, rows, events) /\ ReadJob(j)
         /\ job[w] # None => job[w].event = 0
<1> DEFINE Goal == /\ \E j : Become(w, j) /\ OwnedJob(w, j, rows, events) /\ ReadJob(j)
                   /\ job[w] # None => job[w].event = 0
<1>1. ASSUME NEW b \in Created, BeginAppend(w, b) PROVE Goal
  <2>1. PICK P \in {{rows[b].head} \ {0}} \cup (IF ClientParents THEN SUBSET Stored ELSE {}) :
          Become(w, [step |-> "event", branch |-> b, row |-> rows[b], parents |-> P,
                     times |-> {e \in Times : \A x \in Stored : x < e}, event |-> 0])
    BY <1>1 DEF BeginAppend
  <2> DEFINE j == [step |-> "event", branch |-> b, row |-> rows[b], parents |-> P,
                   times |-> {e \in Times : \A x \in Stored : x < e}, event |-> 0]
  <2>2. /\ j.step = "event" /\ j.branch = b /\ j.row = rows[b] /\ j.parents = P /\ j.event = 0
        /\ \A t \in j.times, x \in Stored : x < t
    OBVIOUS
  <2>3. Become(w, j)
    BY <2>1
  <2> HIDE DEF j
  <2>4. ReadJob(j)
    BY <2>2 DEF ReadJob
  <2>5. OwnedJob(w, j, rows, events)
    BY <1>1, <2>2 DEF OwnedJob, BeginAppend
  <2> QED BY <1>1, <2>3, <2>4, <2>5 DEF BeginAppend
<1>2. ASSUME NEW b \in Created, BeginSnapshot(w, b) PROVE Goal
  <2> DEFINE j == [step |-> "row", branch |-> b, row |-> rows[b], parents |-> {}, times |-> {},
                   event |-> 0]
  <2>1. Become(w, j)
    BY <1>2 DEF BeginSnapshot
  <2>2. OwnedJob(w, j, rows, events) /\ ReadJob(j)
    BY <1>2 DEF OwnedJob, ReadJob, BeginSnapshot
  <2> HIDE DEF j
  <2> QED BY <1>2, <2>1, <2>2 DEF BeginSnapshot
<1>3. ASSUME NEW step \in {"row", "base"}, NEW n \in Branches, NEW e, NEW from, NEW rb,
             rows[n] = None, w \in Writers[n], Become(w, NewBranch(step, n, e, from, rb)),
             job[w] # None => job[w].event = 0
      PROVE  Goal
  <2>1. OwnedJob(w, NewBranch(step, n, e, from, rb), rows, events)
        /\ ReadJob(NewBranch(step, n, e, from, rb))
    BY <1>3 DEF OwnedJob, ReadJob, NewBranch
  <2> QED BY <1>3, <2>1
<1>4. ASSUME NEW n \in Branches, BeginRollback(w, n) PROVE Goal
  BY <1>3, <1>4 DEF BeginRollback
<1>5. ASSUME NEW n \in Branches, NEW b \in Created, BeginBranch(w, n, b) PROVE Goal
  BY <1>3, <1>5 DEF BeginBranch
<1>6. ASSUME ReadBase(w) PROVE Goal
  <2>1. /\ job[w] # None /\ job[w].step = "base"
        /\ Become(w, NewBranch("row", job[w].branch, rows[job[w].row.from].head,
                               job[w].row.from, FALSE))
    BY <1>6 DEF ReadBase
  <2>2. job[w] \in Job /\ JobOK(job[w], Stored, Created) /\ OwnedJob(w, job[w], rows, events)
    BY <2>1 DEF HistInv, ShapeInv, JobsInv, OwnedInv
  <2>3. job[w].branch \in Branches /\ rows[job[w].branch] = None /\ job[w].event = 0
        /\ w \in Writers[job[w].branch]
    BY <2>1, <2>2 DEF Job, JobOK, OwnedJob
  <2> QED BY <2>1, <2>3, <1>3
<1> QED BY <1>1, <1>2, <1>4, <1>5, <1>6 DEF Reads

\* Where a request reads, the others go on.
LEMMA ReadsJobs ==
  ASSUME HistInv, NEW w \in Workers, NEW j, Become(w, j)
  PROVE  \A v \in Workers : job'[v] = IF v = w THEN j ELSE job[v]
BY DEF HistInv, ShapeInv, Become

LEMMA OwnedInit == HistoryInit => OwnedInv
BY DEF HistoryInit, OwnedInv

LEMMA OwnedStep ==
  ASSUME OneClientPerBranch, HistInv, OwnedInv, HistoryNext
  PROVE  OwnedInv'
<1>1. PICK w \in Workers :
        Reads(w) \/ (\E o \in Outcomes : PutEvent(w, o)) \/ PutRow(w) \/ Lose(w)
  BY StepOf
<1>2. CASE Reads(w)
  <2>1. PICK j : Become(w, j) /\ OwnedJob(w, j, rows, events)
    BY <1>2, ReadsFacts
  <2> QED BY <1>2, <2>1, ReadsJobs, ReadsPutNothing DEF OwnedInv
<1>3. ASSUME NEW o \in Outcomes, PutEvent(w, o) PROVE OwnedInv'
  <2>1. /\ job[w] # None /\ job[w].step = "event" /\ job[w] \in Job /\ UNCHANGED rows
    BY <1>3, PutEventFacts
  <2>2. PICK e : EventPut(w, o, e)
    BY <1>3, PutEventFacts
  <2>3. OwnedJob(w, job[w], rows, events)
    BY <2>1 DEF OwnedInv
  <2>4. OwnedJob(w, job'[w], rows, events')
    <3>1. e # 0 /\ events'[e].branch = job[w].branch
      BY <2>2, TimesAreNumbers DEF EventPut
    <3>2. job'[w].row = [rows[job[w].branch] EXCEPT !.head = e]
      BY <2>1, <2>2, <2>3 DEF EventPut, OwnedJob
    <3>3. w \in Writers[job[w].branch]
      BY <2>3 DEF OwnedJob
    <3> QED BY <2>2, <3>1, <3>2, <3>3 DEF EventPut, OwnedJob
  <2>5. ASSUME NEW v \in Workers, v # w, job[v] # None
        PROVE  OwnedJob(v, job[v], rows, events')
    <3>1. OwnedJob(v, job[v], rows, events) /\ job[v].event \in {0} \cup Stored
      BY <2>5 DEF OwnedInv, HistInv, JobsInv, JobOK
    <3> QED BY <2>2, <3>1 DEF EventPut, OwnedJob
  <2> QED BY <2>1, <2>2, <2>4, <2>5 DEF EventPut, OwnedInv
<1>4. CASE PutRow(w)
  <2>1. /\ UNCHANGED events /\ job[w] \in Job /\ job[w] # None
        /\ \A v \in Workers : job'[v] = IF v = w THEN None ELSE job[v]
    BY <1>4, PutRowKeeps
  <2>2. \A b \in Branches : rows'[b] = IF b = job[w].branch THEN job[w].row ELSE rows[b]
    BY <1>4, PutRowKeeps
  <2>3. ASSUME NEW v \in Workers, v # w, job[v] # None
        PROVE  OwnedJob(v, job[v], rows', events)
    <3>1. OwnedJob(v, job[v], rows, events) /\ job[v].branch \in Branches
      BY <2>3 DEF OwnedInv, HistInv, ShapeInv, Job
    <3>2. OwnedJob(w, job[w], rows, events) /\ job[w].branch \in Branches
      BY <2>1 DEF OwnedInv, Job
    <3>3. job[v].branch # job[w].branch
      BY <2>3, <3>1, <3>2 DEF OwnedJob, OneClientPerBranch
    <3>4. rows'[job[v].branch] = rows[job[v].branch]
      BY <2>2, <3>1, <3>3
    <3> QED BY <3>1, <3>4 DEF OwnedJob
  <2> QED BY <2>1, <2>3 DEF OwnedInv
<1>5. CASE Lose(w)
  <2>1. Become(w, None) /\ UNCHANGED <<events, rows>>
    BY <1>5 DEF Lose
  <2> QED BY <2>1, ReadsJobs DEF OwnedInv
<1> QED BY <1>1, <1>2, <1>3, <1>4, <1>5

-----------------------------------------------------------------------------
(* The links do not change as long as no event is put and none is in flight. *)

\* A step that only makes branches, at most.
StillShown ==
  /\ UNCHANGED events
  /\ \A b \in Created : b \in Created' /\ rows'[b] = rows[b]

LEMMA QuietStep ==
  ASSUME HistInv, OwnedInv, HistoryNext, InFlight = {}, Stored' = Stored
  PROVE  StillShown /\ InFlight' = {}
<1>1. PICK w \in Workers :
        Reads(w) \/ (\E o \in Outcomes : PutEvent(w, o)) \/ PutRow(w) \/ Lose(w)
  BY StepOf
<1>2. \A v \in Workers : job[v] # None => job[v].event = 0
  BY DEF InFlight
<1>3. CASE Reads(w)
  <2>1. PICK j : Become(w, j) /\ ReadJob(j)
    BY <1>3, ReadsFacts
  <2>2. \A v \in Workers : job'[v] # None => job'[v].event = 0
    BY <1>2, <2>1, ReadsJobs DEF ReadJob
  <2> QED BY <1>3, <2>2, ReadsPutNothing DEF StillShown, InFlight, Created
<1>4. ASSUME NEW o \in Outcomes, PutEvent(w, o) PROVE FALSE
  <2>1. \E e : EventPut(w, o, e)
    BY <1>4, PutEventFacts
  <2> QED BY <2>1 DEF EventPut
<1>5. CASE PutRow(w)
  <2>1. /\ UNCHANGED events /\ job[w] \in Job /\ job[w] # None /\ Created \subseteq Created'
        /\ JobOK(job[w], Stored, Created)
        /\ \A v \in Workers : job'[v] = IF v = w THEN None ELSE job[v]
    BY <1>5, PutRowKeeps
  <2>2. \A b \in Branches : rows'[b] = IF b = job[w].branch THEN job[w].row ELSE rows[b]
    BY <1>5, PutRowKeeps
  <2>3. job[w].step = "row" /\ job[w].event = 0
    BY <1>2, <1>5, <2>1 DEF PutRow
  <2>4. rows[job[w].branch] \in {None, job[w].row}
    BY <2>1, <2>3 DEF OwnedInv, OwnedJob
  <2>5. \A b \in Created : b \in Branches /\ rows[b] # None
    BY DEF Created
  <2> QED BY <1>2, <2>1, <2>2, <2>4, <2>5 DEF StillShown, InFlight
<1>6. CASE Lose(w)
  BY <1>2, <1>6 DEF Lose
<1> QED BY <1>1, <1>3, <1>4, <1>5, <1>6

\* The rules say the same.
LEMMA LinksFrozen ==
  ASSUME HistInv, edges = Parents, edges' = Parents', StillShown
  PROVE  Failures' = Failures /\ Links' = Links
<1>1. /\ \A e \in Stored : events[e].branch \in Created
      /\ \A b \in Created : rows[b].from \in Created \cup {None} /\ rows[b] # None /\ rows'[b] # None
  BY CreatedRow DEF HistInv, EventsInv, RowOK, StillShown, Created
<1>2. Stored' = Stored /\ Parents' = Parents /\ edges' = edges
  BY DEF Stored, StillShown, Parents
<1>3. \A b \in Created : Reachable(edges', rows'[b].head) = Reachable(edges, rows[b].head)
  BY <1>2 DEF StillShown
<1>4. \A o : Results(o)' = Results(o)
  <2> SUFFICES ASSUME NEW o PROVE Results(o)' = Results(o)
    OBVIOUS
  <2>1. \A e \in Stored : events'[e] = events[e]
    BY DEF StillShown
  <2>2. ASSUME NEW e \in Stored
        PROVE  Reachable(edges', rows'[events'[e].branch].head)
                 = Reachable(edges, rows[events[e].branch].head)
    BY <1>1, <1>3, <2>1
  <2> QED BY <1>2, <2>1, <2>2 DEF Results, Visible
<1>5. Failures' = Failures /\ Successes' = Successes
  BY <1>4 DEF Failures, Successes
<1>6. Failures \subseteq Stored /\ Successes \subseteq Stored
  BY DEF Failures, Successes, Results
<1>7. ASSUME NEW f \in Stored, NEW s \in Stored
      PROVE  PrimaryRule(f, s)' = PrimaryRule(f, s)
  <2> DEFINE b == events[s].branch
  <2>1. events' = events /\ b \in Created /\ events[f].branch \in Created /\ rows'[b] = rows[b]
    BY <1>1 DEF StillShown
  <2>2. Reachable(edges', rows'[b].head) = Reachable(edges, rows[b].head)
        /\ Reachable(edges', rows'[events[f].branch].head)
             = Reachable(edges, rows[events[f].branch].head)
    BY <1>3, <2>1
  <2>3. FirstOnBranch(s)' <=> FirstOnBranch(s)
    BY <2>1, <2>2 DEF FirstOnBranch, SuccessBefore, Visible
  <2>4. SameBranchFirstSuccess(f, s)' <=> SameBranchFirstSuccess(f, s)
    BY <2>1, <2>2 DEF SameBranchFirstSuccess, Visible
  <2>5. Ancestors(f)' = Ancestors(f)
    BY <1>2 DEF Ancestors
  <2>6. BaseOf(s)' = BaseOf(s)
    BY <2>1 DEF BaseOf
  <2>7. RollbackThenRepair(f, s)' <=> RollbackThenRepair(f, s)
    <3> DEFINE from == rows[b].from
    <3>1. CASE from = None
      BY <2>1, <3>1 DEF RollbackThenRepair
    <3>2. CASE from # None
      <4>1. from \in Created /\ rows'[from] = rows[from]
        BY <1>1, <2>1, <3>2 DEF StillShown
      <4> QED BY <2>1, <2>3, <2>5, <4>1 DEF RollbackThenRepair
    <3> QED BY <3>1, <3>2
  <2>8. (BranchFromFailure(f, s)' <=> BranchFromFailure(f, s))
        /\ (BranchFromAncestor(f, s)' <=> BranchFromAncestor(f, s))
    BY <2>3, <2>5, <2>6 DEF BranchFromFailure, BranchFromAncestor
  <2> QED BY <2>4, <2>7, <2>8 DEF PrimaryRule
<1> QED BY <1>5, <1>6, <1>7 DEF Links

-----------------------------------------------------------------------------
(***************************************************************************)
(* Nobody names parents, either.  An event that is being appended then     *)
(* comes after all its branch shows and has its head as its only parent,   *)
(* and a branch reaches all its events but those that are in flight or     *)
(* lost.                                                                   *)
(***************************************************************************)

\* shown, head: what the branch of the request shows, and its head.
HeadJob(j, es, shown, head) ==
  /\ j.step = "event" => j.parents = {head} \ {0} /\ \A t \in j.times, x \in shown : x < t
  /\ j.event # 0 => es[j.event].parents = {head} \ {0} /\ \A x \in shown : x < j.event

HeadsInv ==
  \A w \in Workers : job[w] # None =>
    HeadJob(job[w], events, Shown(job[w].branch), rows[job[w].branch].head)

ReachInv ==
  \A e \in Stored \ lost :
    e \in Shown(events[e].branch) \/ \E w \in Workers : job[w] # None /\ job[w].event = e

LinkInv == HistInv /\ OwnedInv /\ HeadsInv /\ ReachInv

\* What no step takes back, then: what a branch is made from, and what it shows.
\* What it shows later is later than all it shows.
Kept ==
  /\ Grows
  /\ \A b \in Created :
       /\ rows'[b].base = rows[b].base /\ rows'[b].from = rows[b].from
       /\ rows'[b].rollback = rows[b].rollback
       /\ Shown(b) \subseteq Shown(b)'
       /\ \A e \in Shown(b)' \ Shown(b), x \in Shown(b) : x < e

\* What is shown does not change by more events.
LEMMA ShownStays ==
  ASSUME HistInv, HistInv', Grows, NEW e \in {0} \cup Stored
  PROVE  Reachable(Parents', e) = Reachable(Parents, e)
<1>1. Chain(Parents) /\ \A x \in Stored : Parents[x] \subseteq Stored
  BY StoredEvents
<1>2. Chain(Parents')
  BY ChainNext
<1>3. \A x \in Stored : Parents'[x] = Parents[x]
  BY DEF Grows, Parents, Stored
<1>4. Stored \in SUBSET Times
  BY DEF Stored
<1> QED BY <1>1, <1>2, <1>3, <1>4, ReachableStays

LEMMA RowsShow ==
  ASSUME HistInv, HistInv', Grows, NEW b \in Created, rows'[b] = rows[b]
  PROVE  Reachable(Parents', rows'[b].head) = Shown(b)
<1>1. rows[b].head \in {0} \cup Stored
  BY CreatedRow DEF RowOK
<1> QED BY <1>1, ShownStays DEF Shown

\* A step that puts no row.
LEMMA NoRowKeeps ==
  ASSUME HistInv, HistInv', Grows, UNCHANGED rows
  PROVE  Kept /\ \A b \in Created : Reachable(Parents', rows[b].head) = Shown(b)
<1>1. \A b \in Created : Reachable(Parents', rows'[b].head) = Shown(b)
  BY RowsShow
<1> QED BY <1>1 DEF Kept, Shown

LEMMA LinkInit == HistoryInit => LinkInv /\ edges = Parents
<1> SUFFICES ASSUME HistoryInit PROVE OwnedInv /\ HeadsInv /\ ReachInv
  BY InitHist DEF LinkInv
<1>1. Stored = {} /\ \A w \in Workers : job[w] = None
  BY DEF HistoryInit, Stored
<1> QED BY <1>1, OwnedInit DEF HeadsInv, ReachInv

LEMMA ReadsKeep ==
  ASSUME ~ClientParents, LinkInv, HistInv', Grows, NEW w \in Workers, Reads(w)
  PROVE  HeadsInv' /\ ReachInv' /\ Kept
<1>1. PICK j : Become(w, j) /\ ReadJob(j)
  BY ReadsFacts DEF LinkInv
<1>2. job[w] # None => job[w].event = 0
  BY ReadsFacts DEF LinkInv
<1>3. \A v \in Workers : job'[v] = IF v = w THEN j ELSE job[v]
  BY <1>1, ReadsJobs DEF LinkInv
<1>4. UNCHANGED <<events, rows, lost>>
  BY ReadsPutNothing
<1>5. Parents' = Parents /\ Stored' = Stored /\ \A b : Shown(b)' = Reachable(Parents, rows'[b].head)
  BY <1>4 DEF Parents, Stored, Shown
<1>6. HeadJob(j, events, Shown(j.branch), rows[j.branch].head)
  <2>1. j.step = "event" => Shown(j.branch) \subseteq Stored
    BY <1>1, CreatedRow DEF LinkInv, ReadJob
  <2> QED BY <1>1, <2>1 DEF ReadJob, HeadJob
<1>7. HeadsInv'
  <2> SUFFICES ASSUME NEW v \in Workers, job'[v] # None
               PROVE  HeadJob(job'[v], events, Reachable(Parents, rows[job'[v].branch].head),
                              rows[job'[v].branch].head)
    BY <1>4, <1>5 DEF HeadsInv, Shown
  <2> QED BY <1>3, <1>6 DEF LinkInv, HeadsInv, Shown
<1>8. ReachInv'
  <2>1. ASSUME NEW e \in Stored, NEW v \in Workers, job[v] # None, job[v].event = e
        PROVE  job'[v] # None /\ job'[v].event = e
    BY <1>2, <1>3, <2>1, StoredEvents, TimesAreNumbers DEF LinkInv
  <2> QED BY <1>4, <1>5, <2>1 DEF LinkInv, ReachInv, Shown
<1> QED BY <1>4, <1>7, <1>8, NoRowKeeps DEF LinkInv

LEMMA PutEventHeads ==
  ASSUME LinkInv, HistInv', Grows, NEW w \in Workers, NEW o \in Outcomes, PutEvent(w, o)
  PROVE  HeadsInv' /\ ReachInv' /\ Kept
<1>1. /\ job[w] # None /\ job[w].step = "event" /\ job[w] \in Job
      /\ UNCHANGED <<rows, lost>>
  BY PutEventFacts DEF LinkInv
<1>2. PICK e : EventPut(w, o, e)
  BY PutEventFacts DEF LinkInv
<1>3. Kept /\ \A b \in Created : Reachable(Parents', rows[b].head) = Shown(b)
  BY <1>1, NoRowKeeps DEF LinkInv
<1>4. job[w].branch \in Created
  BY <1>1 DEF LinkInv, HistInv, JobsInv, JobOK
<1>5. ASSUME NEW v \in Workers, job'[v] # None
      PROVE  HeadJob(job'[v], events', Reachable(Parents', rows[job'[v].branch].head),
                     rows[job'[v].branch].head)
  <2>1. CASE v = w
    <3>1. HeadJob(job[w], events, Shown(job[w].branch), rows[job[w].branch].head)
      BY <1>1 DEF LinkInv, HeadsInv
    <3>2. /\ events'[e].parents = {rows[job[w].branch].head} \ {0}
          /\ \A x \in Shown(job[w].branch) : x < e
      BY <1>1, <1>2, <3>1 DEF EventPut, HeadJob
    <3> QED BY <1>2, <1>3, <1>4, <2>1, <3>2 DEF EventPut, HeadJob
  <2>2. CASE v # w
    <3>1. job'[v] = job[v] /\ job[v] \in Job /\ JobOK(job[v], Stored, Created)
          /\ HeadJob(job[v], events, Shown(job[v].branch), rows[job[v].branch].head)
      BY <1>2, <1>5, <2>2 DEF EventPut, LinkInv, HeadsInv, HistInv, ShapeInv, JobsInv
    <3>2. job[v].event # 0 => events'[job[v].event] = events[job[v].event]
      BY <1>2, <3>1 DEF EventPut, JobOK
    <3>3. CASE job[v].branch \in Created
      BY <1>3, <3>1, <3>2, <3>3 DEF HeadJob
    <3>4. CASE job[v].branch \notin Created
      <4>1. job[v].step # "event" /\ job[v].event = 0
        BY <3>1, <3>4 DEF JobOK
      <4> QED BY <3>1, <4>1 DEF HeadJob
    <3> QED BY <3>3, <3>4
  <2> QED BY <2>1, <2>2
<1>6. HeadsInv'
  BY <1>1, <1>5 DEF HeadsInv, Shown
<1>7. ASSUME NEW x \in Stored' \ lost
      PROVE  \/ x \in Reachable(Parents', rows[events'[x].branch].head)
             \/ \E v \in Workers : job'[v] # None /\ job'[v].event = x
  <2>1. CASE x = e
    BY <1>2, <2>1 DEF EventPut
  <2>2. CASE x # e
    <3>1. x \in Stored \ lost /\ events'[x] = events[x] /\ events[x].branch \in Created
      BY <1>2, <1>7, <2>2 DEF EventPut, LinkInv, HistInv, EventsInv
    <3>2. CASE x \in Shown(events[x].branch)
      BY <1>3, <3>1, <3>2
    <3>3. ASSUME NEW v \in Workers, job[v] # None, job[v].event = x
          PROVE  job'[v] # None /\ job'[v].event = x
      <4>1. job[w].event = 0 /\ x # 0
        BY <1>1, <3>1, TimesAreNumbers DEF LinkInv, HistInv, JobsInv, JobOK, Stored
      <4>2. v # w
        BY <3>3, <4>1
      <4> QED BY <1>2, <3>3, <4>2 DEF EventPut
    <3> QED BY <3>1, <3>2, <3>3 DEF LinkInv, ReachInv
  <2> QED BY <2>1, <2>2
<1>8. ReachInv'
  BY <1>1, <1>7 DEF ReachInv, Shown
<1> QED BY <1>3, <1>6, <1>8

LEMMA PutRowHeads ==
  ASSUME OneClientPerBranch, LinkInv, HistInv', Grows, NEW w \in Workers, PutRow(w)
  PROVE  HeadsInv' /\ ReachInv' /\ Kept
<1> DEFINE b == job[w].branch
           r == job[w].row
           e == job[w].event
<1>1. /\ UNCHANGED <<events, edges, lost>> /\ job[w] \in Job /\ job[w] # None
      /\ JobOK(job[w], Stored, Created) /\ Created' = Created \cup {b}
      /\ \A v \in Workers : job'[v] = IF v = w THEN None ELSE job[v]
  BY PutRowKeeps DEF LinkInv
<1>2. \A c \in Branches : rows'[c] = IF c = b THEN r ELSE rows[c]
  BY PutRowKeeps DEF LinkInv
<1>3. /\ b \in Branches /\ job[w].step = "row" /\ OwnedJob(w, job[w], rows, events)
      /\ HeadJob(job[w], events, Shown(b), rows[b].head)
      /\ Created \subseteq Branches
  BY <1>1 DEF LinkInv, OwnedInv, HeadsInv, Job, PutRow, Created
<1>4. Parents' = Parents /\ Stored' = Stored
  BY <1>1 DEF Parents, Stored
<1>5. CASE e = 0
  <2>1. rows[b] \in {None, r}
    BY <1>3, <1>5 DEF OwnedJob
  <2>2. \A c \in Created : rows'[c] = rows[c]
    BY <1>2, <1>3, <2>1 DEF Created
  <2>3. Kept
    BY <1>4, <2>2 DEF Kept, Shown
  <2>4. ASSUME NEW v \in Workers, job'[v] # None
        PROVE  HeadJob(job'[v], events, Reachable(Parents, rows'[job'[v].branch].head),
                       rows'[job'[v].branch].head)
    <3>1. job'[v] = job[v] /\ job[v] # None /\ JobOK(job[v], Stored, Created)
          /\ HeadJob(job[v], events, Shown(job[v].branch), rows[job[v].branch].head)
      BY <1>1, <2>4 DEF LinkInv, HeadsInv, HistInv, JobsInv
    <3>2. CASE job[v].branch \in Created
      BY <2>2, <3>1, <3>2 DEF Shown
    <3>3. CASE job[v].branch \notin Created
      <4>1. job[v].step # "event" /\ job[v].event = 0
        BY <3>1, <3>3 DEF JobOK
      <4> QED BY <3>1, <4>1 DEF HeadJob
    <3> QED BY <3>2, <3>3
  <2>5. HeadsInv'
    BY <1>1, <1>4, <2>4 DEF HeadsInv, Shown
  <2>6. ReachInv'
    <3>1. ASSUME NEW x \in Stored \ lost
          PROVE  \/ x \in Reachable(Parents, rows'[events[x].branch].head)
                 \/ \E v \in Workers : job'[v] # None /\ job'[v].event = x
      <4>1. events[x].branch \in Created /\ x # 0
        BY StoredEvents, TimesAreNumbers DEF LinkInv, HistInv, EventsInv
      <4>2. ASSUME NEW v \in Workers, job[v] # None, job[v].event = x
            PROVE  job'[v] # None /\ job'[v].event = x
        BY <1>1, <1>5, <4>1, <4>2
      <4> QED BY <2>2, <4>1, <4>2 DEF LinkInv, ReachInv, Shown
    <3> QED BY <1>1, <1>4, <3>1 DEF ReachInv, Shown
  <2> QED BY <2>3, <2>5, <2>6
<1>6. CASE e # 0
  <2>1. /\ b \in Created /\ e \in Stored /\ e \in Times /\ events[e].branch = b
        /\ r = [rows[b] EXCEPT !.head = e]
        /\ events[e].parents = {rows[b].head} \ {0} /\ \A x \in Shown(b) : x < e
    BY <1>1, <1>3, <1>6 DEF JobOK, OwnedJob, HeadJob, Stored
  <2>2. /\ rows'[b] = r /\ r.head = e /\ r.base = rows[b].base /\ r.from = rows[b].from
        /\ r.rollback = rows[b].rollback
    <3>1. rows[b] \in Row
      BY <2>1, CreatedRow DEF LinkInv
    <3> QED BY <1>2, <1>3, <2>1, <3>1 DEF Row
  <2>3. Reachable(Parents, e) = {e} \cup Shown(b)
    <3>1. Chain(Parents) /\ Parents[e] = {rows[b].head} \ {0}
      BY <2>1, StoredEvents DEF LinkInv
    <3>2. Reachable(Parents, e) = {e} \cup UNION {Reachable(Parents, p) : p \in Parents[e]}
      BY <2>1, <3>1, ReachableStep
    <3>3. CASE rows[b].head = 0
      <4>1. Shown(b) = {} /\ Parents[e] = {}
        BY <3>1, <3>3, ReachableStep DEF Shown
      <4> QED BY <3>2, <4>1
    <3>4. CASE rows[b].head # 0
      <4>1. Parents[e] = {rows[b].head}
        BY <3>1, <3>4
      <4> QED BY <3>2, <4>1 DEF Shown
    <3> QED BY <3>3, <3>4
  <2>4. Reachable(Parents, rows'[b].head) = {e} \cup Shown(b)
    BY <2>2, <2>3
  <2>5. \A c \in Created \ {b} : rows'[c] = rows[c]
    BY <1>2, <1>3
  <2>6. Kept
    <3>1. ASSUME NEW c \in Created
          PROVE  /\ rows'[c].base = rows[c].base /\ rows'[c].from = rows[c].from
                 /\ rows'[c].rollback = rows[c].rollback
                 /\ Shown(c) \subseteq Reachable(Parents, rows'[c].head)
                 /\ \A y \in Reachable(Parents, rows'[c].head) \ Shown(c), x \in Shown(c) : x < y
      <4>1. CASE c = b
        BY <2>1, <2>2, <2>4, <4>1
      <4>2. CASE c # b
        BY <2>5, <4>2 DEF Shown
      <4> QED BY <4>1, <4>2
    <3> QED BY <1>4, <3>1 DEF Kept, Shown
  <2>7. ASSUME NEW v \in Workers, job'[v] # None
        PROVE  HeadJob(job'[v], events, Reachable(Parents, rows'[job'[v].branch].head),
                       rows'[job'[v].branch].head)
    <3>1. v # w /\ job'[v] = job[v] /\ job[v] # None /\ job[v].branch \in Branches
          /\ HeadJob(job[v], events, Shown(job[v].branch), rows[job[v].branch].head)
          /\ OwnedJob(v, job[v], rows, events)
      BY <1>1, <2>7 DEF LinkInv, HeadsInv, OwnedInv, HistInv, ShapeInv, Job
    <3>2. job[v].branch # b
      BY <1>3, <3>1 DEF OwnedJob, OneClientPerBranch
    <3>3. rows'[job[v].branch] = rows[job[v].branch]
      BY <1>2, <3>1, <3>2
    <3> QED BY <3>1, <3>3 DEF Shown
  <2>8. HeadsInv'
    BY <1>1, <1>4, <2>7 DEF HeadsInv, Shown
  <2>9. ReachInv'
    <3>1. ASSUME NEW x \in Stored \ lost
          PROVE  \/ x \in Reachable(Parents, rows'[events[x].branch].head)
                 \/ \E v \in Workers : job'[v] # None /\ job'[v].event = x
      <4>1. events[x].branch \in Created
        BY DEF LinkInv, HistInv, EventsInv
      <4>2. CASE x = e
        BY <2>1, <2>4, <4>2
      <4>3. CASE x \in Shown(events[x].branch)
        BY <2>4, <2>5, <4>1, <4>3 DEF Shown
      <4>4. ASSUME NEW v \in Workers, job[v] # None, job[v].event = x, x # e
            PROVE  job'[v] # None /\ job'[v].event = x
        BY <1>1, <4>4
      <4> QED BY <4>2, <4>3, <4>4 DEF LinkInv, ReachInv
    <3> QED BY <1>1, <1>4, <3>1 DEF ReachInv, Shown
  <2> QED BY <2>6, <2>8, <2>9
<1> QED BY <1>5, <1>6

LEMMA LoseHeads ==
  ASSUME LinkInv, HistInv', Grows, NEW w \in Workers, Lose(w)
  PROVE  HeadsInv' /\ ReachInv' /\ Kept
<1>1. Become(w, None) /\ UNCHANGED <<events, edges, rows>> /\ lost' = lost \cup {job[w].event}
  BY DEF Lose
<1>2. \A v \in Workers : job'[v] = IF v = w THEN None ELSE job[v]
  BY <1>1, ReadsJobs DEF LinkInv
<1>3. Parents' = Parents /\ Stored' = Stored
  BY <1>1 DEF Parents, Stored
<1>4. HeadsInv'
  BY <1>1, <1>2, <1>3 DEF LinkInv, HeadsInv, Shown
<1>5. ReachInv'
  BY <1>1, <1>2, <1>3 DEF LinkInv, ReachInv, Shown
<1> QED BY <1>1, <1>4, <1>5, NoRowKeeps DEF LinkInv

LEMMA LinkStep ==
  ASSUME ~ClientParents, OneClientPerBranch, LinkInv, HistoryNext
  PROVE  LinkInv' /\ Kept
<1>1. HistInv' /\ Grows /\ OwnedInv'
  BY HistoryStep, OwnedStep DEF LinkInv
<1>2. PICK w \in Workers :
        Reads(w) \/ (\E o \in Outcomes : PutEvent(w, o)) \/ PutRow(w) \/ Lose(w)
  BY StepOf
<1> QED BY <1>1, <1>2, ReadsKeep, PutEventHeads, PutRowHeads, LoseHeads DEF LinkInv

LEMMA LinkInvariant ==
  ~ClientParents /\ OneClientPerBranch => (HistorySpec => [](LinkInv /\ edges = Parents))
<1> SUFFICES ASSUME ~ClientParents, OneClientPerBranch
             PROVE  HistorySpec => [](LinkInv /\ edges = Parents)
  OBVIOUS
<1>1. ASSUME LinkInv, edges = Parents, UNCHANGED history
      PROVE  (LinkInv /\ edges = Parents)'
  <2>1. HistInv' /\ Parents' = Parents /\ Stored' = Stored
    BY <1>1, HistStill DEF history, LinkInv
  <2> QED BY <1>1, <2>1 DEF history, LinkInv, OwnedInv, HeadsInv, ReachInv, Shown
<1>2. ASSUME LinkInv, edges = Parents, HistoryNext
      PROVE  (LinkInv /\ edges = Parents)'
  BY <1>2, LinkStep, HistoryStep DEF LinkInv
<1>3. LinkInv /\ edges = Parents /\ [HistoryNext]_history => (LinkInv /\ edges = Parents)'
  BY <1>1, <1>2
<1> QED BY <1>3, LinkInit, PTL DEF HistorySpec

-----------------------------------------------------------------------------
(* The first success of a branch. *)

LEMMA FirstsAgree == LinkInv /\ edges = Parents => FirstSuccessesAgree
<1> SUFFICES ASSUME LinkInv, edges = Parents, NEW s \in Successes
             PROVE  SuccessBefore(Stored, s) <=>
                      SuccessBefore(Visible(events[s].branch), s) \/ SuccessBefore(lost, s)
  BY DEF FirstSuccessesAgree, FirstByQuery, FirstOnBranch
<1> DEFINE b == events[s].branch
<1>1. s \in Stored /\ b \in Created /\ s \in Visible(b) /\ Visible(b) = Shown(b)
  BY DEF LinkInv, HistInv, EventsInv, Successes, Results, Visible, Shown
<1>2. Shown(b) \subseteq Stored /\ lost \subseteq Stored
  BY <1>1, CreatedRow DEF LinkInv, HistInv, ShapeInv
<1>3. ASSUME NEW e \in Stored, e < s, events[e].branch = b, e \notin lost
      PROVE  e \in Visible(b)
  <2> SUFFICES ASSUME NEW w \in Workers, job[w] # None, job[w].event = e
               PROVE  FALSE
    BY <1>1, <1>3 DEF LinkInv, ReachInv
  <2>1. /\ OwnedJob(w, job[w], rows, events)
        /\ HeadJob(job[w], events, Shown(job[w].branch), rows[job[w].branch].head)
    BY DEF LinkInv, OwnedInv, HeadsInv
  <2>2. e # 0 /\ e \in Nat /\ s \in Nat
    BY <1>1, <1>3, TimesAreNumbers DEF Stored
  <2>3. s < e
    BY <1>1, <1>3, <2>1, <2>2 DEF OwnedJob, HeadJob
  <2> QED BY <1>3, <2>2, <2>3
<1>4. ASSUME SuccessBefore(Stored, s)
      PROVE  SuccessBefore(Visible(b), s) \/ SuccessBefore(lost, s)
  <2>1. PICK e \in Stored : e < s /\ events[e].outcome = "ok" /\ events[e].branch = b
    BY <1>4 DEF SuccessBefore
  <2> QED BY <1>3, <2>1 DEF SuccessBefore
<1>5. ASSUME SuccessBefore(Visible(b), s) \/ SuccessBefore(lost, s)
      PROVE  SuccessBefore(Stored, s)
  BY <1>1, <1>2, <1>5 DEF SuccessBefore
<1> QED BY <1>4, <1>5

\* With one client per branch and parents that nobody names, the SQL of
\* success_patterns and the walk of repair_strategies name the same first success of
\* a branch, unless an append that died between its two puts has left an earlier one.
THEOREM FirstSuccessIsOne ==
  ~ClientParents /\ OneClientPerBranch => (HistorySpec => []FirstSuccessesAgree)
BY FirstsAgree, LinkInvariant, PTL

-----------------------------------------------------------------------------
(* Links. *)

\* A result stays a result, and the rules say the same of a failure and a success
\* after a step that keeps what the branches show.
LEMMA RulesStay ==
  ASSUME HistInv, HistInv', edges = Parents, edges' = Parents', Kept,
         NEW f \in Failures, NEW s \in Successes
  PROVE  /\ f \in Failures' /\ s \in Successes'
         /\ PrimaryRule(f, s)' = PrimaryRule(f, s)
<1> DEFINE b == events[s].branch
<1>1. /\ f \in Stored /\ s \in Stored /\ b \in Created /\ events[f].branch \in Created
      /\ s \in Shown(b) /\ f \in Shown(events[f].branch)
  BY DEF HistInv, EventsInv, Failures, Successes, Results, Visible, Shown
<1>2. Stored \subseteq Stored' /\ (\A e \in Stored : events'[e] = events[e])
      /\ Created \subseteq Created'
  BY DEF Kept, Grows
<1>3. \A c \in Created : Shown(c) \subseteq Visible(c)' /\ Visible(c) = Shown(c)
  BY DEF Kept, Shown, Visible
<1>4. f \in Failures' /\ s \in Successes'
  <2>1. /\ f \in Reachable(edges', rows'[events[f].branch].head)
        /\ s \in Reachable(edges', rows'[b].head)
    BY <1>1, <1>3 DEF Visible
  <2>2. events'[f] = events[f] /\ events'[s] = events[s] /\ f \in Stored' /\ s \in Stored'
    BY <1>1, <1>2
  <2> QED BY <2>1, <2>2 DEF Failures, Successes, Results, Visible
<1>5. \A c \in Created : \A e \in Visible(c)', x \in Shown(c) : e < x => e \in Shown(c)
  <2> SUFFICES ASSUME NEW c \in Created, NEW e \in Visible(c)', NEW x \in Shown(c), e < x,
                      e \notin Shown(c)
               PROVE  FALSE
    OBVIOUS
  <2>1. x < e
    BY DEF Kept, Shown, Visible
  <2>2. x \in Nat /\ e \in Nat
    <3>1. c \in Created'
      BY <1>2
    <3>2. \A d \in Created' : Shown(d)' \subseteq Stored'
      BY CreatedRowNext
    <3>3. e \in Stored' /\ Stored' \subseteq Times
      BY <3>1, <3>2 DEF Shown, Visible, Stored
    <3>4. x \in Stored
      BY CreatedRow
    <3> QED BY <3>3, <3>4, TimesAreNumbers DEF Stored
  <2> QED BY <2>1, <2>2
<1>6. \A c \in Created : \A e \in Shown(c) : e \in Stored /\ e \in Visible(c)'
  BY <1>3, CreatedRow
<1>7. FirstOnBranch(s)' <=> FirstOnBranch(s)
  BY <1>1, <1>2, <1>3, <1>5, <1>6 DEF FirstOnBranch, SuccessBefore, Visible
<1>8. SameBranchFirstSuccess(f, s)' <=> SameBranchFirstSuccess(f, s)
  BY <1>1, <1>2, <1>3, <1>5, <1>6 DEF SameBranchFirstSuccess, Visible
<1>9. Ancestors(f)' = Ancestors(f)
  BY <1>1, ShownStays DEF Ancestors, Kept
<1>10. BaseOf(s)' = BaseOf(s)
  BY <1>1, <1>2 DEF BaseOf, Kept
<1>11. RollbackThenRepair(f, s)' <=> RollbackThenRepair(f, s)
  <2> DEFINE from == rows[b].from
  <2>1. events'[s].branch = b /\ rows'[b].from = from /\ from \in Created \cup {None}
    BY <1>1, <1>2, CreatedRow DEF Kept, RowOK
  <2>2. CASE from = None
    BY <2>1, <2>2 DEF RollbackThenRepair
  <2>3. CASE from # None
    <3>1. from \in Created /\ from \in Created'
      BY <1>2, <2>1, <2>3
    <3>2. rows[from] # None /\ rows'[from] # None /\ rows'[from].base = rows[from].base
          /\ rows'[from].rollback = rows[from].rollback
      BY <3>1 DEF Created, Kept
    <3> QED BY <1>7, <1>9, <2>1, <3>2 DEF RollbackThenRepair
  <2> QED BY <2>2, <2>3
<1>12. (BranchFromFailure(f, s)' <=> BranchFromFailure(f, s))
       /\ (BranchFromAncestor(f, s)' <=> BranchFromAncestor(f, s))
  BY <1>7, <1>9, <1>10 DEF BranchFromFailure, BranchFromAncestor
<1> QED BY <1>4, <1>8, <1>11, <1>12 DEF PrimaryRule

LEMMA LinksStay ==
  ASSUME HistInv, HistInv', edges = Parents, edges' = Parents', Kept, NEW fs \in Links
  PROVE  fs \in Links' /\ PrimaryRule(fs[1], fs[2])' = PrimaryRule(fs[1], fs[2])
<1>1. PICK f \in Failures, s \in Successes : fs = <<f, s>> /\ PrimaryRule(f, s) # None
  BY DEF Links
<1> QED BY <1>1, RulesStay DEF Links

\* With one client per branch and parents that nobody names, a repair link that
\* repair_strategies has shown is shown by every later call, with the same rule,
\* whatever is appended, snapshot, branched, rolled back or lost.
THEOREM LinksAreFinal ==
  ~ClientParents /\ OneClientPerBranch => (HistorySpec => LinksKept)
<1> SUFFICES ASSUME ~ClientParents, OneClientPerBranch PROVE HistorySpec => LinksKept
  OBVIOUS
<1>1. ASSUME LinkInv, edges = Parents, HistoryNext
      PROVE  \A fs \in Links :
               fs \in Links' /\ PrimaryRule(fs[1], fs[2])' = PrimaryRule(fs[1], fs[2])
  BY <1>1, LinkStep, HistoryStep, LinksStay DEF LinkInv
<1>2. LinkInv /\ edges = Parents /\ [HistoryNext]_history =>
        [\A fs \in Links :
           fs \in Links' /\ PrimaryRule(fs[1], fs[2])' = PrimaryRule(fs[1], fs[2])]_history
  BY <1>1
<1>3. HistorySpec => [](LinkInv /\ edges = Parents)
  BY LinkInvariant
<1> QED BY <1>2, <1>3, PTL DEF LinksKept, HistorySpec
=============================================================================
