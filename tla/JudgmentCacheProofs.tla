------------------------ MODULE JudgmentCacheProofs ------------------------
(***************************************************************************)
(* Theorems about JudgmentCache, as ContextViews composes it, for any      *)
(* number of queries and every bound.  Only what is said of the judgments  *)
(* needs one client per branch.                                            *)
(***************************************************************************)
EXTENDS ContextViews, RepairLinksProofs

\* The query is between its start and its end.
Active(q) == query[q].step \notin {"new", "done", "context"}

\* The events the query will still ask the LLM about.
Pending(q) ==
  {f \in query[q].todo : \/ query[q].step = "causes"
                         \/ query[q].step = "edges" /\ f # Asked(q)}

Fields == {"step", "ids", "failures", "todo", "rows", "torn"}

IsQuery(r) == r = [field \in Fields |-> r[field]] /\ r.todo \subseteq Nat

\* While no queries have overlapped, at most one is active, and the causes of the
\* events it is going to ask about are not known: nobody else looks for them.
CausesInv ==
  /\ query = [q \in Queries |-> query[q]]
  /\ \A q \in Queries : IsQuery(query[q])
  /\ ~overlap => \A q \in Queries : Active(q) =>
                   /\ \A p \in Queries : Active(p) => p = q
                   /\ Pending(q) \cap causes = {}

-----------------------------------------------------------------------------
(* Numbers. *)

\* The event that is asked about is one of those to be asked about.
LEMMA MinIsElement ==
  ASSUME NEW T \in SUBSET Nat, T # {}
  PROVE  Min(T) \in T
<1>1. PICK x \in T : \A y \in T : x <= y
  BY LeastNumber
<1> QED BY <1>1 DEF Min

LEMMA StoredAreNumbers == Stored \subseteq Nat
BY DEF Stored, Times

-----------------------------------------------------------------------------
(* The steps of a query. *)

LEMMA AtIsQuery == \A step : IsQuery(At(step)) /\ At(step).step = step /\ At(step).todo = {}
BY DEF IsQuery, Fields, At

\* A step of one query that starts nothing and asks about no more events.
LEMMA GoKeeps ==
  ASSUME CausesInv, NEW q \in Queries, NEW r, Go(q, r), IsQuery(r),
         UNCHANGED <<causes, overlap>>,
         Active(q) \/ r.step \in {"new", "done", "context"},
         r.step # "edges",
         r.step = "causes" /\ ~overlap => r.todo \cap causes = {}
  PROVE  CausesInv'
<1>1. \A p \in Queries : query'[p] = IF p = q THEN r ELSE query[p]
  BY DEF CausesInv, Go
<1>2. query' = [p \in Queries |-> query'[p]]
  BY DEF CausesInv, Go
<1>3. \A p \in Queries : IsQuery(query'[p])
  BY <1>1 DEF CausesInv
<1>4. ASSUME ~overlap', NEW p \in Queries, Active(p)', NEW s \in Queries, Active(s)'
      PROVE  s = p
  <2>1. ~overlap /\ Active(p) /\ Active(s)
    BY <1>1, <1>4 DEF Active
  <2> QED BY <2>1 DEF CausesInv
<1>5. ASSUME ~overlap', NEW p \in Queries, Active(p)'
      PROVE  Pending(p)' \cap causes' = {}
  <2>1. CASE p = q
    <3>1. query'[p] = r
      BY <1>1, <2>1
    <3> QED BY <1>5, <3>1 DEF Pending
  <2>2. CASE p # q
    <3>1. query'[p] = query[p] /\ ~overlap /\ Active(p)
      BY <1>1, <1>5, <2>2 DEF Active
    <3>2. Pending(p)' = Pending(p)
      BY <3>1 DEF Pending, Asked
    <3> QED BY <3>1, <3>2 DEF CausesInv
  <2> QED BY <2>1, <2>2
<1> QED BY <1>2, <1>3, <1>4, <1>5 DEF CausesInv

LEMMA CausesInvInit == Init => CausesInv
<1> SUFFICES ASSUME Init PROVE CausesInv
  OBVIOUS
<1>1. query = [q \in Queries |-> At("new")]
  BY DEF Init, LearnInit
<1>2. \A q \in Queries : ~Active(q)
  BY <1>1, AtIsQuery DEF Active
<1> QED BY <1>1, <1>2, AtIsQuery DEF CausesInv

\* A query that starts beside no other.
LEMMA StartKeeps ==
  ASSUME CausesInv, NEW q \in Queries, Start(q)
  PROVE  CausesInv'
<1>1. PICK r : Go(q, r) /\ IsQuery(r) /\ r.step \notin {"causes", "edges"}
  <2>1. CASE cache # None /\ cache.ids = Stored
    <3>1. PICK r \in AfterJudgments(cache.rows, cache.torn) : Go(q, r)
      BY <2>1 DEF Start
    <3>2. IsQuery(r) /\ r.step \in {"done", "clear"}
      BY <3>1, AtIsQuery DEF AfterJudgments, IsQuery, Fields
    <3> QED BY <3>1, <3>2
  <2>2. CASE ~(cache # None /\ cache.ids = Stored)
    <3> DEFINE r == [At("failures") EXCEPT !.ids = Stored]
    <3>1. Go(q, r)
      BY <2>2 DEF Start
    <3>2. IsQuery(r) /\ r.step = "failures"
      BY AtIsQuery DEF IsQuery, Fields
    <3> HIDE DEF r
    <3> QED BY <3>1, <3>2
  <2> QED BY <2>1, <2>2
<1>2. \A p \in Queries : query'[p] = IF p = q THEN r ELSE query[p]
  BY <1>1 DEF CausesInv, Go
<1>3. query' = [p \in Queries |-> query'[p]] /\ \A p \in Queries : IsQuery(query'[p])
  BY <1>1, <1>2 DEF CausesInv, Go
<1>4. ASSUME ~overlap', NEW p \in Queries, Active(p)'
      PROVE  p = q
  <2>1. p # q => query[p].step \in {"new", "done"}
    BY <1>4 DEF Start
  <2> QED BY <1>2, <1>4, <2>1 DEF Active
<1>5. Pending(q)' = {}
  BY <1>1, <1>2 DEF Pending
<1> QED BY <1>3, <1>4, <1>5 DEF CausesInv

\* What a call to the LLM ends with is put with the event it was asked about.
LEMMA PutCauseKeeps ==
  ASSUME CausesInv, NEW q \in Queries, PutCause(q)
  PROVE  CausesInv' /\ (overlap \/ causes \subseteq causes')
<1> DEFINE f == Asked(q)
           r == [query[q] EXCEPT !.step = "edges"]
<1>1. query[q].step = "causes" /\ query[q].todo # {} /\ UNCHANGED overlap
  BY DEF PutCause
<1>2. causes' = causes \cup {f} \/ causes' = causes \ {f}
  BY DEF PutCause, Classified
<1>3. IsQuery(r) /\ r.step = "edges" /\ r.todo = query[q].todo
  BY DEF CausesInv, IsQuery, Fields
<1>4. query' = [query EXCEPT ![q] = r]
  BY DEF PutCause, Go
<1> HIDE DEF r
<1>5. \A p \in Queries : query'[p] = IF p = q THEN r ELSE query[p]
  BY <1>4 DEF CausesInv
<1>6. f \in query[q].todo
  BY <1>1, MinIsElement DEF CausesInv, IsQuery, Asked
<1>7. overlap \/ f \notin causes
  BY <1>1, <1>6 DEF CausesInv, Active, Pending
<1>8. Asked(q)' = f
  BY <1>3, <1>5 DEF Asked
<1>9. query' = [p \in Queries |-> query'[p]] /\ \A p \in Queries : IsQuery(query'[p])
  BY <1>3, <1>4, <1>5 DEF CausesInv
<1>10. ASSUME ~overlap', NEW p \in Queries, Active(p)'
       PROVE  p = q
  <2>1. ~overlap /\ Active(q) /\ (p # q => Active(p))
    BY <1>1, <1>5, <1>10 DEF Active
  <2> QED BY <2>1 DEF CausesInv
<1>11. ASSUME ~overlap'
       PROVE  Pending(q)' \cap causes' = {}
  <2>1. \A g \in query[q].todo : g \notin causes
    BY <1>1, <1>11 DEF CausesInv, Active, Pending
  <2>2. Pending(q)' \subseteq query[q].todo \ {f}
    BY <1>3, <1>5, <1>8 DEF Pending
  <2> QED BY <1>2, <2>1, <2>2
<1>12. CausesInv'
  BY <1>9, <1>10, <1>11 DEF CausesInv
<1> QED BY <1>2, <1>7, <1>12

\* The other steps of a query.
LEMMA JudgmentStepKeeps ==
  ASSUME CausesInv, NEW q \in Queries, JudgmentStep(q)
  PROVE  CausesInv' /\ (overlap \/ causes \subseteq causes')
<1>1. CASE Start(q)
  BY <1>1, StartKeeps DEF Start
<1>2. CASE PutCause(q)
  BY <1>2, PutCauseKeeps
<1>3. CASE ReadFailures(q)
  <2> DEFINE r == [query[q] EXCEPT !.step = "causes", !.failures = Failures,
                                   !.todo = Failures \ causes, !.torn = HalfDone]
  <2>1. Go(q, r) /\ UNCHANGED <<causes, overlap>> /\ query[q].step = "failures"
    BY <1>3 DEF ReadFailures
  <2>2. Failures \subseteq Nat
    BY StoredAreNumbers DEF Failures, Results
  <2>3. IsQuery(r) /\ r.step = "causes" /\ r.todo = Failures \ causes
    <3>1. IsQuery(query[q])
      BY DEF CausesInv
    <3>2. r.step = "causes" /\ r.todo = Failures \ causes
      BY <3>1 DEF IsQuery, Fields
    <3>3. r = [field \in Fields |-> r[field]]
      BY <3>1 DEF IsQuery, Fields
    <3> HIDE DEF r
    <3> QED BY <2>2, <3>2, <3>3 DEF IsQuery
  <2> HIDE DEF r
  <2> QED BY <2>1, <2>3, GoKeeps DEF Active
<1>4. CASE PutEdges(q)
  <2> DEFINE r == [query[q] EXCEPT !.step = "causes", !.todo = @ \ {Asked(q)}]
  <2>1. Go(q, r) /\ UNCHANGED <<causes, overlap>> /\ query[q].step = "edges"
    BY <1>4 DEF PutEdges
  <2>2. IsQuery(r) /\ r.step = "causes" /\ r.todo = query[q].todo \ {Asked(q)}
    <3>1. IsQuery(query[q])
      BY DEF CausesInv
    <3>2. r.step = "causes" /\ r.todo = query[q].todo \ {Asked(q)}
      BY <3>1 DEF IsQuery, Fields
    <3>3. r = [field \in Fields |-> r[field]]
      BY <3>1 DEF IsQuery, Fields
    <3> HIDE DEF r
    <3> QED BY <3>1, <3>2, <3>3 DEF IsQuery
  <2>3. ~overlap => r.todo \cap causes = {}
    BY <2>1, <2>2 DEF CausesInv, Active, Pending
  <2> HIDE DEF r
  <2> QED BY <2>1, <2>2, <2>3, GoKeeps DEF Active
<1>5. ASSUME NEW accepted, NEW excused, NEW r \in AfterJudgments(accepted, excused),
             Go(q, r), Active(q), UNCHANGED <<causes, overlap>>
      PROVE  CausesInv' /\ (overlap \/ causes \subseteq causes')
  <2>1. IsQuery(r) /\ r.step \in {"done", "clear"}
    BY <1>5, AtIsQuery DEF AfterJudgments, IsQuery, Fields
  <2> QED BY <1>5, <2>1, GoKeeps
<1>6. CASE ReadLinks(q)
  <2> DEFINE r == [query[q] EXCEPT
                     !.step = "judge",
                     !.rows = {fs \in query[q].failures \X Successes :
                                 PrimaryRule(fs[1], fs[2]) # None},
                     !.torn = @ \/ HalfDone]
  <2>1. Go(q, r) /\ UNCHANGED <<causes, overlap>> /\ Active(q)
    BY <1>6 DEF ReadLinks, Active
  <2>2. IsQuery(r) /\ r.step = "judge"
    BY DEF CausesInv, IsQuery, Fields
  <2> HIDE DEF r
  <2> QED BY <2>1, <2>2, GoKeeps
<1>7. CASE Judged(q)
  <2> DEFINE r == [query[q] EXCEPT !.step = "put", !.failures = {}]
  <2>1. Go(q, r) /\ UNCHANGED <<causes, overlap>> /\ Active(q)
    BY <1>7 DEF Judged, Active
  <2>2. IsQuery(r) /\ r.step = "put"
    BY DEF CausesInv, IsQuery, Fields
  <2> HIDE DEF r
  <2> QED BY <2>1, <2>2, GoKeeps
<1>8. CASE JudgeFailed(q)
  BY <1>5, <1>8 DEF JudgeFailed, Active
<1>9. CASE JudgeRaises(q)
  <2>1. Go(q, At("done")) /\ UNCHANGED <<causes, overlap>>
    BY <1>9 DEF JudgeRaises
  <2> QED BY <2>1, AtIsQuery, GoKeeps
<1>10. CASE PutJudgments(q)
  BY <1>5, <1>10 DEF PutJudgments, Active
<1>11. CASE ClearIndex(q)
  <2> DEFINE r == [query[q] EXCEPT !.step = "fill"]
  <2>1. Go(q, r) /\ UNCHANGED <<causes, overlap>> /\ Active(q)
    BY <1>11 DEF ClearIndex, Active
  <2>2. IsQuery(r) /\ r.step = "fill"
    BY DEF CausesInv, IsQuery, Fields
  <2> HIDE DEF r
  <2> QED BY <2>1, <2>2, GoKeeps
<1>12. CASE FillIndex(q)
  <2>1. Go(q, At("done")) /\ UNCHANGED <<causes, overlap>>
    BY <1>12 DEF FillIndex
  <2> QED BY <2>1, AtIsQuery, GoKeeps
<1> QED BY <1>1, <1>2, <1>3, <1>4, <1>6, <1>7, <1>8, <1>9, <1>10, <1>11, <1>12
        DEF JudgmentStep

LEMMA CausesInvNext ==
  ASSUME CausesInv, [Next]_vars
  PROVE  CausesInv' /\ (overlap \/ causes \subseteq causes')
<1>1. ASSUME UNCHANGED <<causes, query, overlap>>
      PROVE  CausesInv' /\ (overlap \/ causes \subseteq causes')
  BY <1>1 DEF CausesInv, Active, Pending, Asked
<1>2. CASE Grow
  BY <1>1, <1>2 DEF Grow
<1>3. CASE \E e \in Stored : RewriteCall(e) \/ CallRewritten(e)
  BY <1>1, <1>3 DEF RewriteCall, CallRewritten, learned
<1>4. CASE \E q \in Queries : JudgmentStep(q)
  BY <1>4, JudgmentStepKeeps
<1>5. ASSUME NEW q \in Queries, NEW b \in Created, ReadEvents(q, b)
      PROVE  CausesInv' /\ (overlap \/ causes \subseteq causes')
  <2>1. Go(q, At("context")) /\ UNCHANGED <<causes, overlap>>
    BY <1>5 DEF ReadEvents, Go
  <2> QED BY <2>1, AtIsQuery, GoKeeps
<1>6. CASE \E q \in Queries :
             \/ ReadLatest(q) \/ (\E refresh \in BOOLEAN : ReadDigest(q, refresh))
             \/ PutDigest(q) \/ DigestRaises(q) \/ Pack(q) \/ PackNext(q) \/ Answer(q)
  BY <1>1, <1>6 DEF ReadLatest, ReadDigest, PutDigest, DigestRaises, Pack, PackNext, Answer,
                    learned
<1>7. CASE UNCHANGED vars
  BY <1>1, <1>7 DEF vars, learned
<1> QED BY <1>2, <1>3, <1>4, <1>5, <1>6, <1>7 DEF Next

\* As long as queries run one after the other, a cause the LLM has found is never
\* lost to a failed call, though every call puts its outcome in the cause's place:
\* a cause that is known is not asked for (_llm_likely_cause).
THEOREM CausesAreKept == Spec => CausesKept
<1>1. CausesInv /\ [Next]_vars => [overlap \/ causes \subseteq causes']_<<causes, overlap>>
  BY CausesInvNext
<1>2. CausesInv /\ [Next]_vars => CausesInv'
  BY CausesInvNext
<1> QED BY <1>1, <1>2, CausesInvInit, PTL DEF Spec, CausesKept
-----------------------------------------------------------------------------
(* The history, while queries write it. *)

\* An event's edges are those to its parents, or deleted for the moment.
EdgesInv == DOMAIN edges = Times /\ \A e \in Times : edges[e] \in {{}, Parents[e]}

\* No event, and no branch, changes.
Still ==
  /\ UNCHANGED <<events, rows, job, lost>>
  /\ edges' = edges \/ edges' = Parents \/ \E e : edges' = [edges EXCEPT ![e] = {}]

LEMMA GrowsOrStill ==
  ASSUME [Next]_vars PROVE Grow \/ Still
<1>1. ASSUME NEW q \in Queries, JudgmentStep(q) PROVE Still
  BY <1>1 DEF JudgmentStep, Start, ReadFailures, PutCause, PutEdges, ReadLinks, Judged, JudgeFailed,
              JudgeRaises, PutJudgments, ClearIndex, FillIndex, history, Still
<1>2. ASSUME NEW q \in Queries,
             \/ \E b \in Created : ReadEvents(q, b)
             \/ ReadLatest(q) \/ (\E refresh \in BOOLEAN : ReadDigest(q, refresh))
             \/ PutDigest(q) \/ DigestRaises(q) \/ Pack(q) \/ PackNext(q) \/ Answer(q)
      PROVE  Still
  BY <1>2 DEF ReadEvents, ReadLatest, ReadDigest, PutDigest, DigestRaises, Pack, PackNext, Answer,
              history, Still
<1>3. ASSUME NEW e \in Stored, RewriteCall(e) \/ CallRewritten(e) PROVE Still
  BY <1>3 DEF RewriteCall, CallRewritten, Still
<1>4. CASE UNCHANGED vars
  BY <1>4 DEF vars, history, Still
<1> QED BY <1>1, <1>2, <1>3, <1>4 DEF Next

LEMMA StillKeeps ==
  ASSUME HistInv, EdgesInv, Still
  PROVE  /\ HistInv' /\ EdgesInv' /\ Grows
         /\ Stored' = Stored /\ Parents' = Parents /\ Created' = Created
<1>1. HistInv' /\ Grows /\ Stored' = Stored /\ Parents' = Parents /\ Created' = Created
  BY HistStill DEF Still
<1>2. EdgesInv'
  <2>1. DOMAIN Parents = Times
    BY DEF Parents
  <2> QED BY <1>1, <2>1 DEF Still, EdgesInv
<1> QED BY <1>1, <1>2

LEMMA GrowKeeps ==
  ASSUME HistInv, Grow
  PROVE  /\ edges = Parents /\ edges' = Parents' /\ HistoryNext
         /\ HistInv' /\ EdgesInv' /\ Grows
         /\ UNCHANGED <<causes, cache, index, query, overlap>>
<1>1. edges = Parents /\ HistoryNext /\ UNCHANGED <<causes, cache, index, query, overlap>>
  BY DEF Grow, WriteFree
<1>2. edges' = Parents' /\ HistInv' /\ Grows
  BY <1>1, HistoryStep
<1>3. EdgesInv'
  BY <1>2 DEF EdgesInv, Parents
<1> QED BY <1>1, <1>2, <1>3

LEMMA HistoryKept ==
  ASSUME HistInv, EdgesInv, [Next]_vars PROVE HistInv' /\ EdgesInv' /\ Grows
BY GrowsOrStill, StillKeeps, GrowKeeps

LEMMA ComposedHistory == Spec => [](HistInv /\ EdgesInv)
<1>1. Init => HistInv /\ EdgesInv
  BY InitHist DEF Init, EdgesInv, Parents
<1> QED BY <1>1, HistoryKept, PTL DEF Spec

-----------------------------------------------------------------------------
(* Types. *)

\* The causes that are asked for are of events that are stored.
TodoInv == \A q \in Queries : query[q].todo \subseteq Stored

LEMMA AtShape == \A step \in Steps : At(step) \in Query /\ At(step).step = step /\ At(step).todo = {}
BY DEF At, Query

\* A step of a query to r, and what else it leaves.
LEMMA LearnedStep ==
  ASSUME LearnedTypeOK, TodoInv, NEW q \in Queries, NEW r \in Query, Go(q, r),
         Stored' = Stored, r.todo \subseteq Stored,
         causes' \subseteq Stored, cache' \in View \cup {None}, index' \subseteq Pairs,
         overlap' \in BOOLEAN, kept' \subseteq Pairs
  PROVE  LearnedTypeOK' /\ TodoInv'
<1>1. query' = [query EXCEPT ![q] = r] /\ query \in [Queries -> Query]
  BY DEF Go, LearnedTypeOK
<1> QED BY <1>1 DEF LearnedTypeOK, TodoInv

LEMMA AfterJudgmentsShape ==
  ASSUME NEW accepted \in SUBSET Pairs, NEW excused \in BOOLEAN,
         NEW r \in AfterJudgments(accepted, excused)
  PROVE  r \in Query /\ r.todo = {} /\ r.step \in {"done", "clear"}
         /\ (r.step = "clear" => r.rows = accepted /\ r.torn = excused)
BY AtShape DEF AfterJudgments, Query, Steps, At

LEMMA JudgmentStepTypes ==
  ASSUME HistInv, LearnedTypeOK, TodoInv, NEW q \in Queries, JudgmentStep(q), Still
  PROVE  LearnedTypeOK' /\ TodoInv'
<1>1. /\ query[q] \in Query /\ query[q].todo \subseteq Stored /\ query[q].rows \subseteq Pairs
      /\ query[q].torn \in BOOLEAN /\ query[q].ids \subseteq Times
      /\ query[q].failures \subseteq Times
      /\ cache \in View \cup {None} /\ causes \subseteq Stored /\ index \subseteq Pairs
      /\ overlap \in BOOLEAN /\ kept \subseteq Pairs
  BY DEF LearnedTypeOK, TodoInv, Query
<1>2. Stored' = Stored /\ Stored \subseteq Times /\ Times \subseteq Nat
  BY TimesAreNumbers DEF Still, Stored
<1>3. HalfDone \in BOOLEAN
  BY DEF HalfDone
<1>4. Failures \subseteq Stored /\ Successes \subseteq Stored
  BY DEF Failures, Successes, Results
<1>5. CASE Start(q)
  <2>1. overlap' \in BOOLEAN /\ kept' \subseteq Pairs /\ UNCHANGED <<causes, cache, index>>
    BY <1>1, <1>5 DEF Start
  <2>2. PICK r \in Query : Go(q, r) /\ r.todo = {}
    <3>1. CASE cache # None /\ cache.ids = Stored
      <4>1. cache.rows \subseteq Pairs /\ cache.torn \in BOOLEAN
        BY <1>1, <3>1 DEF View
      <4>2. PICK r \in AfterJudgments(cache.rows, cache.torn) : Go(q, r)
        BY <1>5, <3>1 DEF Start
      <4>3. r \in Query /\ r.todo = {}
        BY <4>1, AfterJudgmentsShape
      <4> QED BY <4>2, <4>3
    <3>2. CASE ~(cache # None /\ cache.ids = Stored)
      <4>1. [At("failures") EXCEPT !.ids = Stored] \in Query
        BY <1>2 DEF Query, At, Steps
      <4>2. [At("failures") EXCEPT !.ids = Stored].todo = {}
        BY DEF At
      <4>3. Go(q, [At("failures") EXCEPT !.ids = Stored])
        BY <1>5, <3>2 DEF Start
      <4> QED BY <4>1, <4>2, <4>3
    <3> QED BY <3>1, <3>2
  <2> QED BY <1>1, <1>2, <2>1, <2>2, LearnedStep
<1>6. CASE ReadFailures(q)
  <2> DEFINE r == [query[q] EXCEPT !.step = "causes", !.failures = Failures,
                                   !.todo = Failures \ causes, !.torn = HalfDone]
  <2>1. r \in Query /\ r.todo \subseteq Stored
    BY <1>1, <1>2, <1>3, <1>4 DEF Query, Steps
  <2>2. Go(q, r) /\ UNCHANGED <<causes, cache, index, overlap, kept>>
    BY <1>6 DEF ReadFailures
  <2> HIDE DEF r
  <2> QED BY <1>1, <1>2, <2>1, <2>2, LearnedStep
<1>7. CASE PutCause(q)
  <2> DEFINE r == [query[q] EXCEPT !.step = "edges"]
  <2>1. r \in Query /\ r.todo \subseteq Stored
    BY <1>1 DEF Query, Steps
  <2>2. Go(q, r) /\ UNCHANGED <<cache, index, overlap, kept>>
    BY <1>7 DEF PutCause
  <2>3. Asked(q) \in Stored
    <3>1. query[q].todo \in SUBSET Nat /\ query[q].todo # {}
      BY <1>1, <1>2, <1>7 DEF PutCause
    <3> QED BY <1>1, <3>1, MinIsElement DEF Asked
  <2>4. causes' \subseteq Stored
    BY <1>1, <1>7, <2>3 DEF PutCause, Classified
  <2> HIDE DEF r
  <2> QED BY <1>1, <1>2, <2>1, <2>2, <2>4, LearnedStep
<1>8. CASE PutEdges(q)
  <2> DEFINE r == [query[q] EXCEPT !.step = "causes", !.todo = @ \ {Asked(q)}]
  <2>1. r \in Query /\ r.todo \subseteq Stored
    BY <1>1 DEF Query, Steps
  <2>2. Go(q, r) /\ UNCHANGED <<causes, cache, index, overlap, kept>>
    BY <1>8 DEF PutEdges
  <2> HIDE DEF r
  <2> QED BY <1>1, <1>2, <2>1, <2>2, LearnedStep
<1>9. CASE ReadLinks(q)
  <2> DEFINE links == {fs \in query[q].failures \X Successes : PrimaryRule(fs[1], fs[2]) # None}
             r == [query[q] EXCEPT !.step = "judge", !.rows = links, !.torn = @ \/ HalfDone]
  <2>1. links \subseteq Pairs
    BY <1>1, <1>2, <1>4 DEF Pairs
  <2>2. Go(q, r) /\ UNCHANGED <<causes, cache, index, overlap, kept>>
    BY <1>9 DEF ReadLinks
  <2> HIDE DEF links
  <2>3. r \in Query /\ r.todo \subseteq Stored
    BY <1>1, <1>3, <2>1 DEF Query, Steps
  <2> HIDE DEF r
  <2> QED BY <1>1, <1>2, <2>2, <2>3, LearnedStep
<1>10. CASE Judged(q)
  <2> DEFINE r == [query[q] EXCEPT !.step = "put", !.failures = {}]
  <2>1. r \in Query /\ r.todo \subseteq Stored
    BY <1>1 DEF Query, Steps
  <2>2. Go(q, r) /\ UNCHANGED <<causes, cache, index, overlap, kept>>
    BY <1>10 DEF Judged
  <2> HIDE DEF r
  <2> QED BY <1>1, <1>2, <2>1, <2>2, LearnedStep
<1>11. CASE JudgeFailed(q)
  <2>1. PICK accepted \in SUBSET query[q].rows : \E r \in AfterJudgments(accepted, TRUE) : Go(q, r)
    BY <1>11 DEF JudgeFailed
  <2>2. PICK r \in Query : Go(q, r) /\ r.todo = {}
    BY <1>1, <2>1, AfterJudgmentsShape
  <2>3. UNCHANGED <<causes, cache, index, overlap, kept>>
    BY <1>11 DEF JudgeFailed
  <2> QED BY <1>1, <1>2, <2>2, <2>3, LearnedStep
<1>12. CASE JudgeRaises(q)
  <2>1. Go(q, At("done")) /\ At("done") \in Query /\ At("done").todo = {}
        /\ UNCHANGED <<causes, cache, index, overlap, kept>>
    BY <1>12, AtShape DEF JudgeRaises, Steps
  <2> QED BY <1>1, <1>2, <2>1, LearnedStep
<1>13. CASE PutJudgments(q)
  <2>1. PICK r \in Query : Go(q, r) /\ r.todo = {}
    BY <1>1, <1>13, AfterJudgmentsShape DEF PutJudgments
  <2>2. cache' \in View /\ UNCHANGED <<causes, index, overlap, kept>>
    BY <1>1, <1>13 DEF PutJudgments, View
  <2> QED BY <1>1, <1>2, <2>1, <2>2, LearnedStep
<1>14. CASE ClearIndex(q)
  <2> DEFINE r == [query[q] EXCEPT !.step = "fill"]
  <2>1. r \in Query /\ r.todo \subseteq Stored
    BY <1>1 DEF Query, Steps
  <2>2. Go(q, r) /\ UNCHANGED <<causes, cache, overlap, kept>> /\ index' = {}
    BY <1>14 DEF ClearIndex
  <2> HIDE DEF r
  <2> QED BY <1>1, <1>2, <2>1, <2>2, LearnedStep
<1>15. CASE FillIndex(q)
  <2>1. Go(q, At("done")) /\ At("done") \in Query /\ At("done").todo = {}
    BY <1>15, AtShape DEF FillIndex, Steps
  <2>2. UNCHANGED <<causes, cache, overlap>> /\ index' \subseteq Pairs /\ kept' \subseteq Pairs
    BY <1>1, <1>15 DEF FillIndex
  <2> QED BY <1>1, <1>2, <2>1, <2>2, LearnedStep
<1> QED BY <1>5, <1>6, <1>7, <1>8, <1>9, <1>10, <1>11, <1>12, <1>13, <1>14, <1>15
        DEF JudgmentStep

\* The steps that are not a query's about judgments.
OtherSteps ==
  \/ Grow
  \/ UNCHANGED learned
  \/ \E q \in Queries, b \in Created : ReadEvents(q, b)

LEMMA JudgesOrNot ==
  ASSUME [Next]_vars PROVE (\E q \in Queries : JudgmentStep(q)) \/ OtherSteps
BY DEF Next, OtherSteps, RewriteCall, CallRewritten, ReadLatest, ReadDigest, PutDigest,
       DigestRaises, Pack, PackNext, Answer, vars

LEMMA LearnedKept ==
  ASSUME HistInv, EdgesInv, LearnedTypeOK, TodoInv, [Next]_vars
  PROVE  LearnedTypeOK' /\ TodoInv'
<1>1. Stored \subseteq Stored'
  BY HistoryKept DEF Grows
<1>2. ASSUME UNCHANGED <<causes, cache, index, query, overlap>>, kept' \subseteq kept
      PROVE  LearnedTypeOK' /\ TodoInv'
  BY <1>1, <1>2 DEF LearnedTypeOK, TodoInv
<1>3. CASE Grow \/ UNCHANGED learned
  BY <1>2, <1>3 DEF Grow, learned
<1>4. ASSUME NEW q \in Queries, NEW b \in Created, ReadEvents(q, b)
      PROVE  LearnedTypeOK' /\ TodoInv'
  <2>1. Go(q, At("context")) /\ UNCHANGED <<causes, cache, index, overlap, kept>>
        /\ UNCHANGED history
    BY <1>4 DEF ReadEvents, Go
  <2>2. At("context") \in Query /\ At("context").todo = {}
    BY AtShape DEF Steps
  <2>3. Stored' = Stored
    BY <2>1 DEF history, Stored
  <2> QED BY <2>1, <2>2, <2>3, LearnedStep DEF LearnedTypeOK
<1>5. ASSUME NEW q \in Queries, JudgmentStep(q)
      PROVE  LearnedTypeOK' /\ TodoInv'
  <2>1. Still
    BY <1>5 DEF JudgmentStep, Start, ReadFailures, PutCause, PutEdges, ReadLinks, Judged,
                JudgeFailed, JudgeRaises, PutJudgments, ClearIndex, FillIndex, history, Still
  <2> QED BY <1>5, <2>1, JudgmentStepTypes
<1> QED BY <1>3, <1>4, <1>5, JudgesOrNot DEF OtherSteps

LEMMA LearnedInvariant == Spec => [](HistInv /\ EdgesInv /\ LearnedTypeOK /\ TodoInv)
<1>1. Init => LearnedTypeOK /\ TodoInv
  <2> SUFFICES ASSUME Init PROVE LearnedTypeOK /\ TodoInv
    OBVIOUS
  <2>1. At("new") \in Query /\ At("new").todo = {}
    BY AtShape DEF Steps
  <2> QED BY <2>1 DEF Init, LearnInit, LearnedTypeOK, TodoInv
<1>2. HistInv /\ EdgesInv /\ LearnedTypeOK /\ TodoInv /\ [Next]_vars => (LearnedTypeOK /\ TodoInv)'
  BY LearnedKept
<1> QED BY <1>1, <1>2, ComposedHistory, PTL DEF Spec

-----------------------------------------------------------------------------
(* The links of the whole history. *)

LEMMA WholeReachable ==
  /\ \A up, e : Whole!Reachable(up, e) = Reachable(up, e)
  /\ Whole!Stored = Stored /\ Whole!Parents = Parents /\ Whole!Created = Created
  /\ \A b : Whole!Visible(b) = Shown(b)
  /\ \A e : Whole!Ancestors(e) = Ancestors(e)
<1>1. \A up, e : Whole!Reachable(up, e) = Reachable(up, e)
  BY DEF Whole!Reachable, Reachable
<1>2. Whole!Stored = Stored /\ Whole!Created = Created
  BY DEF Whole!Stored, Stored, Whole!Times, Times, Whole!Created, Created
<1>3. Whole!Parents = Parents
  BY <1>2 DEF Whole!Parents, Parents, Whole!Times, Times
<1> QED BY <1>1, <1>2, <1>3 DEF Whole!Visible, Shown, Whole!Ancestors, Ancestors

\* They are the links that are read while no write to the edges is half done.
LEMMA WholeIs ==
  edges = Parents => Whole!Links = Links /\ Whole!Failures = Failures
<1> SUFFICES ASSUME edges = Parents PROVE Whole!Links = Links /\ Whole!Failures = Failures
  OBVIOUS
<1>1. \A b : Whole!Visible(b) = Visible(b)
  BY WholeReachable DEF Shown, Visible
<1>2. \A o : Whole!Results(o) = Results(o)
  BY <1>1, WholeReachable DEF Whole!Results, Results
<1>3. Whole!Failures = Failures /\ Whole!Successes = Successes
  BY <1>2 DEF Whole!Failures, Failures, Whole!Successes, Successes
<1>4. \A s : Whole!FirstOnBranch(s) <=> FirstOnBranch(s)
  BY <1>1 DEF Whole!FirstOnBranch, FirstOnBranch, Whole!SuccessBefore, SuccessBefore
<1>5. \A s : Whole!BaseOf(s) = BaseOf(s)
  BY DEF Whole!BaseOf, BaseOf
<1>6. \A f, s :
        /\ Whole!SameBranchFirstSuccess(f, s) <=> SameBranchFirstSuccess(f, s)
        /\ Whole!BranchFromFailure(f, s) <=> BranchFromFailure(f, s)
        /\ Whole!BranchFromAncestor(f, s) <=> BranchFromAncestor(f, s)
        /\ Whole!RollbackThenRepair(f, s) <=> RollbackThenRepair(f, s)
  <2> SUFFICES ASSUME NEW f, NEW s
               PROVE  /\ Whole!SameBranchFirstSuccess(f, s) <=> SameBranchFirstSuccess(f, s)
                      /\ Whole!BranchFromFailure(f, s) <=> BranchFromFailure(f, s)
                      /\ Whole!BranchFromAncestor(f, s) <=> BranchFromAncestor(f, s)
                      /\ Whole!RollbackThenRepair(f, s) <=> RollbackThenRepair(f, s)
    OBVIOUS
  <2>1. Whole!SameBranchFirstSuccess(f, s) <=> SameBranchFirstSuccess(f, s)
    BY <1>1 DEF Whole!SameBranchFirstSuccess, SameBranchFirstSuccess
  <2>2. Whole!BranchFromFailure(f, s) <=> BranchFromFailure(f, s)
    BY <1>4, <1>5 DEF Whole!BranchFromFailure, BranchFromFailure
  <2>3. Whole!BranchFromAncestor(f, s) <=> BranchFromAncestor(f, s)
    BY <1>4, <1>5, WholeReachable DEF Whole!BranchFromAncestor, BranchFromAncestor
  <2>4. Whole!RollbackThenRepair(f, s) <=> RollbackThenRepair(f, s)
    BY <1>4, WholeReachable DEF Whole!RollbackThenRepair, RollbackThenRepair
  <2> QED BY <2>1, <2>2, <2>3, <2>4
<1>7. \A f, s : Whole!PrimaryRule(f, s) = PrimaryRule(f, s)
  BY <1>6 DEF Whole!PrimaryRule, PrimaryRule
<1> QED BY <1>3, <1>7 DEF Whole!Links, Links

LEMMA WholeIsNext ==
  (edges = Parents => Whole!Links = Links /\ Whole!Failures = Failures)'
BY WholeIs, PTL

\* They do not depend on the table of edges.
LEMMA WholeStill ==
  ASSUME UNCHANGED <<events, rows>>
  PROVE  Whole!Links' = Whole!Links /\ Whole!Failures' = Whole!Failures
<1>1. Whole!Stored' = Whole!Stored /\ Whole!Parents' = Whole!Parents /\ Parents' = Parents
  BY DEF Whole!Stored, Whole!Parents, Parents, Stored
<1>2. \A b : Whole!Visible(b)' = Whole!Visible(b)
  BY <1>1 DEF Whole!Visible
<1>3. \A e : Whole!Ancestors(e)' = Whole!Ancestors(e)
  BY <1>1 DEF Whole!Ancestors
<1>4. \A s : Whole!FirstOnBranch(s)' <=> Whole!FirstOnBranch(s)
  BY <1>2 DEF Whole!FirstOnBranch, Whole!SuccessBefore, Whole!Visible
<1>5. \A s : Whole!BaseOf(s)' = Whole!BaseOf(s)
  BY DEF Whole!BaseOf
<1>6. Whole!Failures' = Whole!Failures /\ Whole!Successes' = Whole!Successes
  BY <1>1, <1>2 DEF Whole!Failures, Whole!Successes, Whole!Results, Whole!Visible
<1>7. ASSUME NEW f, NEW s PROVE Whole!PrimaryRule(f, s)' = Whole!PrimaryRule(f, s)
  <2>1. Whole!SameBranchFirstSuccess(f, s)' <=> Whole!SameBranchFirstSuccess(f, s)
    BY <1>2 DEF Whole!SameBranchFirstSuccess, Whole!Visible
  <2>2. Whole!BranchFromFailure(f, s)' <=> Whole!BranchFromFailure(f, s)
    BY <1>4, <1>5 DEF Whole!BranchFromFailure
  <2>3. Whole!BranchFromAncestor(f, s)' <=> Whole!BranchFromAncestor(f, s)
    BY <1>3, <1>4, <1>5 DEF Whole!BranchFromAncestor
  <2>4. Whole!RollbackThenRepair(f, s)' <=> Whole!RollbackThenRepair(f, s)
    BY <1>3, <1>4 DEF Whole!RollbackThenRepair
  <2> QED BY <2>1, <2>2, <2>3, <2>4 DEF Whole!PrimaryRule
<1> QED BY <1>6, <1>7 DEF Whole!Links

\* With one client per branch, none is added or taken back as long as no event is
\* put and none is in flight.
LEMMA WholeQuiet ==
  ASSUME HistInv, OwnedInv, EdgesInv, [Next]_vars, InFlight = {}, Stored' = Stored
  PROVE  Whole!Links' = Whole!Links /\ Whole!Failures' = Whole!Failures /\ InFlight' = {}
<1>1. CASE Grow
  <2>1. edges = Parents /\ edges' = Parents' /\ HistoryNext
    BY <1>1, GrowKeeps
  <2>2. StillShown /\ InFlight' = {}
    BY <2>1, QuietStep
  <2>3. Links' = Links /\ Failures' = Failures
    BY <2>1, <2>2, LinksFrozen
  <2> QED BY <2>1, <2>2, <2>3, WholeIs, WholeIsNext
<1>2. CASE Still
  BY <1>2, WholeStill DEF Still, InFlight
<1> QED BY <1>1, <1>2, GrowsOrStill

-----------------------------------------------------------------------------
(***************************************************************************)
(* The judgments.  What was mined of as many events as there are, with no  *)
(* write half done, was mined of the history as it is: with one client per *)
(* branch, no head has moved since then and none is going to move to an    *)
(* event there is.                                                         *)
(***************************************************************************)

Mining == {"failures", "causes", "edges", "judge", "put"}

MinedOK(r, stored, inflight, failures, links) ==
  r.step \in Mining =>
    /\ r.ids \subseteq stored
    /\ r.step # "failures" /\ ~r.torn /\ r.ids = stored =>
         /\ inflight = {}
         /\ r.step \in {"causes", "edges"} => r.failures = failures
         /\ r.step \in {"judge", "put"} => r.rows = links

CacheOK(c, stored, inflight, links) ==
  c # None => /\ c.ids \subseteq stored
              /\ ~c.torn /\ c.ids = stored => inflight = {} /\ c.rows = links

CurrentInv ==
  /\ CacheOK(cache, Stored, InFlight, Whole!Links)
  /\ \A q \in Queries : MinedOK(query[q], Stored, InFlight, Whole!Failures, Whole!Links)

LearnedInv == HistInv /\ EdgesInv /\ LearnedTypeOK /\ TodoInv

JudgingInv == LearnedInv /\ OwnedInv

LEMMA OwnedKept ==
  ASSUME OneClientPerBranch, HistInv, OwnedInv, [Next]_vars PROVE OwnedInv'
<1>1. CASE Grow
  BY <1>1, GrowKeeps, OwnedStep
<1>2. CASE Still
  BY <1>2 DEF Still, OwnedInv
<1> QED BY <1>1, <1>2, GrowsOrStill

\* What was mined stays mined.
LEMMA MinedStays ==
  ASSUME JudgingInv, CurrentInv, [Next]_vars
  PROVE  /\ CacheOK(cache, Stored', InFlight', Whole!Links')
         /\ \A q \in Queries :
              MinedOK(query[q], Stored', InFlight', Whole!Failures', Whole!Links')
<1>1. Stored \subseteq Stored'
  BY HistoryKept DEF JudgingInv, LearnedInv, Grows
<1>2. InFlight = {} /\ Stored' = Stored =>
        Whole!Links' = Whole!Links /\ Whole!Failures' = Whole!Failures /\ InFlight' = {}
  BY WholeQuiet DEF JudgingInv, LearnedInv
<1>3. \A ids : ids \subseteq Stored =>
        ids \subseteq Stored' /\ (ids = Stored' => ids = Stored /\ Stored' = Stored)
  BY <1>1
<1>4. CacheOK(cache, Stored', InFlight', Whole!Links')
  BY <1>2, <1>3 DEF CurrentInv, CacheOK
<1>5. ASSUME NEW q \in Queries
      PROVE  MinedOK(query[q], Stored', InFlight', Whole!Failures', Whole!Links')
  BY <1>2, <1>3 DEF CurrentInv, MinedOK
<1> QED BY <1>4, <1>5

\* A step of q to r.
LEMMA CurrentStep ==
  ASSUME JudgingInv, CurrentInv, [Next]_vars, NEW q \in Queries, NEW r, Go(q, r),
         MinedOK(r, Stored', InFlight', Whole!Failures', Whole!Links'),
         CacheOK(cache', Stored', InFlight', Whole!Links')
  PROVE  CurrentInv'
<1>1. \A p \in Queries : query'[p] = IF p = q THEN r ELSE query[p]
  BY DEF Go, JudgingInv, LearnedInv, LearnedTypeOK
<1> QED BY <1>1, MinedStays DEF CurrentInv

LEMMA CurrentNext ==
  ASSUME JudgingInv, CurrentInv, [Next]_vars
  PROVE  CurrentInv'
<1>2. ASSUME UNCHANGED <<cache, query>> PROVE CurrentInv'
  BY <1>2, MinedStays DEF CurrentInv
<1>3. CASE UNCHANGED learned
  BY <1>2, <1>3 DEF learned
<1>4. CASE Grow
  BY <1>2, <1>4 DEF Grow, learned
<1>5. ASSUME NEW q \in Queries, NEW b \in Created, ReadEvents(q, b)
      PROVE  CurrentInv'
  <2>1. Go(q, At("context")) /\ UNCHANGED cache
    BY <1>5 DEF ReadEvents, Go
  <2>2. At("context").step \notin Mining
    BY DEF At, Mining
  <2> QED BY <2>1, <2>2, MinedStays, CurrentStep DEF MinedOK
<1>6. ASSUME NEW q \in Queries, JudgmentStep(q)
      PROVE  CurrentInv'
  <2>0. Still
    BY <1>6 DEF JudgmentStep, Start, ReadFailures, PutCause, PutEdges, ReadLinks, Judged,
                JudgeFailed, JudgeRaises, PutJudgments, ClearIndex, FillIndex, history, Still
  <2>1. Stored' = Stored /\ InFlight' = InFlight
        /\ Whole!Links' = Whole!Links /\ Whole!Failures' = Whole!Failures
    BY <2>0, WholeStill DEF Still, InFlight, Stored
  <2>2. /\ CacheOK(cache, Stored, InFlight, Whole!Links)
        /\ MinedOK(query[q], Stored, InFlight, Whole!Failures, Whole!Links)
        /\ query[q] \in Query
    BY DEF CurrentInv, JudgingInv, LearnedInv, LearnedTypeOK
  <2>3. ASSUME NEW r, Go(q, r), MinedOK(r, Stored, InFlight, Whole!Failures, Whole!Links),
               CacheOK(cache', Stored, InFlight, Whole!Links)
        PROVE  CurrentInv'
    BY <2>1, <2>3, CurrentStep
  <2>4. ASSUME NEW accepted, NEW excused, NEW r \in AfterJudgments(accepted, excused), Go(q, r),
               CacheOK(cache', Stored, InFlight, Whole!Links)
        PROVE  CurrentInv'
    <3>1. r.step \notin Mining
      <4>1. CASE r = At("done")
        BY <4>1 DEF At, Mining
      <4>2. CASE r = [At("clear") EXCEPT !.rows = accepted, !.torn = excused]
        <5>1. r.step = "clear"
          BY <4>2 DEF At
        <5> QED BY <5>1 DEF Mining
      <4> QED BY <2>4, <4>1, <4>2 DEF AfterJudgments
    <3> QED BY <2>3, <2>4, <3>1 DEF MinedOK
  <2>5. CASE Start(q)
    <3>1. UNCHANGED cache
      BY <2>5 DEF Start
    <3>2. CASE cache # None /\ cache.ids = Stored
      BY <2>2, <2>4, <2>5, <3>1, <3>2 DEF Start
    <3>3. CASE ~(cache # None /\ cache.ids = Stored)
      <4> DEFINE r == [At("failures") EXCEPT !.ids = Stored]
      <4>1. Go(q, r)
        BY <2>5, <3>3 DEF Start
      <4>2. r.step = "failures" /\ r.ids = Stored
        BY DEF At
      <4> HIDE DEF r
      <4>3. MinedOK(r, Stored, InFlight, Whole!Failures, Whole!Links)
        BY <4>2 DEF MinedOK
      <4> QED BY <2>2, <2>3, <3>1, <4>1, <4>3
    <3> QED BY <3>2, <3>3
  <2>6. CASE ReadFailures(q)
    <3> DEFINE r == [query[q] EXCEPT !.step = "causes", !.failures = Failures,
                                     !.todo = Failures \ causes, !.torn = HalfDone]
    <3>1. Go(q, r) /\ UNCHANGED cache /\ query[q].step = "failures"
      BY <2>6 DEF ReadFailures
    <3>2. r.step = "causes" /\ r.failures = Failures /\ r.torn = HalfDone /\ r.ids = query[q].ids
      BY <2>2 DEF Query
    <3> HIDE DEF r
    <3>3. ~HalfDone => InFlight = {} /\ Failures = Whole!Failures
      BY WholeIs DEF HalfDone
    <3>4. MinedOK(r, Stored, InFlight, Whole!Failures, Whole!Links)
      BY <2>2, <3>1, <3>2, <3>3 DEF MinedOK, Mining
    <3> QED BY <2>2, <2>3, <3>1, <3>4
  <2>7. CASE PutCause(q)
    <3> DEFINE r == [query[q] EXCEPT !.step = "edges"]
    <3>1. Go(q, r) /\ UNCHANGED cache /\ query[q].step = "causes"
      BY <2>7 DEF PutCause
    <3>2. r.step = "edges" /\ r.failures = query[q].failures /\ r.torn = query[q].torn
          /\ r.ids = query[q].ids
      BY <2>2 DEF Query
    <3> HIDE DEF r
    <3>3. MinedOK(r, Stored, InFlight, Whole!Failures, Whole!Links)
      BY <2>2, <3>1, <3>2 DEF MinedOK, Mining
    <3> QED BY <2>2, <2>3, <3>1, <3>3
  <2>8. CASE PutEdges(q)
    <3> DEFINE r == [query[q] EXCEPT !.step = "causes", !.todo = @ \ {Asked(q)}]
    <3>1. Go(q, r) /\ UNCHANGED cache /\ query[q].step = "edges"
      BY <2>8 DEF PutEdges
    <3>2. r.step = "causes" /\ r.failures = query[q].failures /\ r.torn = query[q].torn
          /\ r.ids = query[q].ids
      BY <2>2 DEF Query
    <3> HIDE DEF r
    <3>3. MinedOK(r, Stored, InFlight, Whole!Failures, Whole!Links)
      BY <2>2, <3>1, <3>2 DEF MinedOK, Mining
    <3> QED BY <2>2, <2>3, <3>1, <3>3
  <2>9. CASE ReadLinks(q)
    <3> DEFINE links == {fs \in query[q].failures \X Successes : PrimaryRule(fs[1], fs[2]) # None}
               r == [query[q] EXCEPT !.step = "judge", !.rows = links, !.torn = @ \/ HalfDone]
    <3>1. Go(q, r) /\ UNCHANGED cache /\ query[q].step = "causes"
      BY <2>9 DEF ReadLinks
    <3>2. ~HalfDone /\ query[q].failures = Whole!Failures => InFlight = {} /\ links = Whole!Links
      <4>1. ~HalfDone => InFlight = {} /\ Failures = Whole!Failures /\ Links = Whole!Links
        BY WholeIs DEF HalfDone
      <4> QED BY <4>1 DEF Links
    <3> HIDE DEF links
    <3>3. r.step = "judge" /\ r.rows = links /\ (~r.torn => ~query[q].torn /\ ~HalfDone)
          /\ r.ids = query[q].ids
      BY <2>2 DEF Query, HalfDone
    <3> HIDE DEF r
    <3>4. MinedOK(r, Stored, InFlight, Whole!Failures, Whole!Links)
      BY <2>2, <3>1, <3>2, <3>3 DEF MinedOK, Mining
    <3> QED BY <2>2, <2>3, <3>1, <3>4
  <2>10. CASE Judged(q)
    <3> DEFINE r == [query[q] EXCEPT !.step = "put", !.failures = {}]
    <3>1. Go(q, r) /\ UNCHANGED cache /\ query[q].step = "judge"
      BY <2>10 DEF Judged
    <3>2. r.step = "put" /\ r.rows = query[q].rows /\ r.torn = query[q].torn
          /\ r.ids = query[q].ids
      BY <2>2 DEF Query
    <3> HIDE DEF r
    <3>3. MinedOK(r, Stored, InFlight, Whole!Failures, Whole!Links)
      BY <2>2, <3>1, <3>2 DEF MinedOK, Mining
    <3> QED BY <2>2, <2>3, <3>1, <3>3
  <2>11. CASE JudgeFailed(q)
    BY <2>2, <2>4, <2>11 DEF JudgeFailed
  <2>12. CASE JudgeRaises(q) \/ FillIndex(q)
    <3>1. Go(q, At("done")) /\ UNCHANGED cache
      BY <2>12 DEF JudgeRaises, FillIndex
    <3>2. At("done").step \notin Mining
      BY DEF At, Mining
    <3> QED BY <2>2, <2>3, <3>1, <3>2 DEF MinedOK
  <2>13. CASE PutJudgments(q)
    <3> DEFINE c == [ids |-> query[q].ids, rows |-> query[q].rows, torn |-> query[q].torn]
    <3>1. query[q].step = "put" /\ cache' = c
          /\ \E r \in AfterJudgments(query[q].rows, query[q].torn) : Go(q, r)
      BY <2>13 DEF PutJudgments
    <3>2. CacheOK(c, Stored, InFlight, Whole!Links)
      BY <2>2, <3>1 DEF MinedOK, Mining, CacheOK
    <3> HIDE DEF c
    <3> QED BY <2>4, <3>1, <3>2
  <2>14. CASE ClearIndex(q)
    <3> DEFINE r == [query[q] EXCEPT !.step = "fill"]
    <3>1. Go(q, r) /\ UNCHANGED cache
      BY <2>14 DEF ClearIndex
    <3>2. r.step \notin Mining
      BY <2>2 DEF Query, Mining
    <3> HIDE DEF r
    <3> QED BY <2>2, <2>3, <3>1, <3>2 DEF MinedOK
  <2> QED BY <1>6, <2>5, <2>6, <2>7, <2>8, <2>9, <2>10, <2>11, <2>12, <2>13, <2>14
          DEF JudgmentStep
<1> QED BY <1>3, <1>4, <1>5, <1>6, JudgesOrNot DEF OtherSteps

LEMMA CurrentInvariant == OneClientPerBranch => (Spec => [](JudgingInv /\ CurrentInv))
<1> SUFFICES ASSUME OneClientPerBranch PROVE Spec => [](JudgingInv /\ CurrentInv)
  OBVIOUS
<1>1. Init => OwnedInv /\ CurrentInv
  <2> SUFFICES ASSUME Init PROVE OwnedInv /\ CurrentInv
    OBVIOUS
  <2>1. cache = None /\ \A q \in Queries : query[q].step \notin Mining
    BY DEF Init, LearnInit, At, Mining
  <2> QED BY <2>1, OwnedInit DEF Init, CurrentInv, CacheOK, MinedOK
<1>2. LearnedInv /\ OwnedInv /\ CurrentInv /\ [Next]_vars => OwnedInv' /\ CurrentInv'
  BY OwnedKept, CurrentNext DEF JudgingInv, LearnedInv
<1>3. Spec => []LearnedInv
  BY LearnedInvariant DEF LearnedInv
<1> QED BY <1>1, <1>2, <1>3, PTL DEF Spec, JudgingInv

\* With one client per branch, the kept view of judgments that a query would be
\* answered with has all links of the history and no others, however many queries
\* put it, whatever call fails and however the history grows meanwhile, with whatever
\* parents, unless it was mined while another thread's write was half done
\* (semantic_repair_judgments).
THEOREM JudgmentsAreCurrent == OneClientPerBranch => (Spec => []JudgmentsCurrent)
<1> SUFFICES ASSUME OneClientPerBranch PROVE Spec => []JudgmentsCurrent
  OBVIOUS
<1>1. CurrentInv => JudgmentsCurrent
  BY DEF CurrentInv, CacheOK, JudgmentsCurrent
<1>2. Spec => [](JudgingInv /\ CurrentInv)
  BY CurrentInvariant
<1> QED BY <1>1, <1>2, PTL

-----------------------------------------------------------------------------
(***************************************************************************)
(* The skills.  What was learned, and has been a link ever since, is among *)
(* the rows of a view that is not torn; so a query that is alone finds it  *)
(* again in the view, or else in the history.                              *)
(***************************************************************************)

\* learnt: what was learned and has been a link since; c: the view.
LearningOK(r, learnt, c) ==
  ~r.torn =>
    /\ r.step \in {"causes", "edges"} => \A fs \in learnt : fs[1] \in r.failures
    /\ r.step \in {"judge", "put", "clear", "fill"} => learnt \subseteq r.rows
    /\ r.step \in {"clear", "fill"} => ~c.torn /\ c.rows = r.rows

SkillsInv ==
  /\ overlap => kept = {}
  /\ kept \subseteq Whole!Links
  /\ SkillsKept
  /\ ~overlap => /\ cache # None /\ ~cache.torn => kept \subseteq cache.rows
                 /\ \A q \in Queries : LearningOK(query[q], kept, cache)

\* Everything that is known of the queries.
QueriesInv == LearnedInv /\ CausesInv

\* A step of q to r that teaches nothing and deletes nothing.
LEMMA SkillsStep ==
  ASSUME QueriesInv, SkillsInv, Still, NEW q \in Queries, NEW r, Go(q, r),
         UNCHANGED <<cache, index, overlap, kept>>, query[q].step # "fill",
         ~overlap => LearningOK(r, kept, cache)
  PROVE  SkillsInv'
<1>1. \A p \in Queries : query'[p] = IF p = q THEN r ELSE query[p]
  BY DEF Go, QueriesInv, LearnedInv, LearnedTypeOK
<1>2. Whole!Links' = Whole!Links /\ Whole!Failures' = Whole!Failures
  BY WholeStill DEF Still
<1>3. SkillsKept'
  BY <1>1 DEF SkillsInv, SkillsKept
<1> QED BY <1>1, <1>2, <1>3 DEF SkillsInv

LEMMA SkillsJudgment ==
  ASSUME QueriesInv, SkillsInv, NEW q \in Queries, JudgmentStep(q)
  PROVE  SkillsInv'
<1>0. Still
  BY DEF JudgmentStep, Start, ReadFailures, PutCause, PutEdges, ReadLinks, Judged,
         JudgeFailed, JudgeRaises, PutJudgments, ClearIndex, FillIndex, history, Still
<1>1. /\ query[q] \in Query /\ \A p \in Queries : query[p] \in Query
      /\ query \in [Queries -> Query]
      /\ Whole!Links' = Whole!Links /\ Whole!Failures' = Whole!Failures
      /\ ~overlap => LearningOK(query[q], kept, cache)
  BY <1>0, WholeStill DEF QueriesInv, LearnedInv, LearnedTypeOK, SkillsInv, Still
<1>2. ASSUME NEW accepted, NEW excused, NEW r \in AfterJudgments(accepted, excused)
      PROVE  /\ r.step \in {"done", "clear"}
             /\ r.step = "clear" => r.rows = accepted /\ r.torn = excused
  <2>1. CASE r = At("done")
    BY <2>1 DEF At
  <2>2. CASE r = [At("clear") EXCEPT !.rows = accepted, !.torn = excused]
    BY <2>2 DEF At
  <2> QED BY <1>2, <2>1, <2>2 DEF AfterJudgments
<1>3. CASE Start(q)
  <2>1. UNCHANGED <<cache, index>> /\ query[q].step = "new"
    BY <1>3 DEF Start
  <2>2. CASE overlap'
    <3>1. kept' = {}
      BY <1>3, <2>2 DEF Start
    <3> QED BY <2>2, <3>1 DEF SkillsInv, SkillsKept
  <2>3. CASE ~overlap'
    <3>1. kept' = kept /\ ~overlap /\ overlap' = overlap
      BY <1>3, <2>3 DEF Start, QueriesInv, LearnedInv, LearnedTypeOK
    <3>2. CASE cache # None /\ cache.ids = Stored
      <4>1. PICK r \in AfterJudgments(cache.rows, cache.torn) : Go(q, r)
        BY <1>3, <3>2 DEF Start
      <4>2. LearningOK(r, kept, cache)
        BY <1>2, <3>1, <3>2, <4>1 DEF SkillsInv, LearningOK
      <4> QED BY <1>0, <2>1, <3>1, <4>1, <4>2, SkillsStep
    <3>3. CASE ~(cache # None /\ cache.ids = Stored)
      <4> DEFINE r == [At("failures") EXCEPT !.ids = Stored]
      <4>1. Go(q, r)
        BY <1>3, <3>3 DEF Start
      <4>2. r.step = "failures"
        BY DEF At
      <4> HIDE DEF r
      <4>3. LearningOK(r, kept, cache)
        BY <4>2 DEF LearningOK
      <4> QED BY <1>0, <2>1, <3>1, <4>1, <4>3, SkillsStep
    <3> QED BY <3>2, <3>3
  <2> QED BY <2>2, <2>3
<1>4. CASE ReadFailures(q)
  <2> DEFINE r == [query[q] EXCEPT !.step = "causes", !.failures = Failures,
                                   !.todo = Failures \ causes, !.torn = HalfDone]
  <2>1. Go(q, r) /\ UNCHANGED <<cache, index, overlap, kept>> /\ query[q].step = "failures"
    BY <1>4 DEF ReadFailures
  <2>2. r.step = "causes" /\ r.failures = Failures /\ r.torn = HalfDone
    BY <1>1 DEF Query
  <2> HIDE DEF r
  <2>3. ~HalfDone => Failures = Whole!Failures /\ \A fs \in Whole!Links : fs[1] \in Failures
    BY WholeIs DEF HalfDone, Links
  <2>4. LearningOK(r, kept, cache)
    BY <2>2, <2>3 DEF SkillsInv, LearningOK
  <2> QED BY <1>0, <2>1, <2>4, SkillsStep
<1>5. CASE PutCause(q)
  <2> DEFINE r == [query[q] EXCEPT !.step = "edges"]
  <2>1. Go(q, r) /\ UNCHANGED <<cache, index, overlap, kept>> /\ query[q].step = "causes"
    BY <1>5 DEF PutCause
  <2>2. r.step = "edges" /\ r.failures = query[q].failures /\ r.torn = query[q].torn
    BY <1>1 DEF Query
  <2> HIDE DEF r
  <2>3. ~overlap => LearningOK(r, kept, cache)
    BY <1>1, <2>1, <2>2 DEF LearningOK
  <2> QED BY <1>0, <2>1, <2>3, SkillsStep
<1>6. CASE PutEdges(q)
  <2> DEFINE r == [query[q] EXCEPT !.step = "causes", !.todo = @ \ {Asked(q)}]
  <2>1. Go(q, r) /\ UNCHANGED <<cache, index, overlap, kept>> /\ query[q].step = "edges"
    BY <1>6 DEF PutEdges
  <2>2. r.step = "causes" /\ r.failures = query[q].failures /\ r.torn = query[q].torn
    BY <1>1 DEF Query
  <2> HIDE DEF r
  <2>3. ~overlap => LearningOK(r, kept, cache)
    BY <1>1, <2>1, <2>2 DEF LearningOK
  <2> QED BY <1>0, <2>1, <2>3, SkillsStep
<1>7. CASE ReadLinks(q)
  <2> DEFINE links == {fs \in query[q].failures \X Successes : PrimaryRule(fs[1], fs[2]) # None}
             r == [query[q] EXCEPT !.step = "judge", !.rows = links, !.torn = @ \/ HalfDone]
  <2>1. Go(q, r) /\ UNCHANGED <<cache, index, overlap, kept>> /\ query[q].step = "causes"
    BY <1>7 DEF ReadLinks
  <2>2. ASSUME ~overlap, ~query[q].torn, ~HalfDone
        PROVE  kept \subseteq links
    <3>1. Links = Whole!Links
      BY <2>2, WholeIs DEF HalfDone
    <3>2. \A fs \in kept : fs[1] \in query[q].failures
      BY <1>1, <2>1, <2>2 DEF LearningOK
    <3>3. kept \subseteq Links
      BY <3>1 DEF SkillsInv
    <3> QED BY <3>2, <3>3 DEF Links
  <2> HIDE DEF links
  <2>3. r.step = "judge" /\ r.rows = links /\ (~r.torn => ~query[q].torn /\ ~HalfDone)
    BY <1>1 DEF Query, HalfDone
  <2> HIDE DEF r
  <2>4. ~overlap => LearningOK(r, kept, cache)
    BY <2>2, <2>3 DEF LearningOK
  <2> QED BY <1>0, <2>1, <2>4, SkillsStep
<1>8. CASE Judged(q)
  <2> DEFINE r == [query[q] EXCEPT !.step = "put", !.failures = {}]
  <2>1. Go(q, r) /\ UNCHANGED <<cache, index, overlap, kept>> /\ query[q].step = "judge"
    BY <1>8 DEF Judged
  <2>2. r.step = "put" /\ r.rows = query[q].rows /\ r.torn = query[q].torn
    BY <1>1 DEF Query
  <2> HIDE DEF r
  <2>3. ~overlap => LearningOK(r, kept, cache)
    BY <1>1, <2>1, <2>2 DEF LearningOK
  <2> QED BY <1>0, <2>1, <2>3, SkillsStep
<1>9. CASE JudgeFailed(q)
  <2>0. PICK accepted : \E r \in AfterJudgments(accepted, TRUE) : Go(q, r)
    BY <1>9 DEF JudgeFailed
  <2>1. PICK r \in AfterJudgments(accepted, TRUE) : Go(q, r)
    BY <2>0
  <2>2. UNCHANGED <<cache, index, overlap, kept>> /\ query[q].step = "judge"
    BY <1>9 DEF JudgeFailed
  <2>3. LearningOK(r, kept, cache)
    BY <1>2, <2>1 DEF LearningOK
  <2> QED BY <1>0, <2>1, <2>2, <2>3, SkillsStep
<1>10. CASE JudgeRaises(q)
  <2>1. Go(q, At("done")) /\ UNCHANGED <<cache, index, overlap, kept>> /\ query[q].step # "fill"
    BY <1>10 DEF JudgeRaises
  <2>2. LearningOK(At("done"), kept, cache)
    BY DEF LearningOK, At
  <2> QED BY <1>0, <2>1, <2>2, SkillsStep
<1>11. CASE PutJudgments(q)
  <2>1. PICK r \in AfterJudgments(query[q].rows, query[q].torn) : Go(q, r)
    BY <1>11 DEF PutJudgments
  <2>2. /\ UNCHANGED <<index, overlap, kept>> /\ query[q].step = "put"
        /\ cache' = [ids |-> query[q].ids, rows |-> query[q].rows, torn |-> query[q].torn]
    BY <1>11 DEF PutJudgments
  <2>3. cache'.rows = query[q].rows /\ cache'.torn = query[q].torn
    BY <2>2
  <2>4. \A p \in Queries : query'[p] = IF p = q THEN r ELSE query[p]
    BY <1>1, <2>1 DEF Go
  <2>5. ~overlap => /\ LearningOK(r, kept, cache')
                    /\ ~cache'.torn => kept \subseteq cache'.rows
    BY <1>1, <1>2, <2>2, <2>3 DEF LearningOK
  <2>6. ASSUME ~overlap, NEW p \in Queries, p # q
        PROVE  LearningOK(query[p], kept, cache')
    <3>1. ~Active(p)
      BY <2>2, <2>6 DEF QueriesInv, CausesInv, Active
    <3> QED BY <3>1 DEF Active, LearningOK
  <2>7. SkillsKept'
    BY <2>2, <2>4 DEF SkillsInv, SkillsKept
  <2> QED BY <1>1, <2>2, <2>4, <2>5, <2>6, <2>7 DEF SkillsInv
<1>12. CASE ClearIndex(q)
  <2> DEFINE r == [query[q] EXCEPT !.step = "fill"]
  <2>1. Go(q, r) /\ UNCHANGED <<cache, overlap, kept>> /\ query[q].step = "clear"
    BY <1>12 DEF ClearIndex
  <2>2. r.step = "fill" /\ r.rows = query[q].rows /\ r.torn = query[q].torn
    BY <1>1 DEF Query
  <2> HIDE DEF r
  <2>3. ~overlap => LearningOK(r, kept, cache)
    BY <1>1, <2>1, <2>2 DEF LearningOK
  <2>4. \A p \in Queries : query'[p] = IF p = q THEN r ELSE query[p]
    BY <1>1, <2>1 DEF Go
  <2>5. SkillsKept'
    BY <2>2, <2>4 DEF SkillsKept
  <2> QED BY <1>1, <2>1, <2>3, <2>4, <2>5 DEF SkillsInv
<1>13. CASE FillIndex(q)
  <2>1. /\ query[q].step = "fill" /\ index' = index \cup query[q].rows
        /\ kept' = IF overlap \/ query[q].torn THEN {}
                   ELSE (kept \cup query[q].rows) \cap Whole!Links
        /\ UNCHANGED <<cache, overlap>> /\ Go(q, At("done"))
    BY <1>13 DEF FillIndex
  <2>2. \A p \in Queries : query'[p] = IF p = q THEN At("done") ELSE query[p]
    BY <1>1, <2>1 DEF Go
  <2>3. ~overlap /\ ~query[q].torn =>
          kept \subseteq query[q].rows /\ cache.rows = query[q].rows
    BY <1>1, <2>1 DEF LearningOK
  <2>4. /\ kept' \subseteq index' /\ kept' \subseteq Whole!Links /\ (overlap => kept' = {})
        /\ cache # None /\ ~overlap => kept' \subseteq cache.rows
    BY <2>1, <2>3
  <2>5. ASSUME ~overlap, NEW p \in Queries, p # q
        PROVE  LearningOK(query[p], kept', cache)
    <3>1. ~Active(p)
      BY <2>1, <2>5 DEF QueriesInv, CausesInv, Active
    <3> QED BY <3>1 DEF Active, LearningOK
  <2>6. LearningOK(At("done"), kept', cache)
    BY DEF LearningOK, At
  <2> QED BY <1>1, <2>1, <2>2, <2>4, <2>5, <2>6 DEF SkillsInv, SkillsKept
<1> QED BY <1>3, <1>4, <1>5, <1>6, <1>7, <1>8, <1>9, <1>10, <1>11, <1>12, <1>13
        DEF JudgmentStep

LEMMA SkillsNext ==
  ASSUME QueriesInv, SkillsInv, [Next]_vars
  PROVE  SkillsInv'
<1>1. ASSUME UNCHANGED <<cache, index, query, overlap>>, kept' \subseteq kept,
             kept' \subseteq Whole!Links'
      PROVE  SkillsInv'
  <2>1. ~overlap => \A q \in Queries : LearningOK(query[q], kept', cache)
    BY <1>1 DEF SkillsInv, LearningOK
  <2> QED BY <1>1, <2>1 DEF SkillsInv, SkillsKept
<1>2. CASE Grow
  BY <1>1, <1>2 DEF Grow
<1>3. CASE UNCHANGED learned
  <2>1. CASE Still
    <3>1. Whole!Links' = Whole!Links
      BY <2>1, WholeStill DEF Still
    <3> QED BY <1>1, <1>3, <3>1 DEF learned, SkillsInv
  <2> QED BY <1>2, <2>1, GrowsOrStill
<1>4. ASSUME NEW q \in Queries, NEW b \in Created, ReadEvents(q, b)
      PROVE  SkillsInv'
  <2>1. /\ Go(q, At("context")) /\ UNCHANGED <<cache, index, overlap, kept>>
        /\ query[q].step # "fill" /\ Still
    BY <1>4 DEF ReadEvents, Go, history, Still
  <2>2. LearningOK(At("context"), kept, cache)
    BY DEF LearningOK, At
  <2> QED BY <2>1, <2>2, SkillsStep
<1> QED BY <1>2, <1>3, <1>4, SkillsJudgment, JudgesOrNot DEF OtherSteps

\* As long as queries run one after the other, no call to the LLM fails and no view is
\* mined while a write is half done, a link that was learned as a skill and has been a
\* link ever since can be searched, whoever writes the branches with whatever parents,
\* though every query deletes all skills before it inserts its own
\* (_vector_learned_skills).
THEOREM SkillsAreKept == Spec => []SkillsKept
<1>1. Init => SkillsInv
  <2> SUFFICES ASSUME Init PROVE SkillsInv
    OBVIOUS
  <2>1. kept = {} /\ cache = None /\ \A q \in Queries : query[q].step = "new"
    BY DEF Init, LearnInit, At
  <2> QED BY <2>1 DEF SkillsInv, SkillsKept, LearningOK
<1>2. QueriesInv /\ SkillsInv /\ [Next]_vars => SkillsInv'
  BY SkillsNext
<1>3. CausesInv /\ [Next]_vars => CausesInv'
  BY CausesInvNext
<1>4. SkillsInv => SkillsKept
  BY DEF SkillsInv
<1>5. Spec => []LearnedInv
  BY LearnedInvariant DEF LearnedInv
<1> QED BY <1>1, <1>2, <1>3, <1>4, <1>5, CausesInvInit, PTL DEF Spec, QueriesInv
=============================================================================
