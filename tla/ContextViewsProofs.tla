------------------------- MODULE ContextViewsProofs -------------------------
(***************************************************************************)
(* Proofs about ContextViews, for every set of branches and of queries and *)
(* every bound.                                                            *)
(*                                                                         *)
(* The invariants of digests and of the budget say nothing of the history: *)
(* they are kept by any that grows beside the queries.  That a context is  *)
(* complete rests on the history's own invariants, and on counting.        *)
(***************************************************************************)
EXTENDS JudgmentCacheProofs, FiniteSetTheorems

-----------------------------------------------------------------------------
(* Digests. *)

IsDigest(d) == d = [ids |-> d.ids, covered |-> d.covered, ready |-> d.ready]

Covers(d) == IsDigest(d) /\ d.ready \in BOOLEAN /\ (d.ready => d.covered = d.ids)

ContextFields == {"step", "branch", "events", "recent", "moved", "digest"}

IsContext(c) == c = [field \in ContextFields |-> c[field]]

\* Whatever digest a query holds covers its events, not only one it shows: that is
\* what lets a digest be put later than it was read.
DigestInv ==
  /\ DOMAIN summary = Branches
  /\ \A b \in Branches : summary[b] # None => Covers(summary[b])
  /\ context = [q \in Queries |-> context[q]]
  /\ \A q \in Queries :
       IsContext(context[q]) /\ context[q].branch \in Branches /\ Covers(context[q].digest)

\* A digest that extends a kept one covers all it is of, for the kept one is of a
\* part of it.
LEMMA ExtendedCovers ==
  ASSUME NEW old, NEW S, old # None => Covers(old)
  PROVE  LET base == Extended(old, S) IN base.covered \cup (S \ base.ids) = S
<1>1. CASE old # None /\ old.ready /\ ProperPrefix(old.ids, S)
  <2>1. Extended(old, S) = old
    BY <1>1 DEF Extended
  <2>2. old.covered = old.ids /\ old.ids \subseteq S
    BY <1>1 DEF Covers, ProperPrefix
  <2> QED BY <2>1, <2>2
<1>2. CASE ~(old # None /\ old.ready /\ ProperPrefix(old.ids, S))
  <2>1. Extended(old, S) = NoDigest
    BY <1>2 DEF Extended
  <2> QED BY <2>1 DEF NoDigest
<1> QED BY <1>1, <1>2

\* A digest the LLM did not give is not shown as ready.
LEMMA DigestedCovers ==
  ASSUME NEW d, Covers(d), NEW ending
  PROVE  Covers(Digested(d, ending))
BY DEF Covers, IsDigest, Digested

\* A step that changes the context of one query to c.
LEMMA AssembleKeeps ==
  ASSUME DigestInv, NEW q \in Queries, NEW c, Assemble(q, c), UNCHANGED summary,
         IsContext(c), c.branch \in Branches, Covers(c.digest)
  PROVE  DigestInv'
<1>1. context' = [context EXCEPT ![q] = c]
  BY DEF Assemble
<1>2. \A p \in Queries : context'[p] = IF p = q THEN c ELSE context[p]
  BY <1>1 DEF DigestInv
<1>3. context' = [p \in Queries |-> context'[p]]
  BY <1>1 DEF DigestInv
<1>4. \A p \in Queries :
        IsContext(context'[p]) /\ context'[p].branch \in Branches /\ Covers(context'[p].digest)
  BY <1>2 DEF DigestInv
<1> QED BY <1>3, <1>4 DEF DigestInv

LEMMA NoContextCovers ==
  /\ IsContext(NoContext) /\ NoContext.branch \in Branches
  /\ Covers(NoContext.digest)
BY LinkConstants DEF NoContext, IsContext, ContextFields, Covers, IsDigest, NoDigest

LEMMA DigestInvInit == Init => DigestInv
BY NoContextCovers DEF Init, DigestInv

LEMMA DigestInvNext ==
  ASSUME DigestInv, Next
  PROVE  DigestInv'
<1>1. ASSUME UNCHANGED <<summary, context>>
      PROVE  DigestInv'
  BY <1>1 DEF DigestInv
<1>2. ASSUME NEW q \in Queries, NEW b \in Created, ReadEvents(q, b)
      PROVE  DigestInv'
  <2> DEFINE c == [NoContext EXCEPT !.step = "events", !.branch = b, !.events = Visible(b)]
  <2>1. Assemble(q, c) /\ UNCHANGED summary
    BY <1>2 DEF ReadEvents
  <2>2. IsContext(c) /\ c.branch \in Branches /\ c.digest = NoDigest
    <3>1. NoContext.digest = NoDigest
      BY DEF NoContext
    <3> QED BY <3>1, NoContextCovers DEF IsContext, ContextFields, Created
  <2>3. Covers(NoDigest)
    BY DEF Covers, IsDigest, NoDigest
  <2> QED BY <2>1, <2>2, <2>3, AssembleKeeps
<1>3. ASSUME NEW q \in Queries, ReadLatest(q)
      PROVE  DigestInv'
  <2>1. PICK recent, moved :
          Assemble(q, [context[q] EXCEPT !.step = "digest", !.recent = recent, !.moved = moved])
    BY <1>3 DEF ReadLatest
  <2> DEFINE c == [context[q] EXCEPT !.step = "digest", !.recent = recent, !.moved = moved]
  <2>2. IsContext(c) /\ c.branch = context[q].branch /\ c.digest = context[q].digest
    BY DEF DigestInv, IsContext, ContextFields
  <2>3. c.branch \in Branches /\ Covers(c.digest)
    BY <2>2 DEF DigestInv
  <2>4. UNCHANGED summary
    BY <1>3 DEF ReadLatest
  <2> HIDE DEF c
  <2> QED BY <2>1, <2>2, <2>3, <2>4, AssembleKeeps DEF c
<1>4. ASSUME NEW q \in Queries, NEW refresh \in BOOLEAN, ReadDigest(q, refresh)
      PROVE  DigestInv'
  <2> DEFINE c    == context[q]
             S    == Earlier(c.events)
             old  == summary[c.branch]
             base == Extended(old, S)
             asked == [ids |-> S, covered |-> base.covered \cup (S \ base.ids), ready |-> TRUE]
  <2>1. /\ UNCHANGED summary
        /\ \/ Assemble(q, [c EXCEPT !.step = "full"])
           \/ old # None /\ Assemble(q, [c EXCEPT !.step = "full", !.digest = old])
           \/ Assemble(q, [c EXCEPT !.step = "ask", !.digest = asked])
    BY <1>4 DEF ReadDigest
  <2>2. IsContext(c) /\ c.branch \in Branches /\ Covers(c.digest)
    BY DEF DigestInv
  <2>3. old # None => Covers(old)
    BY <2>2 DEF DigestInv
  <2>4. Covers(asked)
    <3>1. base.covered \cup (S \ base.ids) = S
      BY <2>3, ExtendedCovers
    <3> HIDE DEF base, S
    <3> QED BY <3>1 DEF Covers, IsDigest
  <2> HIDE DEF c, S, old, base, asked
  <2>5. ASSUME NEW d, Covers(d), NEW step, Assemble(q, [c EXCEPT !.step = step, !.digest = d])
        PROVE  DigestInv'
    <3> DEFINE c2 == [c EXCEPT !.step = step, !.digest = d]
    <3>1. IsContext(c2) /\ c2.branch = c.branch /\ c2.digest = d
      BY <2>2 DEF IsContext, ContextFields
    <3> QED BY <2>1, <2>2, <2>5, <3>1, AssembleKeeps
  <2>6. CASE Assemble(q, [c EXCEPT !.step = "full"])
    <3> DEFINE c2 == [c EXCEPT !.step = "full"]
    <3>1. IsContext(c2) /\ c2.branch = c.branch /\ c2.digest = c.digest
      BY <2>2 DEF IsContext, ContextFields
    <3> QED BY <2>1, <2>2, <2>6, <3>1, AssembleKeeps
  <2> QED BY <2>1, <2>3, <2>4, <2>5, <2>6
<1>5. ASSUME NEW q \in Queries, PutDigest(q)
      PROVE  DigestInv'
  <2> DEFINE c == context[q]
  <2>1. PICK ending : /\ summary' = [summary EXCEPT ![c.branch] = Digested(c.digest, ending)]
                      /\ Assemble(q, [c EXCEPT !.step = "full",
                                               !.digest = Digested(c.digest, ending)])
    BY <1>5 DEF PutDigest
  <2> DEFINE d  == Digested(c.digest, ending)
             c2 == [c EXCEPT !.step = "full", !.digest = d]
  <2>2. IsContext(c) /\ c.branch \in Branches /\ Covers(c.digest)
    BY DEF DigestInv
  <2>3. Covers(d)
    BY <2>2, DigestedCovers
  <2> HIDE DEF d
  <2>4. IsContext(c2) /\ c2.branch = c.branch /\ c2.digest = d
    BY <2>2 DEF IsContext, ContextFields
  <2>5. context' = [context EXCEPT ![q] = c2] /\ summary' = [summary EXCEPT ![c.branch] = d]
    BY <2>1 DEF Assemble, d
  <2> HIDE DEF c2
  <2>6. \A b \in Branches : summary'[b] # None => Covers(summary'[b])
    BY <2>3, <2>5 DEF DigestInv
  <2>7. \A p \in Queries : context'[p] = IF p = q THEN c2 ELSE context[p]
    BY <2>5 DEF DigestInv
  <2>8. \A p \in Queries :
          IsContext(context'[p]) /\ context'[p].branch \in Branches /\ Covers(context'[p].digest)
    BY <2>2, <2>3, <2>4, <2>7 DEF DigestInv
  <2>9. DOMAIN summary' = Branches /\ context' = [p \in Queries |-> context'[p]]
    BY <2>5 DEF DigestInv
  <2> QED BY <2>6, <2>8, <2>9 DEF DigestInv
<1>6. ASSUME NEW q \in Queries, DigestRaises(q) \/ Pack(q) \/ Answer(q)
      PROVE  DigestInv'
  <2>1. PICK step : Assemble(q, [NoContext EXCEPT !.step = step]) /\ UNCHANGED summary
    BY <1>6 DEF DigestRaises, Pack, Answer
  <2> DEFINE c == [NoContext EXCEPT !.step = step]
  <2>2. IsContext(c) /\ c.branch = NoContext.branch /\ c.digest = NoContext.digest
    BY NoContextCovers DEF IsContext, ContextFields
  <2> QED BY <2>1, <2>2, NoContextCovers, AssembleKeeps
<1>7. ASSUME NEW q \in Queries, PackNext(q)
      PROVE  UNCHANGED <<summary, context>>
  BY <1>7 DEF PackNext
<1> QED BY <1>1, <1>2, <1>3, <1>4, <1>5, <1>6, <1>7 DEF Next, views

\* A digest that is shown as ready covers the events it is said to be of, whatever
\* the kept digest it extends and whoever has put it (_semantic_summary).
THEOREM DigestsCover == Spec => []DigestCovers
<1>1. DigestInv /\ UNCHANGED vars => DigestInv'
  BY DEF DigestInv, vars, views
<1>2. DigestInv => DigestCovers
  BY DEF DigestInv, DigestCovers, Covers
<1> QED BY <1>1, <1>2, DigestInvInit, DigestInvNext, PTL DEF Spec

-----------------------------------------------------------------------------
(* The budget. *)

\* What is packed and what remains make up the budget.
Fits(p) ==
  /\ p = [next |-> p.next, loaded |-> p.loaded, remaining |-> p.remaining]
  /\ p.next \in 1..(Segments + 1) /\ p.loaded \in Nat /\ p.remaining \in Nat
  /\ p.loaded + p.remaining = Budget
  /\ p.next > 1 => p.loaded > 0

BudgetInv ==
  /\ DOMAIN packing = Queries
  /\ \A q \in Queries : context[q].step = "pack" \/ packing[q] # None => Fits(packing[q])

LEMMA NothingPackedFits == Fits(NothingPacked)
BY ContextConstants DEF Fits, NothingPacked, Segments

\* The first segment costs something, and nothing is packed beyond what remains.
LEMMA PackedFits ==
  ASSUME NEW p, Fits(p), p.next <= Segments, NEW cost \in Costs(p.next),
         NEW r \in Packed(p, cost)
  PROVE  Fits(r)
<1>1. PICK n \in IF cost <= p.remaining THEN {cost}
                 ELSE IF p.remaining > 0 THEN 1..p.remaining ELSE {0} :
        r = [next |-> p.next + 1, loaded |-> p.loaded + n, remaining |-> p.remaining - n]
  BY DEF Packed
<1>2. p.next \in 1..(Segments + 1) /\ p.loaded \in Nat /\ p.remaining \in Nat
      /\ p.loaded + p.remaining = Budget /\ (p.next > 1 => p.loaded > 0)
  BY DEF Fits
<1>3. cost \in Nat /\ (p.next = 1 => cost > 0)
  BY <1>2, ContextConstants DEF Costs
<1>4. n \in Nat /\ n <= p.remaining
  BY <1>2, <1>3
<1>5. p.loaded + n > 0
  <2>1. CASE p.next > 1
    BY <1>2, <1>4, <2>1
  <2>2. CASE p.next = 1
    BY <1>2, <1>3, <1>4, <2>2, ContextConstants
  <2> QED BY <1>2, <2>1, <2>2
<1>6. r.next = p.next + 1 /\ r.loaded = p.loaded + n /\ r.remaining = p.remaining - n
  BY <1>1
<1>7. r.next \in 1..(Segments + 1)
  BY <1>2, <1>6 DEF Segments
<1>8. r.loaded \in Nat /\ r.remaining \in Nat /\ r.loaded + r.remaining = Budget /\ r.loaded > 0
  BY <1>2, <1>4, <1>5, <1>6, ContextConstants
<1> QED BY <1>1, <1>6, <1>7, <1>8 DEF Fits

LEMMA BudgetInvInit == Init => BudgetInv
BY DEF Init, BudgetInv, NoContext

\* A step of a query that does not pack.
LEMMA UnpackedKeeps ==
  ASSUME DigestInv, BudgetInv, NEW q \in Queries, NEW c, Assemble(q, c), c.step # "pack",
         UNCHANGED packing \/ packing' = [packing EXCEPT ![q] = None]
  PROVE  BudgetInv'
<1>1. \A p \in Queries : context'[p] = IF p = q THEN c ELSE context[p]
  BY DEF DigestInv, Assemble
<1> QED BY <1>1 DEF BudgetInv

LEMMA BudgetInvNext ==
  ASSUME DigestInv, BudgetInv, Next
  PROVE  BudgetInv'
<1>1. ASSUME UNCHANGED <<context, packing>>
      PROVE  BudgetInv'
  BY <1>1 DEF BudgetInv
<1>2. ASSUME NEW q \in Queries, NEW b \in Created, ReadEvents(q, b)
      PROVE  BudgetInv'
  <2>1. PICK events_ :
          /\ Assemble(q, [NoContext EXCEPT !.step = "events", !.branch = b, !.events = events_])
          /\ UNCHANGED packing
    BY <1>2 DEF ReadEvents
  <2> DEFINE c == [NoContext EXCEPT !.step = "events", !.branch = b, !.events = events_]
  <2>2. c.step # "pack"
    BY NoContextCovers DEF IsContext, ContextFields
  <2> HIDE DEF c
  <2> QED BY <2>1, <2>2, UnpackedKeeps DEF c
<1>3. ASSUME NEW q \in Queries, ReadLatest(q)
      PROVE  BudgetInv'
  <2>1. PICK recent, moved :
          /\ Assemble(q, [context[q] EXCEPT !.step = "digest", !.recent = recent,
                                            !.moved = moved])
          /\ UNCHANGED packing
    BY <1>3 DEF ReadLatest
  <2> DEFINE c == [context[q] EXCEPT !.step = "digest", !.recent = recent, !.moved = moved]
  <2>2. c.step # "pack"
    BY DEF DigestInv, IsContext, ContextFields
  <2> HIDE DEF c
  <2> QED BY <2>1, <2>2, UnpackedKeeps DEF c
<1>4. ASSUME NEW q \in Queries,
             NEW step \in {"full", "ask"}, NEW d,
             \/ Assemble(q, [context[q] EXCEPT !.step = step])
             \/ Assemble(q, [context[q] EXCEPT !.step = step, !.digest = d]),
             UNCHANGED packing
      PROVE  BudgetInv'
  <2> DEFINE c1 == [context[q] EXCEPT !.step = step]
             c2 == [context[q] EXCEPT !.step = step, !.digest = d]
  <2>1. c1.step # "pack" /\ c2.step # "pack"
    BY DEF DigestInv, IsContext, ContextFields
  <2>2. Assemble(q, c1) \/ Assemble(q, c2)
    BY <1>4
  <2> HIDE DEF c1, c2
  <2> QED BY <1>4, <2>1, <2>2, UnpackedKeeps
<1>5. ASSUME NEW q \in Queries, NEW refresh \in BOOLEAN, ReadDigest(q, refresh)
      PROVE  BudgetInv'
  <2>1. PICK d : /\ UNCHANGED packing
                 /\ \/ Assemble(q, [context[q] EXCEPT !.step = "full"])
                    \/ Assemble(q, [context[q] EXCEPT !.step = "full", !.digest = d])
                    \/ Assemble(q, [context[q] EXCEPT !.step = "ask", !.digest = d])
    BY <1>5 DEF ReadDigest
  <2> QED BY <1>4, <2>1
<1>6. ASSUME NEW q \in Queries, PutDigest(q)
      PROVE  BudgetInv'
  <2>1. PICK d : /\ UNCHANGED packing
                 /\ Assemble(q, [context[q] EXCEPT !.step = "full", !.digest = d])
    BY <1>6 DEF PutDigest
  <2> QED BY <1>4, <2>1
<1>7. ASSUME NEW q \in Queries, DigestRaises(q) \/ Answer(q)
      PROVE  BudgetInv'
  <2> DEFINE c == [NoContext EXCEPT !.step = "done"]
  <2>1. /\ Assemble(q, c)
        /\ UNCHANGED packing \/ packing' = [packing EXCEPT ![q] = None]
    BY <1>7 DEF DigestRaises, Answer
  <2>2. c.step # "pack"
    BY NoContextCovers DEF IsContext, ContextFields
  <2> HIDE DEF c
  <2> QED BY <2>1, <2>2, UnpackedKeeps
<1>8. ASSUME NEW q \in Queries, Pack(q)
      PROVE  BudgetInv'
  <2>1. context' = [context EXCEPT ![q] = [NoContext EXCEPT !.step = "pack"]]
        /\ packing' = [packing EXCEPT ![q] = NothingPacked]
    BY <1>8 DEF Pack, Assemble
  <2>2. \A p \in Queries : p # q => context'[p] = context[p] /\ packing'[p] = packing[p]
    BY <2>1 DEF DigestInv, BudgetInv
  <2>3. packing'[q] = NothingPacked /\ DOMAIN packing' = Queries
    BY <2>1 DEF BudgetInv
  <2> QED BY <2>2, <2>3, NothingPackedFits DEF BudgetInv
<1>9. ASSUME NEW q \in Queries, PackNext(q)
      PROVE  BudgetInv'
  <2>1. PICK cost \in Costs(packing[q].next) : \E p \in Packed(packing[q], cost) :
          packing' = [packing EXCEPT ![q] = p]
    BY <1>9 DEF PackNext
  <2>2. PICK r \in Packed(packing[q], cost) : packing' = [packing EXCEPT ![q] = r]
    BY <2>1
  <2>3. Fits(packing[q]) /\ packing[q].next <= Segments /\ UNCHANGED context
    BY <1>9 DEF PackNext, BudgetInv
  <2>4. Fits(r)
    BY <2>3, PackedFits
  <2> QED BY <2>2, <2>3, <2>4 DEF BudgetInv
<1> QED BY <1>1, <1>2, <1>3, <1>5, <1>6, <1>7, <1>8, <1>9 DEF Next, views

\* The texts of a context never cost more than its budget, and its task is always
\* among them, whatever every text costs and however it is cut (_context_assembly).
THEOREM BudgetIsKept == Spec => []BudgetKept
<1>1. BudgetInv => BudgetKept
  BY ContextConstants DEF BudgetInv, BudgetKept, Fits
<1>2. DigestInv /\ BudgetInv /\ UNCHANGED vars => (DigestInv /\ BudgetInv)'
  BY DEF DigestInv, BudgetInv, vars, views
<1> QED BY <1>1, <1>2, DigestInvInit, DigestInvNext, BudgetInvInit, BudgetInvNext, PTL DEF Spec

-----------------------------------------------------------------------------
(* Counting the latest events. *)

\* A set of numbers up to a bound that is not empty has a largest element.
LEMMA LargestNumber ==
  ASSUME NEW n \in Nat, NEW S \in SUBSET (0..n), S # {}
  PROVE  \E x \in S : \A y \in S : y <= x
<1> DEFINE T == {m \in 0..n : \A y \in S : y <= m}
<1>1. n \in T /\ T \in SUBSET Nat
  OBVIOUS
<1>2. PICK m \in T : \A k \in T : m <= k
  BY <1>1, LeastNumber
<1>3. m \in Nat /\ \A y \in S : y \in Nat /\ y <= m
  BY <1>1, <1>2
<1>4. CASE m \in S
  BY <1>3, <1>4
<1>5. CASE m \notin S
  <2>1. \A y \in S : y <= m - 1 /\ m - 1 \in 0..n
    BY <1>2, <1>3, <1>5
  <2>2. m - 1 \in T
    BY <2>1
  <2> QED BY <1>2, <1>3, <2>2
<1> QED BY <1>4, <1>5

LEMMA IdsFinite ==
  ASSUME NEW S \in Ids PROVE IsFiniteSet(S) /\ Cardinality(S) \in 0..MaxEvents
<1>1. IsFiniteSet(1..MaxEvents) /\ Cardinality(1..MaxEvents) = MaxEvents
  BY FS_Interval, LinkConstants
<1>2. IsFiniteSet(S) /\ Cardinality(S) <= MaxEvents
  BY <1>1, FS_Subset DEF Ids, Times
<1>3. Cardinality(S) \in Nat
  BY <1>2, FS_CardinalityType
<1> QED BY <1>2, <1>3, LinkConstants

\* Of the latest events of E, at most as many are not among the latest of N as N has
\* events more: from the least of the lost ones on there are fewer than Recent in E,
\* and from the largest on at least as many in N.
LEMMA PartLost ==
  ASSUME NEW N \in Ids, NEW E \in SUBSET N
  PROVE  Cardinality(Latest(Recent, E) \ (Latest(Recent, N) \cap E)) <= Cardinality(N \ E)
<1> DEFINE D == Latest(Recent, E) \ (Latest(Recent, N) \cap E)
           After(S, x) == {y \in S : x < y}
<1>1. /\ E \in Ids /\ D \in Ids /\ (N \ E) \in Ids /\ D \subseteq E
      /\ \A x : After(E, x) \in Ids /\ After(N, x) \in Ids
  BY DEF Ids, Latest
<1>2. /\ IsFiniteSet(D) /\ Cardinality(D) \in Nat
      /\ IsFiniteSet(N \ E) /\ Cardinality(N \ E) \in Nat
      /\ \A x : /\ IsFiniteSet(After(E, x)) /\ Cardinality(After(E, x)) \in Nat
                /\ IsFiniteSet(After(N, x)) /\ Cardinality(After(N, x)) \in Nat
  <2>1. \A S \in Ids : IsFiniteSet(S) /\ Cardinality(S) \in Nat
    BY IdsFinite, FS_CardinalityType
  <2> HIDE DEF D, After
  <2> QED BY <1>1, <2>1
<1>3. \A x \in D : Cardinality(After(E, x)) < Recent /\ ~(Cardinality(After(N, x)) < Recent)
  BY DEF Latest
<1>4. D \subseteq 1..MaxEvents /\ E \subseteq 1..MaxEvents /\ N \subseteq 1..MaxEvents
  BY <1>1 DEF Ids, Times
<1> HIDE DEF D
<1>5. CASE D = {}
  BY <1>2, <1>5, FS_EmptySet DEF D
<1>6. CASE D # {}
  <2>0. D \in SUBSET Nat /\ D \in SUBSET (0..MaxEvents)
    BY <1>4, LinkConstants
  <2>1. PICK z \in D : \A y \in D : z <= y
    BY <1>6, <2>0, LeastNumber
  <2>2. PICK x \in D : \A y \in D : y <= x
    BY <1>6, <2>0, LargestNumber, LinkConstants
  <2>3. (D \ {z}) \cup After(E, x) \subseteq After(E, z)
    <3>1. ASSUME NEW y \in D \ {z} PROVE y \in After(E, z)
      BY <1>1, <1>4, <2>1
    <3>2. ASSUME NEW y \in After(E, x) PROVE y \in After(E, z)
      BY <1>4, <2>1, <2>2
    <3> QED BY <3>1, <3>2
  <2>4. (D \ {z}) \cap After(E, x) = {}
    <3>1. \A y \in D : y \in Nat /\ x \in Nat /\ ~(x < y)
      BY <2>0, <2>2
    <3> QED BY <3>1
  <2>5. After(N, x) \subseteq After(E, x) \cup (N \ E)
    OBVIOUS
  <2> DEFINE A == After(E, x)  B == After(E, z)  M == After(N, x)  L == N \ E
  <2>6. /\ IsFiniteSet(A) /\ IsFiniteSet(B) /\ IsFiniteSet(M) /\ IsFiniteSet(L)
        /\ Cardinality(A) \in Nat /\ Cardinality(B) \in Nat /\ Cardinality(M) \in Nat
        /\ Cardinality(L) \in Nat /\ Cardinality(D) \in Nat
        /\ Cardinality(B) < Recent /\ ~(Cardinality(M) < Recent)
    BY <1>2, <1>3
  <2> HIDE DEF A, B, M, L
  <2>7. IsFiniteSet(D \ {z}) /\ Cardinality(D \ {z}) = Cardinality(D) - 1
    BY <1>2, FS_RemoveElement
  <2>8. Cardinality(D) - 1 + Cardinality(A) <= Cardinality(B)
    <3>1. Cardinality((D \ {z}) \cup A)
            = Cardinality(D \ {z}) + Cardinality(A) - Cardinality((D \ {z}) \cap A)
      BY <2>6, <2>7, FS_Union
    <3>2. Cardinality((D \ {z}) \cap A) = 0
      BY <2>4, FS_EmptySet DEF A
    <3>3. (D \ {z}) \cup A \in SUBSET B
      BY <2>3 DEF A, B
    <3>4. Cardinality((D \ {z}) \cup A) <= Cardinality(B)
      BY <2>6, <3>3, FS_Subset
    <3> QED BY <2>6, <2>7, <3>1, <3>2, <3>4
  <2>9. Cardinality(M) <= Cardinality(A) + Cardinality(L)
    <3>1. /\ IsFiniteSet(A \cup L)
          /\ Cardinality(A \cup L) = Cardinality(A) + Cardinality(L) - Cardinality(A \cap L)
      BY <2>6, FS_Union
    <3>2. Cardinality(A \cap L) \in Nat
      BY <2>6, FS_Intersection, FS_CardinalityType
    <3>3. M \in SUBSET (A \cup L)
      BY <2>5 DEF A, M, L
    <3>4. Cardinality(M) <= Cardinality(A \cup L)
      BY <3>1, <3>3, FS_Subset
    <3> QED BY <2>6, <3>1, <3>2, <3>4
  <2> QED BY <2>6, <2>8, <2>9, ContextConstants DEF D, L
<1> QED BY <1>5, <1>6

\* When E has events of its own too, those can be lost as well.
LEMMA LatestLost ==
  ASSUME NEW N \in Ids, NEW E \in Ids
  PROVE  Cardinality(Latest(Recent, E) \ (Latest(Recent, N) \cap E))
           <= Cardinality((N \ E) \cup (E \ N))
<1> DEFINE both == E \cap N
           D    == Latest(Recent, both) \ (Latest(Recent, N) \cap both)
           lostE == Latest(Recent, E) \ (Latest(Recent, N) \cap E)
           G    == N \ E
           L    == E \ N
<1>1. Cardinality(D) <= Cardinality(G)
  <2>1. both \in SUBSET N /\ N \ both = N \ E
    OBVIOUS
  <2> HIDE DEF both
  <2> QED BY <2>1, PartLost
<1>2. both \in Ids /\ D \in Ids /\ lostE \in Ids /\ G \in Ids /\ L \in Ids
  BY DEF Ids, Latest
<1>3. \A S \in Ids : IsFiniteSet(S) /\ Cardinality(S) \in Nat
  BY IdsFinite, FS_CardinalityType
<1>4. lostE \subseteq D \cup L
  <2>1. ASSUME NEW x \in lostE, x \in N PROVE x \in Latest(Recent, both)
    <3> DEFINE A == {y \in E : x < y}  B == {y \in both : x < y}
    <3>1. A \in Ids /\ B \in Ids /\ B \in SUBSET A
      BY DEF Ids
    <3>2. x \in both /\ Cardinality(A) < Recent
      BY <2>1 DEF Latest
    <3> HIDE DEF A, B
    <3>3. Cardinality(B) <= Cardinality(A) /\ Cardinality(A) \in Nat /\ Cardinality(B) \in Nat
      BY <1>3, <3>1, FS_Subset
    <3>4. Cardinality(B) < Recent
      BY <3>2, <3>3, ContextConstants
    <3> QED BY <3>2, <3>4 DEF Latest, B
  <2> QED BY <2>1 DEF Latest
<1> HIDE DEF D, G, L, lostE, both
<1>5. IsFiniteSet(D) /\ IsFiniteSet(G) /\ IsFiniteSet(L)
      /\ Cardinality(D) \in Nat /\ Cardinality(G) \in Nat /\ Cardinality(L) \in Nat
  BY <1>2, <1>3
<1>6. Cardinality(lostE) <= Cardinality(D) + Cardinality(L)
  <2>1. IsFiniteSet(D \cup L)
        /\ Cardinality(D \cup L) = Cardinality(D) + Cardinality(L) - Cardinality(D \cap L)
    BY <1>5, FS_Union
  <2>2. Cardinality(D \cap L) \in Nat
    BY <1>5, FS_Intersection, FS_CardinalityType
  <2>3. lostE \in SUBSET (D \cup L)
    BY <1>4
  <2>4. Cardinality(lostE) <= Cardinality(D \cup L) /\ Cardinality(lostE) \in Nat
    BY <1>2, <1>3, <2>1, <2>3, FS_Subset
  <2> QED BY <1>5, <2>1, <2>2, <2>4
<1>7. Cardinality(G \cup L) = Cardinality(G) + Cardinality(L)
  <2>1. G \cap L = {}
    BY DEF G, L
  <2>2. Cardinality(G \cap L) = 0
    BY <2>1, FS_EmptySet
  <2>3. Cardinality(G \cup L) = Cardinality(G) + Cardinality(L) - Cardinality(G \cap L)
    BY <1>5, FS_Union
  <2> QED BY <1>5, <2>2, <2>3
<1>8. Cardinality(lostE) \in Nat
  BY <1>2, <1>3
<1> QED BY <1>1, <1>5, <1>6, <1>7, <1>8 DEF lostE, G, L

-----------------------------------------------------------------------------
(***************************************************************************)
(* What a query reads.  The second reading misses of the latest events of  *)
(* the first at most as many as came to the branch, or left it, in         *)
(* between; and a digest that is ready is of the events before the latest  *)
(* ones of the first reading.                                              *)
(***************************************************************************)

ViewTypes ==
  /\ summary \in [Branches -> Digest \cup {None}]
  /\ context \in [Queries -> Context]
  /\ packing \in [Queries -> Packing \cup {None}]
  /\ \A q \in Queries : context[q].step # "none" <=> query[q].step = "context"

ReadOK(c, created) ==
  /\ c.step = "events" => c.branch \in created
  /\ c.step \in {"events", "digest"} => c.digest = NoDigest
  /\ c.step \in {"digest", "ask", "full"} =>
       Cardinality(Latest(Recent, c.events) \ c.recent) <= Cardinality(c.moved)
  /\ c.step \in {"ask", "full"} /\ c.digest.ready => c.digest.ids = Earlier(c.events)

ReadInv == \A q \in Queries : ReadOK(context[q], Created)

LEMMA VisibleIds ==
  ASSUME HistInv, EdgesInv, NEW b \in Created
  PROVE  b \in Branches /\ Visible(b) \in Ids
<1>1. Chain(Parents) /\ DOMAIN Parents = Times
  BY StoredEvents DEF Parents
<1>2. Chain(edges)
  BY <1>1 DEF EdgesInv, Chain
<1>3. b \in Branches /\ rows[b].head \in {0} \cup Times
  BY CreatedRow, StoredEvents DEF RowOK
<1>4. Visible(b) \subseteq Times
  <2>1. ASSUME NEW i \in Times, NEW p \in edges[i] PROVE p \in Times
    <3>1. p \in 1..(i - 1)
      BY <1>2 DEF Chain
    <3> QED BY <3>1, LinkConstants DEF Times
  <2> QED BY <1>2, <1>3, <2>1, ReachableWithin DEF Visible
<1> QED BY <1>3, <1>4 DEF Ids

\* The steps of the judgments begin and end outside of the contexts.
LEMMA JudgesApart ==
  ASSUME NEW q \in Queries, JudgmentStep(q), query \in [Queries -> Query]
  PROVE  \A p \in Queries : query'[p].step = "context" <=> query[p].step = "context"
<1>1. query[q] \in Query /\ query[q].step # "context"
  BY DEF JudgmentStep, Start, ReadFailures, PutCause, PutEdges, ReadLinks, Judged, JudgeFailed,
         JudgeRaises, PutJudgments, ClearIndex, FillIndex
<1>2. SUFFICES \E r : Go(q, r) /\ r.step # "context"
  BY <1>1 DEF Go
<1>3. \A step : At(step).step = step
  BY DEF At
<1>4. ASSUME NEW accepted, NEW excused, NEW r \in AfterJudgments(accepted, excused)
      PROVE  r.step # "context"
  <2>1. [At("clear") EXCEPT !.rows = accepted, !.torn = excused].step = "clear"
    BY DEF At
  <2> QED BY <1>3, <1>4, <2>1 DEF AfterJudgments
<1>6. CASE Start(q)
  <2> DEFINE r == [At("failures") EXCEPT !.ids = Stored]
  <2>1. r.step = "failures"
    BY DEF At
  <2>2. (\E s \in AfterJudgments(cache.rows, cache.torn) : Go(q, s)) \/ Go(q, r)
    BY <1>6 DEF Start
  <2> HIDE DEF r
  <2> QED BY <1>4, <2>1, <2>2
<1>7. CASE ReadFailures(q) \/ PutCause(q) \/ PutEdges(q) \/ ReadLinks(q) \/ Judged(q) \/ ClearIndex(q)
  <2>1. PICK step \in {"causes", "edges", "judge", "put", "fill"} : \E a, b, c :
          \/ Go(q, [query[q] EXCEPT !.step = step])
          \/ Go(q, [query[q] EXCEPT !.step = step, !.failures = a])
          \/ Go(q, [query[q] EXCEPT !.step = step, !.todo = a])
          \/ Go(q, [query[q] EXCEPT !.step = step, !.rows = a, !.torn = b])
          \/ Go(q, [query[q] EXCEPT !.step = step, !.failures = a, !.todo = b, !.torn = c])
    BY <1>7 DEF ReadFailures, PutCause, PutEdges, ReadLinks, Judged, ClearIndex
  <2>2. PICK a, b, c :
          \/ Go(q, [query[q] EXCEPT !.step = step])
          \/ Go(q, [query[q] EXCEPT !.step = step, !.failures = a])
          \/ Go(q, [query[q] EXCEPT !.step = step, !.todo = a])
          \/ Go(q, [query[q] EXCEPT !.step = step, !.rows = a, !.torn = b])
          \/ Go(q, [query[q] EXCEPT !.step = step, !.failures = a, !.todo = b, !.torn = c])
    BY <2>1
  <2> DEFINE R == {[query[q] EXCEPT !.step = step],
                   [query[q] EXCEPT !.step = step, !.failures = a],
                   [query[q] EXCEPT !.step = step, !.todo = a],
                   [query[q] EXCEPT !.step = step, !.rows = a, !.torn = b],
                   [query[q] EXCEPT !.step = step, !.failures = a, !.todo = b, !.torn = c]}
  <2>3. \E r \in R : Go(q, r)
    BY <2>2
  <2>4. \A r \in R : r.step = step
    BY <1>1 DEF Query
  <2> HIDE DEF R
  <2> QED BY <2>3, <2>4
<1>8. CASE JudgeFailed(q)
  <2>1. PICK accepted : \E r \in AfterJudgments(accepted, TRUE) : Go(q, r)
    BY <1>8 DEF JudgeFailed
  <2> QED BY <1>4, <2>1
<1>9. CASE JudgeRaises(q) \/ FillIndex(q)
  BY <1>3, <1>9 DEF JudgeRaises, FillIndex
<1>10. CASE PutJudgments(q)
  BY <1>4, <1>10 DEF PutJudgments
<1> QED BY <1>6, <1>7, <1>8, <1>9, <1>10 DEF JudgmentStep

\* A step of the history, or of a query about judgments.
LEMMA ReadersStay ==
  ASSUME LearnedInv, ViewTypes, ReadInv, Grows, UNCHANGED views,
         \A p \in Queries : query'[p].step = "context" <=> query[p].step = "context"
  PROVE  ViewTypes' /\ ReadInv'
<1>1. ViewTypes'
  BY DEF ViewTypes, views
<1>2. Created \subseteq Created'
  BY DEF Grows
<1> QED BY <1>1, <1>2 DEF ReadInv, ReadOK, views

\* A step that changes the context of one query to c.
LEMMA ReaderStep ==
  ASSUME ViewTypes, ReadInv, Grows, NEW q \in Queries, NEW c \in Context, Assemble(q, c),
         c.step # "none", ReadOK(c, Created),
         \A p \in Queries : query'[p].step = "context" <=> p = q \/ query[p].step = "context",
         summary' \in [Branches -> Digest \cup {None}],
         packing' \in [Queries -> Packing \cup {None}]
  PROVE  ViewTypes' /\ ReadInv'
<1>1. context' = [context EXCEPT ![q] = c] /\ context \in [Queries -> Context]
  BY DEF Assemble, ViewTypes
<1>2. context' \in [Queries -> Context]
      /\ \A p \in Queries : context'[p] = IF p = q THEN c ELSE context[p]
  BY <1>1
<1>3. ViewTypes'
  BY <1>2 DEF ViewTypes
<1>4. Created \subseteq Created'
  BY DEF Grows
<1>5. ReadInv'
  BY <1>2, <1>4 DEF ReadInv, ReadOK
<1> QED BY <1>3, <1>5

LEMMA FitsIsPacking == ASSUME NEW p, Fits(p) PROVE p \in Packing
BY ContextConstants DEF Fits, Packing

LEMMA NoContextType ==
  /\ NoContext \in Context /\ NoDigest \in Digest
  /\ \A step \in {"none", "pack", "done"} :
       /\ [NoContext EXCEPT !.step = step] \in Context
       /\ [NoContext EXCEPT !.step = step].step = step
<1>1. NoDigest \in Digest
  BY DEF NoDigest, Digest, Ids
<1>2. NoContext \in Context
  BY <1>1, LinkConstants DEF NoContext, Context, Ids
<1>3. ASSUME NEW step \in {"none", "pack", "done"}
      PROVE  /\ [NoContext EXCEPT !.step = step] \in Context
             /\ [NoContext EXCEPT !.step = step].step = step
  BY <1>2 DEF Context
<1> QED BY <1>1, <1>2, <1>3

\* A step of the query of a context that goes on with c.
LEMMA ReaderGoesOn ==
  ASSUME ViewTypes, ReadInv, Grows, NEW q \in Queries, NEW c \in Context, Assemble(q, c),
         UNCHANGED learned, context[q].step # "none",
         c.step \notin {"none", "events"}, ReadOK(c, Created),
         summary' \in [Branches -> Digest \cup {None}],
         packing' \in [Queries -> Packing \cup {None}]
  PROVE  ViewTypes' /\ ReadInv'
<1>1. \A p \in Queries : query'[p].step = "context" <=> p = q \/ query[p].step = "context"
  BY DEF ViewTypes, learned
<1> QED BY <1>1, ReaderStep

LEMMA ReadDigestReads ==
  ASSUME DigestInv, ViewTypes, ReadInv, Grows,
         NEW q \in Queries, NEW refresh \in BOOLEAN, ReadDigest(q, refresh)
  PROVE  ViewTypes' /\ ReadInv'
<1> DEFINE c    == context[q]
           S    == Earlier(c.events)
           old  == summary[c.branch]
           base == Extended(old, S)
           asked == [ids |-> S, covered |-> base.covered \cup (S \ base.ids), ready |-> TRUE]
<1>1. /\ UNCHANGED <<learned, summary, packing>> /\ c.step = "digest"
      /\ \/ S = {} /\ Assemble(q, [c EXCEPT !.step = "full"])
         \/ old # None /\ old.ids = S /\ Assemble(q, [c EXCEPT !.step = "full", !.digest = old])
         \/ Assemble(q, [c EXCEPT !.step = "ask", !.digest = asked])
  BY DEF ReadDigest
<1>2. c \in Context /\ c.branch \in Branches /\ S \in Ids /\ ReadOK(c, Created)
      /\ (old # None => old \in Digest /\ Covers(old))
  BY DEF ViewTypes, ReadInv, DigestInv, Context, Earlier, Ids
<1>3. asked \in Digest /\ asked.ids = S
  <2>1. base.covered \cup (S \ base.ids) = S
    BY <1>2, ExtendedCovers
  <2> HIDE DEF base, S
  <2> QED BY <1>2, <2>1 DEF Digest
<1>4. c.digest = NoDigest /\ Cardinality(Latest(Recent, c.events) \ c.recent) <= Cardinality(c.moved)
  BY <1>1, <1>2 DEF ReadOK
<1> HIDE DEF old, base, asked
<1>5. ASSUME NEW step \in {"full", "ask"}, NEW d \in Digest, d.ids = S,
             Assemble(q, [c EXCEPT !.step = step, !.digest = d])
      PROVE  ViewTypes' /\ ReadInv'
  <2> DEFINE c2 == [c EXCEPT !.step = step, !.digest = d]
  <2>1. /\ c2 \in Context /\ c2.step = step /\ c2.digest = d /\ c2.events = c.events
        /\ c2.recent = c.recent /\ c2.moved = c.moved
    BY <1>2, <1>5 DEF Context
  <2> HIDE DEF c2
  <2>2. ReadOK(c2, Created)
    BY <1>4, <1>5, <2>1 DEF ReadOK
  <2> QED BY <1>1, <1>5, <2>1, <2>2, ReaderGoesOn DEF c2, ViewTypes
<1>6. CASE S = {} /\ Assemble(q, [c EXCEPT !.step = "full"])
  <2>1. [c EXCEPT !.step = "full"] = [c EXCEPT !.step = "full", !.digest = NoDigest]
    BY <1>2, <1>4 DEF Context
  <2>2. NoDigest \in Digest /\ NoDigest.ids = S
    BY <1>6, NoContextType DEF NoDigest
  <2> QED BY <1>5, <1>6, <2>1, <2>2
<1> QED BY <1>1, <1>2, <1>3, <1>5, <1>6

LEMMA PutDigestReads ==
  ASSUME ViewTypes, ReadInv, Grows, NEW q \in Queries, PutDigest(q)
  PROVE  ViewTypes' /\ ReadInv'
<1> DEFINE c == context[q]
<1>1. PICK ending : /\ summary' = [summary EXCEPT ![c.branch] = Digested(c.digest, ending)]
                    /\ Assemble(q, [c EXCEPT !.step = "full",
                                             !.digest = Digested(c.digest, ending)])
  BY DEF PutDigest
<1> DEFINE d == Digested(c.digest, ending)
           c2 == [c EXCEPT !.step = "full", !.digest = d]
<1>2. UNCHANGED <<learned, packing>> /\ c.step = "ask" /\ c \in Context /\ ReadOK(c, Created)
      /\ c.branch \in Branches /\ c.digest \in Digest
  BY DEF PutDigest, ViewTypes, ReadInv, Context
<1>3. d \in Digest /\ (d.ready => c.digest.ready /\ d.ids = c.digest.ids)
  BY <1>2 DEF Digested, Digest, Ids
<1>4. summary' = [summary EXCEPT ![c.branch] = d] /\ Assemble(q, c2)
  BY <1>1
<1> HIDE DEF d
<1>5. /\ c2 \in Context /\ c2.step = "full" /\ c2.digest = d /\ c2.events = c.events
      /\ c2.recent = c.recent /\ c2.moved = c.moved
  BY <1>2, <1>3 DEF Context
<1> HIDE DEF c2
<1>6. ReadOK(c2, Created)
  BY <1>2, <1>3, <1>5 DEF ReadOK
<1>7. summary' \in [Branches -> Digest \cup {None}]
  BY <1>2, <1>3, <1>4 DEF ViewTypes
<1> QED BY <1>2, <1>4, <1>5, <1>6, <1>7, ReaderGoesOn DEF ViewTypes

LEMMA ReadLatestReads ==
  ASSUME LearnedInv, ViewTypes, ReadInv, Grows, NEW q \in Queries, ReadLatest(q)
  PROVE  ViewTypes' /\ ReadInv'
<1> DEFINE c   == context[q]
           now == Visible(c.branch)
           c2  == [c EXCEPT !.step = "digest", !.recent = Latest(Recent, now) \cap c.events,
                            !.moved = (now \ c.events) \cup (c.events \ now)]
<1>1. Assemble(q, c2) /\ UNCHANGED <<learned, summary, packing>> /\ c.step = "events"
  BY DEF ReadLatest
<1>2. c \in Context /\ c.branch \in Created /\ c.digest = NoDigest
  BY <1>1 DEF ViewTypes, ReadInv, ReadOK
<1>3. now \in Ids /\ c.events \in Ids
  BY <1>2, VisibleIds DEF LearnedInv, Context
<1> HIDE DEF now
<1>4. ((now \ c.events) \cup (c.events \ now)) \in Ids /\ (Latest(Recent, now) \cap c.events) \in Ids
  BY <1>3 DEF Ids
<1>5. /\ c2 \in Context /\ c2.step = "digest" /\ c2.digest = NoDigest /\ c2.events = c.events
      /\ c2.recent = Latest(Recent, now) \cap c.events
      /\ c2.moved = (now \ c.events) \cup (c.events \ now)
  BY <1>2, <1>4 DEF Context
<1>6. Cardinality(Latest(Recent, c2.events) \ c2.recent) <= Cardinality(c2.moved)
  BY <1>3, <1>5, LatestLost
<1> HIDE DEF c2
<1>7. ReadOK(c2, Created)
  BY <1>5, <1>6 DEF ReadOK
<1> QED BY <1>1, <1>5, <1>7, ReaderGoesOn DEF ViewTypes

LEMMA ReadEventsReads ==
  ASSUME LearnedInv, ViewTypes, ReadInv, Grows, NEW q \in Queries, NEW b \in Created,
         ReadEvents(q, b)
  PROVE  ViewTypes' /\ ReadInv'
<1> DEFINE c == [NoContext EXCEPT !.step = "events", !.branch = b, !.events = Visible(b)]
<1>1. /\ Assemble(q, c) /\ UNCHANGED <<summary, packing>>
      /\ query' = [query EXCEPT ![q] = At("context")] /\ query \in [Queries -> Query]
  BY DEF ReadEvents, LearnedInv, LearnedTypeOK
<1>2. b \in Branches /\ Visible(b) \in Ids
  BY VisibleIds DEF LearnedInv
<1>3. /\ c \in Context /\ c.step = "events" /\ c.branch = b /\ c.digest = NoDigest
  BY <1>2, NoContextType DEF Context, NoContext
<1> HIDE DEF c
<1>4. ReadOK(c, Created)
  BY <1>3 DEF ReadOK
<1>5. \A p \in Queries : query'[p].step = "context" <=> p = q \/ query[p].step = "context"
  BY <1>1 DEF At
<1> QED BY <1>1, <1>3, <1>4, <1>5, ReaderStep DEF ViewTypes

LEMMA ReadersNext ==
  ASSUME LearnedInv, DigestInv, BudgetInv, ViewTypes, ReadInv, [Next]_vars
  PROVE  ViewTypes' /\ ReadInv'
<1>1. Grows
  BY HistoryKept DEF LearnedInv
<1>2. CASE UNCHANGED <<views, query>>
  BY <1>1, <1>2, ReadersStay
<1>3. ASSUME NEW q \in Queries, JudgmentStep(q), UNCHANGED views
      PROVE  ViewTypes' /\ ReadInv'
  BY <1>1, <1>3, JudgesApart, ReadersStay DEF LearnedInv, LearnedTypeOK
<1>4. ASSUME NEW q \in Queries, NEW step \in {"pack", "done"},
             Assemble(q, [NoContext EXCEPT !.step = step]), context[q].step # "none",
             UNCHANGED <<learned, summary>>, packing' \in [Queries -> Packing \cup {None}]
      PROVE  ViewTypes' /\ ReadInv'
  <2> DEFINE c == [NoContext EXCEPT !.step = step]
  <2>1. c \in Context /\ c.step = step
    BY NoContextType
  <2> HIDE DEF c
  <2>2. ReadOK(c, Created)
    BY <2>1 DEF ReadOK
  <2> QED BY <1>1, <1>4, <2>1, <2>2, ReaderGoesOn DEF c, ViewTypes
<1>5. ASSUME NEW q \in Queries, DigestRaises(q) \/ Pack(q) \/ Answer(q)
      PROVE  ViewTypes' /\ ReadInv'
  <2>1. NothingPacked \in Packing
    BY NothingPackedFits, FitsIsPacking
  <2>2. \E step \in {"pack", "done"} :
          Assemble(q, [NoContext EXCEPT !.step = step]) /\ context[q].step # "none"
    BY <1>5 DEF DigestRaises, Pack, Answer
  <2>3. UNCHANGED <<learned, summary>> /\ packing' \in [Queries -> Packing \cup {None}]
    BY <1>5, <2>1 DEF DigestRaises, Pack, Answer, ViewTypes
  <2> QED BY <1>4, <2>2, <2>3
<1>6. ASSUME NEW q \in Queries, PackNext(q)
      PROVE  ViewTypes' /\ ReadInv'
  <2>1. PICK cost \in Costs(packing[q].next) : \E p \in Packed(packing[q], cost) :
          packing' = [packing EXCEPT ![q] = p]
    BY <1>6 DEF PackNext
  <2>2. PICK r \in Packed(packing[q], cost) : packing' = [packing EXCEPT ![q] = r]
    BY <2>1
  <2>3. Fits(packing[q]) /\ packing[q].next <= Segments /\ UNCHANGED <<history, learned, summary, context>>
    BY <1>6 DEF PackNext, BudgetInv
  <2>4. r \in Packing
    BY <2>3, PackedFits, FitsIsPacking
  <2>5. ViewTypes'
    BY <2>2, <2>3, <2>4 DEF ViewTypes, learned
  <2>6. ReadInv'
    BY <2>3 DEF ReadInv, Created, history
  <2> QED BY <2>5, <2>6
<1> QED BY <1>1, <1>2, <1>3, <1>5, <1>6, ReadEventsReads, ReadLatestReads, ReadDigestReads,
           PutDigestReads DEF Next, Grow, RewriteCall, CallRewritten, vars, learned

-----------------------------------------------------------------------------
(* What follows of it. *)

ViewsInv == LearnedInv /\ DigestInv /\ BudgetInv /\ ViewTypes /\ ReadInv

LEMMA ReadersInit == Init => ViewTypes /\ ReadInv
<1> SUFFICES ASSUME Init PROVE ViewTypes /\ ReadInv
  OBVIOUS
<1>1. /\ context = [q \in Queries |-> NoContext] /\ summary = [b \in Branches |-> None]
      /\ packing = [q \in Queries |-> None] /\ query = [q \in Queries |-> At("new")]
  BY DEF Init, LearnInit
<1>2. NoContext \in Context /\ NoContext.step = "none" /\ At("new").step = "new"
  BY NoContextType DEF NoContext, At
<1> QED BY <1>1, <1>2 DEF ViewTypes, ReadInv, ReadOK

LEMMA ViewsInvariant == Spec => []ViewsInv
<1>1. DigestInv /\ BudgetInv /\ [Next]_vars => (DigestInv /\ BudgetInv)'
  BY DigestInvNext, BudgetInvNext DEF DigestInv, BudgetInv, vars, views
<1>2. LearnedInv /\ DigestInv /\ BudgetInv /\ ViewTypes /\ ReadInv /\ [Next]_vars
        => (ViewTypes /\ ReadInv)'
  BY ReadersNext
<1> QED BY <1>1, <1>2, ReadersInit, DigestInvInit, BudgetInvInit, LearnedInvariant, PTL
        DEF Spec, ViewsInv, LearnedInv

\* Whatever the queries do at the same time, the views keep their types; a query is
\* about a context exactly from its first reading on (query_view).
THEOREM TypeCorrect == Spec => []TypeOK
<1>1. ViewsInv => TypeOK
  BY HistTypes DEF ViewsInv, LearnedInv, EdgesInv, ViewTypes, TypeOK
<1> QED BY <1>1, ViewsInvariant, PTL

\* Of the events a context was asked about, only as many are in neither its latest
\* events nor its digest as came to the branch, or left it, between the two readings,
\* whoever writes the history with whatever parents, whatever is half done, whatever
\* the two limits are and however the kept digest changes meanwhile
\* (_context_candidate_event_ids, _semantic_summary).
THEOREM ContextsAreComplete == Spec => []ContextComplete
<1>1. ASSUME ViewsInv, NEW q \in Queries, context[q].step = "full", context[q].digest.ready
      PROVE  Cardinality(context[q].events \ (context[q].recent \cup context[q].digest.covered))
               <= Cardinality(context[q].moved)
  <2> DEFINE c == context[q]
  <2>1. c.digest.covered = Earlier(c.events)
        /\ Cardinality(Latest(Recent, c.events) \ c.recent) <= Cardinality(c.moved)
    BY <1>1 DEF ViewsInv, ReadInv, ReadOK, DigestInv, Covers
  <2>2. c.events \ (c.recent \cup Earlier(c.events)) = Latest(Recent, c.events) \ c.recent
    BY DEF Earlier, Latest
  <2> QED BY <2>1, <2>2
<1>2. ViewsInv => ContextComplete
  BY <1>1 DEF ContextComplete
<1> QED BY <1>2, ViewsInvariant, PTL
=============================================================================
