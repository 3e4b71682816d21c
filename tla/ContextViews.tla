---------------------------- MODULE ContextViews ----------------------------
(***************************************************************************)
(* The views of ContextDB that an LLM has a part in, on one trajectory:    *)
(* the judgments and skills of JudgmentCache, and the context an Agent is  *)
(* given (contextdb/service.py: query_view with current_prompt,            *)
(* _context_assembly, _semantic_summary).                                  *)
(*                                                                         *)
(* A context shows the latest events of its branch and a digest of the     *)
(* events before them, which an LLM writes and a view keeps: a digest of   *)
(* more events extends it.  The query reads the events first, the latest   *)
(* ones again on their own, and the kept digest when it needs one.  What it *)
(* has found are segments of text, which are packed into a token budget.   *)
(***************************************************************************)
EXTENDS JudgmentCache

CONSTANTS
  Recent,  \* RECENT_CAUSAL_EVENT_LIMIT
  Budget   \* token_budget

ASSUME ContextConstants == Recent \in Nat \ {0} /\ Budget \in Nat \ {0}

VARIABLES
  summary,  \* summary[b]: the kept digest of branch b, or None
  context,  \* context[q]: what query q has read
  packing   \* packing[q]: how far the segments of query q are packed

views == <<summary, context, packing>>
vars == <<history, learned, views>>

-----------------------------------------------------------------------------
Ids == SUBSET Times

\* A digest names the events it is of.  covered (history): the events the LLM was
\* shown for it; ready: the LLM gave one.
Digest == [ids : Ids, covered : Ids, ready : BOOLEAN]

NoDigest == [ids |-> {}, covered |-> {}, ready |-> TRUE]

\* moved (history): the events that only one of the two readings of the branch has.
Context ==
  [step : {"none", "events", "digest", "ask", "full", "pack", "done"},
   branch : Branches, events : Ids, recent : Ids, moved : Ids, digest : Digest]

NoContext ==
  [step |-> "none", branch |-> Main, events |-> {}, recent |-> {}, moved |-> {},
   digest |-> NoDigest]

Latest(n, S) == {e \in S : Cardinality({x \in S : e < x}) < n}

\* Mutant: the digest ends one event too early.
EarlierShort(S) == S \ Latest(Recent + 1, S)

\* The events a digest is needed of.
Earlier(S) == S \ Latest(Recent, S)

\* ids is a proper prefix of the list of S.
ProperPrefix(ids, S) == ids \subseteq S /\ ids # S /\ \A e \in ids, x \in S \ ids : e < x

-----------------------------------------------------------------------------
(* Packing. *)

\* The segments in the order of their priorities: the task, the latest events, the
\* branch, memories, skills, the digest.
Segments == 6

\* The tokens a segment's text costs.  There always is a task, or the word that
\* there is none, and a branch.  All costs above the budget are alike.
Costs(i) == IF i \in {1, 3} THEN 1..(Budget + 1) ELSE 0..(Budget + 1)

\* remaining: the tokens left; loaded: the tokens of the texts packed so far.
Packing == [next : 1..(Segments + 1), remaining : 0..Budget, loaded : Nat]

NothingPacked == [next |-> 1, remaining |-> Budget, loaded |-> 0]

\* Mutant: a text that is cut is not taken off the budget.
PackedCutFree(p, cost) ==
  {[next |-> p.next + 1, loaded |-> p.loaded + n,
    remaining |-> IF cost <= p.remaining THEN p.remaining - n ELSE p.remaining]
   : n \in IF cost <= p.remaining THEN {cost}
           ELSE IF p.remaining > 0 THEN 1..p.remaining ELSE {0}}

\* A text that costs too much is cut to what remains; the spaces at its end are cut
\* with it, so it may cost less.
Packed(p, cost) ==
  {[next |-> p.next + 1, loaded |-> p.loaded + n, remaining |-> p.remaining - n]
   : n \in IF cost <= p.remaining THEN {cost}
           ELSE IF p.remaining > 0 THEN 1..p.remaining ELSE {0}}

-----------------------------------------------------------------------------
Init ==
  /\ HistoryInit /\ LearnInit
  /\ summary = [b \in Branches |-> None]
  /\ context = [q \in Queries |-> NoContext]
  /\ packing = [q \in Queries |-> None]

Assemble(q, c) == context' = [context EXCEPT ![q] = c]

\* query_view: the events of the branch.
ReadEvents(q, b) ==
  /\ query[q].step = "new" /\ "context" \in Kinds
  /\ query' = [query EXCEPT ![q] = At("context")]
  /\ Assemble(q, [NoContext EXCEPT !.step = "events", !.branch = b, !.events = Visible(b)])
  /\ UNCHANGED <<history, causes, cache, index, overlap, kept, summary, packing>>

\* _context_candidate_event_ids reads the branch again; an event the first reading
\* does not have is left out.
ReadLatest(q) ==
  LET c == context[q]  now == Visible(c.branch)
  IN
  /\ c.step = "events"
  /\ Assemble(q, [c EXCEPT !.step = "digest", !.recent = Latest(Recent, now) \cap c.events,
                      !.moved = (now \ c.events) \cup (c.events \ now)])
  /\ UNCHANGED <<history, learned, summary, packing>>

\* Mutant: any kept digest is extended by what comes after its length.
ExtendedAny(old, S) == IF old # None /\ old.ready THEN old ELSE NoDigest

\* The digest the LLM would be asked to extend.
Extended(old, S) ==
  IF old # None /\ old.ready /\ ProperPrefix(old.ids, S) THEN old ELSE NoDigest

\* _semantic_summary: nothing is needed, or the kept digest is of these events, or
\* the LLM is asked for one.  refresh asks in any case.
ReadDigest(q, refresh) ==
  LET c == context[q]  S == Earlier(c.events)  old == summary[c.branch]
  IN
  /\ c.step = "digest"
  /\ CASE S = {} -> Assemble(q, [c EXCEPT !.step = "full"])
       [] S # {} /\ ~refresh /\ old # None /\ old.ready /\ old.ids = S ->
            Assemble(q, [c EXCEPT !.step = "full", !.digest = old])
       [] OTHER ->
            LET base == Extended(old, S)
            IN  Assemble(q, [c EXCEPT !.step = "ask",
                          !.digest = [ids |-> S, covered |-> base.covered \cup (S \ base.ids),
                                      ready |-> TRUE]])
  /\ UNCHANGED <<history, learned, summary, packing>>

\* What the LLM's call gives.  It has no rule to fall back on.
Digested(digest, ending) ==
  IF ending = "answer" THEN digest ELSE [digest EXCEPT !.covered = {}, !.ready = FALSE]

\* It is kept in place of the digest that is there by now, and so is that the LLM
\* gave none.
PutDigest(q) ==
  LET c == context[q]
  IN
  /\ c.step = "ask"
  /\ WriteFree
  /\ \E ending \in Endings \ {"exception"} :
       LET d == Digested(c.digest, ending)
       IN  /\ summary' = [summary EXCEPT ![c.branch] = d]
           /\ Assemble(q, [c EXCEPT !.step = "full", !.digest = d])
  /\ UNCHANGED <<history, learned, packing>>

DigestRaises(q) ==
  /\ context[q].step = "ask"
  /\ Assemble(q, [NoContext EXCEPT !.step = "done"])
  /\ UNCHANGED <<history, learned, summary, packing>>

\* The context is whole, and its texts are packed,
Pack(q) ==
  /\ context[q].step = "full"
  /\ Assemble(q, [NoContext EXCEPT !.step = "pack"])
  /\ packing' = [packing EXCEPT ![q] = NothingPacked]
  /\ UNCHANGED <<history, learned, summary>>

\* one after the other,
PackNext(q) ==
  /\ context[q].step = "pack" /\ packing[q].next <= Segments
  /\ \E cost \in Costs(packing[q].next) : \E p \in Packed(packing[q], cost) :
       packing' = [packing EXCEPT ![q] = p]
  /\ UNCHANGED <<history, learned, summary, context>>

\* and the answer is given.
Answer(q) ==
  /\ context[q].step = "pack" /\ packing[q].next > Segments
  /\ Assemble(q, [NoContext EXCEPT !.step = "done"])
  /\ packing' = [packing EXCEPT ![q] = None]
  /\ UNCHANGED <<history, learned, summary>>

Next ==
  \/ Grow /\ UNCHANGED views
  \/ \E e \in Stored : (RewriteCall(e) \/ CallRewritten(e)) /\ UNCHANGED views
  \/ \E q \in Queries :
       \/ JudgmentStep(q) /\ UNCHANGED views
       \/ \E b \in Created : ReadEvents(q, b)
       \/ ReadLatest(q)
       \/ \E refresh \in BOOLEAN : ReadDigest(q, refresh)
       \/ PutDigest(q) \/ DigestRaises(q)
       \/ Pack(q) \/ PackNext(q) \/ Answer(q)

Spec == Init /\ [][Next]_vars

-----------------------------------------------------------------------------
(* Properties. *)

TypeOK ==
  /\ HistoryTypeOK /\ LearnedTypeOK
  /\ summary \in [Branches -> Digest \cup {None}]
  /\ context \in [Queries -> Context]
  /\ packing \in [Queries -> Packing \cup {None}]
  /\ \A q \in Queries : context[q].step # "none" <=> query[q].step = "context"

\* A digest that is shown as ready covers all the events it is said to be of and no
\* others, whichever kept digest it extends and however many queries write at a
\* time: the Agent is told with it which events it need not be shown.
DigestCovers ==
  LET digests == {summary[b] : b \in Branches} \cup
                 {context[q].digest : q \in {p \in Queries : context[p].step = "full"}}
  IN  \A d \in digests \ {None} : d.ready => d.covered = d.ids

\* Every event a context was asked about is among the latest events it shows or in
\* its digest ("incremental LLM digest for the prefix outside short-term context").
\* Only as many can be in neither as came to the branch, or left it, between its two
\* readings, though each event that comes or leaves moves the limit between the two.
ContextComplete ==
  \A q \in Queries :
    LET c == context[q]
    IN  c.step = "full" /\ c.digest.ready =>
          Cardinality(c.events \ (c.recent \cup c.digest.covered)) <= Cardinality(c.moved)

\* A context never costs more than its budget, however its texts are cut, and never
\* comes without its task, however small the budget is.
BudgetKept ==
  \A q \in Queries : packing[q] # None =>
    LET p == packing[q]
    IN  p.loaded <= Budget /\ (p.next > 1 => p.loaded > 0)

=============================================================================
