---------------------------- MODULE JudgmentCache ----------------------------
(***************************************************************************)
(* Queries that judge the links of RepairLinks with an LLM and learn       *)
(* skills from them (contextdb/service.py: semantic_repair_judgments and   *)
(* learned_skills, as _vector_learned_skills replaces it).  They run in    *)
(* the threads of a server, on one connection to the database, while the   *)
(* history grows.  ContextViews adds the other queries.                    *)
(*                                                                         *)
(* A query keeps three things: the LLM's cause of a failure in the failed  *)
(* event itself, the judgments of all links in a view that is reused as    *)
(* long as the trajectory has the same events, and the accepted links as   *)
(* skills in the vector index.  One LLM configuration is modelled; texts,  *)
(* and with them how accepted links are grouped into skills, are left out. *)
(***************************************************************************)
EXTENDS RepairLinks, FiniteSetsExt

CONSTANTS
  Queries,  \* the queries, each of which is asked once
  Kinds     \* the queries clients ask: "judgments" and ContextViews' "context"

ASSUME KindsAsked == Kinds \subseteq {"judgments", "context"}

VARIABLES
  causes,   \* the failed events that keep a cause the LLM has found
  cache,    \* the view of judgments, or None
  index,    \* the links the searchable skills stand for
  query,    \* query[q]: what query q is doing
  overlap,  \* history: two queries have run at the same time
  kept      \* history: the links learned as skills that have been links since, until
            \* queries overlap or one with a failed call, or a torn view, replaces
            \* the skills

learned == <<causes, cache, index, query, overlap, kept>>

-----------------------------------------------------------------------------
Pairs == Times \X Times

\* torn (history): the rows were mined while a write was half done.
View == [ids : SUBSET Times, rows : SUBSET Pairs, torn : BOOLEAN]

\* A query in "context" is one of ContextViews.
Steps == {"new", "failures", "causes", "edges", "judge", "put", "clear", "fill", "done",
          "context"}

\* ids: the events there were when the query was started.
Query ==
  [step : Steps, ids : SUBSET Times, failures : SUBSET Times, todo : SUBSET Times, rows : SUBSET Pairs, torn : BOOLEAN]

At(step) ==
  [step |-> step, ids |-> {}, failures |-> {}, todo |-> {}, rows |-> {}, torn |-> FALSE]

\* The history as it is once a write that is half done is complete.
Whole == INSTANCE RepairLinks WITH edges <- Parents

\* An event is stored and its branch's head not moved to it yet, or an event is
\* written again and its edges are deleted at the moment: threads that read on the
\* same connection see it.
HalfDone == InFlight # {} \/ edges # Parents

\* A write to the database waits for the transaction of another connection, and
\* one of put_object for the other threads' too.
WriteFree == edges = Parents /\ \A q \in Queries : query[q].step # "fill"

-----------------------------------------------------------------------------
LearnInit ==
  /\ causes = {}
  /\ cache = None /\ index = {}
  /\ query = [q \in Queries |-> At("new")]
  /\ overlap = FALSE /\ kept = {}

-----------------------------------------------------------------------------
(* The history goes on. *)

Grow ==
  /\ WriteFree
  /\ HistoryNext
  /\ kept' = kept \cap Whole!Links'
  /\ UNCHANGED <<causes, cache, index, query, overlap>>

\* update_tool_call_outcome puts a tool_call again: put_object deletes the edges
\* of the event
RewriteCall(e) ==
  /\ WriteFree
  /\ events[e].outcome = "other"
  /\ edges' = [edges EXCEPT ![e] = {}]
  /\ UNCHANGED <<events, rows, job, lost, learned>>

\* and inserts them again.
CallRewritten(e) ==
  /\ events[e].outcome = "other" /\ edges[e] # Parents[e]
  /\ edges' = Parents
  /\ UNCHANGED <<events, rows, job, lost, learned>>

-----------------------------------------------------------------------------
(* The steps of a query. *)

\* How a call to the LLM ends, however often it is attempted: with an answer; with an
\* error, for the service is not configured, refuses the call, is out of reach or
\* lost for too long, or answers nothing of use; or, for an answer of a form nobody
\* thought of, with an exception, which ends the query.
Endings == {"answer", "error", "exception"}

Go(q, r) == query' = [query EXCEPT ![q] = r]

\* What follows the judgments: the answer, or first the skills of the accepted rows.
AfterJudgments(accepted, excused) ==
  {At("done"), [At("clear") EXCEPT !.rows = accepted, !.torn = excused]}

\* The query reads the ids of all events, and takes the view that has them.
Start(q) ==
  /\ query[q].step = "new" /\ "judgments" \in Kinds
  /\ IF cache # None /\ cache.ids = Stored
       THEN \E r \in AfterJudgments(cache.rows, cache.torn) : Go(q, r)
       ELSE Go(q, [At("failures") EXCEPT !.ids = Stored])
  /\ overlap' = (overlap \/ \E p \in Queries \ {q} : query[p].step \notin {"new", "done"})
  /\ kept' = IF overlap' THEN {} ELSE kept
  /\ UNCHANGED <<history, causes, cache, index>>

\* Mutant: a cause the LLM has found is asked for again.
ReadFailuresAskAll(q) ==
  /\ query[q].step = "failures"
  /\ Go(q, [query[q] EXCEPT !.step = "causes", !.failures = Failures,
                            !.todo = Failures, !.torn = HalfDone])
  /\ UNCHANGED <<history, causes, cache, index, overlap, kept>>

\* failure_patterns: the failures, and those the LLM has to be asked about.
ReadFailures(q) ==
  /\ query[q].step = "failures"
  /\ Go(q, [query[q] EXCEPT !.step = "causes", !.failures = Failures,
                            !.todo = Failures \ causes, !.torn = HalfDone])
  /\ UNCHANGED <<history, causes, cache, index, overlap, kept>>

Asked(q) == Min(query[q].todo)

\* classify_likely_cause: what is known of the causes after the call about f.
Classified(f, ending) == IF ending = "answer" THEN causes \cup {f} ELSE causes \ {f}

\* _llm_likely_cause: the answer, or its error, is put with the event as it was
\* read,
PutCause(q) ==
  /\ query[q].step = "causes" /\ query[q].todo # {}
  /\ WriteFree
  /\ \E ending \in Endings \ {"exception"} : causes' = Classified(Asked(q), ending)
  /\ edges' = [edges EXCEPT ![Asked(q)] = {}]
  /\ Go(q, [query[q] EXCEPT !.step = "edges"])
  /\ UNCHANGED <<events, rows, job, lost, cache, index, overlap, kept>>

\* Mutant: the edge is made from the branch as it is now.
PutEdgesOfHead(q) ==
  /\ query[q].step = "edges"
  /\ edges' = [edges EXCEPT ![Asked(q)] = {rows[events[Asked(q)].branch].head} \ {0}]
  /\ Go(q, [query[q] EXCEPT !.step = "causes", !.todo = @ \ {Asked(q)}])
  /\ UNCHANGED <<events, rows, job, lost, causes, cache, index, overlap, kept>>

\* and its edges are inserted again.
PutEdges(q) ==
  /\ query[q].step = "edges"
  /\ edges' = Parents
  /\ Go(q, [query[q] EXCEPT !.step = "causes", !.todo = @ \ {Asked(q)}])
  /\ UNCHANGED <<events, rows, job, lost, causes, cache, index, overlap, kept>>

\* repair_strategies: the links of these failures, once all are classified.
ReadLinks(q) ==
  /\ query[q].step = "causes" /\ query[q].todo = {}
  /\ Go(q, [query[q] EXCEPT
              !.step = "judge",
              !.rows = {fs \in query[q].failures \X Successes : PrimaryRule(fs[1], fs[2]) # None},
              !.torn = @ \/ HalfDone])
  /\ UNCHANGED <<history, causes, cache, index, overlap, kept>>

\* Every link is judged.  Without an error the rows are kept;
Judged(q) ==
  /\ query[q].step = "judge"
  /\ Go(q, [query[q] EXCEPT !.step = "put", !.failures = {}])
  /\ UNCHANGED <<history, causes, cache, index, overlap, kept>>

\* otherwise the answer has the rows that were judged, and nothing is kept.
JudgeFailed(q) ==
  /\ query[q].step = "judge"
  /\ \E accepted \in SUBSET query[q].rows :
       /\ accepted # query[q].rows
       /\ \E r \in AfterJudgments(accepted, TRUE) : Go(q, r)
  /\ UNCHANGED <<history, causes, cache, index, overlap, kept>>

JudgeRaises(q) ==
  /\ \/ query[q].step = "causes" /\ query[q].todo # {}
     \/ query[q].step = "judge" /\ query[q].rows # {}
  /\ Go(q, At("done"))
  /\ UNCHANGED <<history, causes, cache, index, overlap, kept>>

\* Mutant: the view is keyed by the events at the end.
PutJudgmentsAsOfNow(q) ==
  /\ query[q].step = "put"
  /\ WriteFree
  /\ cache' = [ids |-> Stored, rows |-> query[q].rows, torn |-> query[q].torn]
  /\ \E r \in AfterJudgments(query[q].rows, query[q].torn) : Go(q, r)
  /\ UNCHANGED <<history, causes, index, overlap, kept>>

PutJudgments(q) ==
  /\ query[q].step = "put"
  /\ WriteFree
  /\ cache' = [ids |-> query[q].ids, rows |-> query[q].rows, torn |-> query[q].torn]
  /\ \E r \in AfterJudgments(query[q].rows, query[q].torn) : Go(q, r)
  /\ UNCHANGED <<history, causes, index, overlap, kept>>

\* replace_owner deletes the trajectory's skills, on a connection of its own,
\* which no lock keeps the other queries from,
ClearIndex(q) ==
  /\ query[q].step = "clear"
  /\ edges = Parents
  /\ index' = {}
  /\ Go(q, [query[q] EXCEPT !.step = "fill"])
  /\ UNCHANGED <<history, causes, cache, overlap, kept>>

\* Mutant: the skills are deleted after they were inserted.
FillThenClear(q) ==
  /\ query[q].step = "fill"
  /\ index' = {}
  /\ Go(q, At("done"))
  /\ kept' = IF overlap \/ query[q].torn THEN {} ELSE (kept \cup query[q].rows) \cap Whole!Links
  /\ UNCHANGED <<history, causes, cache, overlap>>

\* inserts the skills and commits.
FillIndex(q) ==
  /\ query[q].step = "fill"
  /\ index' = index \cup query[q].rows
  /\ Go(q, At("done"))
  /\ kept' = IF overlap \/ query[q].torn THEN {} ELSE (kept \cup query[q].rows) \cap Whole!Links
  /\ UNCHANGED <<history, causes, cache, overlap>>

JudgmentStep(q) ==
  \/ Start(q) \/ ReadFailures(q) \/ PutCause(q) \/ PutEdges(q) \/ ReadLinks(q)
  \/ Judged(q) \/ JudgeFailed(q) \/ JudgeRaises(q) \/ PutJudgments(q)
  \/ ClearIndex(q) \/ FillIndex(q)

-----------------------------------------------------------------------------
(* Properties. *)

LearnedTypeOK ==
  /\ causes \subseteq Stored
  /\ cache \in View \cup {None}
  /\ index \subseteq Pairs
  /\ query \in [Queries -> Query]
  /\ overlap \in BOOLEAN /\ kept \subseteq Pairs

\* With one writer per branch, the judgments the view would answer with are those of
\* all links of the history, and of no others, however queries overlap, calls fail
\* and the history grows, with whatever parents, while the LLM is asked: the ids are
\* read before the links.  The one exception is a view that was mined while another
\* thread's write was half done: it is served until the next event.
JudgmentsCurrent ==
  cache # None /\ ~cache.torn /\ cache.ids = Stored => cache.rows = Whole!Links

\* As long as queries run one after the other, no call to the LLM fails and no view
\* was torn, a link that was learned as a skill and has been a link ever since stays
\* among the skills that can be searched, whoever writes the branches with whatever
\* parents, and though every query deletes all skills and inserts its own: it judges
\* all links again or takes a view that has them all.  (A link is not for ever: see
\* LinksKept.)
SkillsKept == (\A q \in Queries : query[q].step # "fill") => kept \subseteq index

\* As long as queries run one after the other, a cause the LLM has found is never
\* lost to a failed call ("cache only a successful result for this LLM
\* configuration").
CausesKept == [][overlap \/ causes \subseteq causes']_<<causes, overlap>>

=============================================================================
