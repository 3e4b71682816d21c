----------------------------- MODULE RepairLinks -----------------------------
(***************************************************************************)
(* What ContextDB learns from one trajectory's history (contextdb/         *)
(* service.py): the failures and the successes of every branch, and the    *)
(* structural links from a failure to the success that repaired it.        *)
(*                                                                         *)
(* The history is VersionedTrajectory's, with only what the links depend   *)
(* on: requests read a branch's row, and put it back whole after others    *)
(* may have put theirs.  An event is its timestamp, which append_event     *)
(* takes between reading the row and putting the event, so that events may *)
(* be stored out of their order; 0 is no event.  Texts are left out, and   *)
(* with them the same_tool_command_variant rule, which only supports a     *)
(* link and never makes one.                                               *)
(***************************************************************************)
EXTENDS Integers, FiniteSets

CONSTANTS
  Branches,       \* the names of branches
  Main,           \* the branch a trajectory starts with
  None,           \* an absent value
  Workers,        \* concurrent requests
  Writers,        \* Writers[b]: the workers whose clients write branch b
  ClientParents,  \* whether clients of append_event name parent_event_ids
  Outcomes,       \* the outcomes of the events clients append
  MaxEvents,      \* bounds the history
  MaxCrashes      \* bounds the appends that die between their two puts

ASSUME LinkConstants ==
  /\ Main \in Branches /\ None \notin Branches
  /\ Writers \in [Branches -> SUBSET Workers]
  /\ ClientParents \in BOOLEAN
  /\ Outcomes \subseteq {"ok", "failed", "other"}
  /\ MaxEvents \in Nat /\ MaxCrashes \in Nat

VARIABLES
  events,   \* events[e]: the stored event e, or None
  edges,    \* edges[e]: the parents of event e in the table of edges
  rows,     \* rows[b]: the row of branch b, or None
  job,      \* job[w]: what worker w has read and is going to put, or None
  lost      \* history: the events whose append died before it put the branch

history == <<events, edges, rows, job, lost>>

-----------------------------------------------------------------------------
Times == 1..MaxEvents

\* A tool_result ended with status ok or one of FAILURE_STATUSES; the other
\* events only take part as ancestors.
Event == [outcome : {"ok", "failed", "other"}, branch : Branches, parents : SUBSET Times]

\* A rollback branch names the snapshot it was made from; the snapshot's event
\* is its base.
Row == [head : 0..MaxEvents, base : 0..MaxEvents, from : Branches \cup {None},
        rollback : BOOLEAN]

\* What a request does next: put its event, which gets one of the times that were
\* to come when it read the row; read the head its branch is to start at; or put
\* the row, of the branch whose head is to be its event.
Job == [step : {"event", "base", "row"}, branch : Branches, row : Row,
        parents : SUBSET Times, times : SUBSET Times, event : 0..MaxEvents]

ASSUME NoneIsNoRow == None \notin Event \cup Row \cup Job

Stored == {e \in Times : events[e] # None}

Created == {b \in Branches : rows[b] # None}

Parents == [e \in Times |-> IF e \in Stored THEN events[e].parents ELSE {}]

\* The events whose append is between its two puts.
InFlight == {job[w].event : w \in {v \in Workers : job[v] # None}} \ {0}

\* The events reachable from e, e included, when up is everyone's parents.
Reachable(up, e) ==
  LET reach[i \in {0} \cup DOMAIN up] ==
        IF i = 0 THEN {} ELSE {i} \cup UNION {reach[p] : p \in up[i]}
  IN  reach[e]

\* _reachable_event_ids follows the parents the events name,
Ancestors(e) == Reachable(Parents, e)

\* and list_events of a branch the table of edges.
Visible(b) == Reachable(edges, rows[b].head)

\* _branch_tool_result_contexts: the results a branch has appended itself and
\* still reaches.
Results(outcome) ==
  {e \in Stored : events[e].outcome = outcome /\ e \in Visible(events[e].branch)}

Failures  == Results("failed")
Successes == Results("ok")

\* One of the events of S is a success of the same branch before s.
SuccessBefore(S, s) ==
  \E e \in S : e < s /\ events[e].outcome = "ok" /\ events[e].branch = events[s].branch

\* is_first_success_on_branch, as the SQL of success_patterns has it,
FirstByQuery(s) == ~SuccessBefore(Stored, s)

\* Mutant: the successes the branch started with count too.
FirstOnBranchInherited(s) ==
  ~\E e \in Visible(events[s].branch) : e < s /\ events[e].outcome = "ok"

\* and as repair_strategies has it.
FirstOnBranch(s) == ~SuccessBefore(Visible(events[s].branch), s)

-----------------------------------------------------------------------------
(* _repair_link_evidence: the rules that link success s to failure f. *)

\* Mutant: the latest success is linked.
SameBranchLatestSuccess(f, s) ==
  /\ events[f].branch = events[s].branch
  /\ f < s
  /\ ~\E e \in Visible(events[f].branch) : s < e /\ events[e].outcome = "ok"

SameBranchFirstSuccess(f, s) ==
  /\ events[f].branch = events[s].branch
  /\ f < s
  /\ ~\E e \in Visible(events[f].branch) : f < e /\ e < s /\ events[e].outcome = "ok"

BaseOf(s) == rows[events[s].branch].base

BranchFromFailure(f, s) == BaseOf(s) = f /\ FirstOnBranch(s)

BranchFromAncestor(f, s) == BaseOf(s) \in Ancestors(f) \ {f} /\ FirstOnBranch(s)

RollbackThenRepair(f, s) ==
  LET from == rows[events[s].branch].from
  IN  /\ from # None /\ rows[from] # None /\ rows[from].rollback
      /\ rows[from].base \in Ancestors(f)
      /\ FirstOnBranch(s)

\* _primary_repair_evidence: the rule of the highest priority, or None.
PrimaryRule(f, s) ==
  IF RollbackThenRepair(f, s) THEN "rollback_then_repair"
  ELSE IF BranchFromFailure(f, s) THEN "branch_from_failure"
  ELSE IF SameBranchFirstSuccess(f, s) THEN "same_branch"
  ELSE IF BranchFromAncestor(f, s) THEN "branch_from_ancestor"
  ELSE None

\* repair_strategies: the candidates of every failure.
Links == {fs \in Failures \X Successes : PrimaryRule(fs[1], fs[2]) # None}

-----------------------------------------------------------------------------
HistoryInit ==
  /\ events = [e \in Times |-> None]
  /\ edges = [e \in Times |-> {}]
  /\ rows = [b \in Branches |->
               IF b = Main THEN [head |-> 0, base |-> 0, from |-> None, rollback |-> FALSE]
               ELSE None]
  /\ job = [w \in Workers |-> None]
  /\ lost = {}

Become(w, j) == job' = [job EXCEPT ![w] = j]

\* append_event reads the row of the branch, whose head is the event's parent unless
\* the client names others,
BeginAppend(w, b) ==
  /\ job[w] = None /\ w \in Writers[b]
  /\ \E P \in {{rows[b].head} \ {0}} \cup (IF ClientParents THEN SUBSET Stored ELSE {}) :
       Become(w, [step |-> "event", branch |-> b, row |-> rows[b], parents |-> P,
                  times |-> {e \in Times : \A x \in Stored : x < e}, event |-> 0])
  /\ UNCHANGED <<events, edges, rows, lost>>

\* Mutant: the parent is the head of the default branch.
PutEventOnMain(w, o) ==
  /\ job[w] # None /\ job[w].step = "event"
  /\ \E e \in job[w].times \ Stored :
       LET P == {rows[Main].head} \ {0}
       IN  /\ events' = [events EXCEPT ![e] =
                           [outcome |-> o, branch |-> job[w].branch, parents |-> P]]
           /\ edges' = [edges EXCEPT ![e] = P]
           /\ Become(w, [job[w] EXCEPT !.step = "row", !.row.head = e, !.event = e,
                                       !.parents = {}, !.times = {}])
  /\ UNCHANGED <<rows, lost>>

\* puts the event,
PutEvent(w, o) ==
  /\ job[w] # None /\ job[w].step = "event"
  /\ \E e \in job[w].times \ Stored :
       /\ events' = [events EXCEPT ![e] =
                       [outcome |-> o, branch |-> job[w].branch, parents |-> job[w].parents]]
       /\ edges' = [edges EXCEPT ![e] = job[w].parents]
       /\ Become(w, [job[w] EXCEPT !.step = "row", !.row.head = e, !.event = e,
                                   !.parents = {}, !.times = {}])
  /\ UNCHANGED <<rows, lost>>

\* and puts the row it has read with the event as its head.  snapshot, create_branch
\* and rollback put a row too.
PutRow(w) ==
  /\ job[w] # None /\ job[w].step = "row"
  /\ rows' = [rows EXCEPT ![job[w].branch] = job[w].row]
  /\ Become(w, None)
  /\ UNCHANGED <<events, edges, lost>>

\* snapshot puts back the row it has read, with the snapshot's id.
BeginSnapshot(w, b) ==
  /\ job[w] = None /\ w \in Writers[b]
  /\ Become(w, [step |-> "row", branch |-> b, row |-> rows[b], parents |-> {}, times |-> {},
                event |-> 0])
  /\ UNCHANGED <<events, edges, rows, lost>>

NewBranch(step, n, e, from, rollback) ==
  [step |-> step, branch |-> n, parents |-> {}, times |-> {}, event |-> 0,
   row |-> [head |-> e, base |-> e, from |-> from, rollback |-> rollback]]

\* create_branch: the name is free, and n starts at an event the client names, or at
\* the head of b, which is read next.
BeginBranch(w, n, b) ==
  /\ job[w] = None /\ w \in Writers[n]
  /\ rows[n] = None
  /\ \/ \E e \in Stored : Become(w, NewBranch("row", n, e, b, FALSE))
     \/ Become(w, NewBranch("base", n, 0, b, FALSE))
  /\ UNCHANGED <<events, edges, rows, lost>>

ReadBase(w) ==
  /\ job[w] # None /\ job[w].step = "base"
  /\ Become(w, NewBranch("row", job[w].branch, rows[job[w].row.from].head, job[w].row.from, FALSE))
  /\ UNCHANGED <<events, edges, rows, lost>>

\* rollback: the name is free, and n starts at the event of a snapshot, which was
\* the head of a branch once.
BeginRollback(w, n) ==
  /\ job[w] = None /\ w \in Writers[n]
  /\ rows[n] = None
  /\ \E e \in {0} \cup (Stored \ (InFlight \cup lost)) :
       Become(w, NewBranch("row", n, e, None, TRUE))
  /\ UNCHANGED <<events, edges, rows, lost>>

\* An append dies between its two puts.  (A request that dies before it has put
\* anything might as well never have come.)
Lose(w) ==
  /\ job[w] # None /\ job[w].event # 0
  /\ Cardinality(lost) < MaxCrashes
  /\ lost' = lost \cup {job[w].event}
  /\ Become(w, None)
  /\ UNCHANGED <<events, edges, rows>>

HistoryNext ==
  \E w \in Workers :
    \/ \E b \in Created : BeginAppend(w, b) \/ BeginSnapshot(w, b)
    \/ \E o \in Outcomes : PutEvent(w, o)
    \/ PutRow(w)
    \/ \E n \in Branches : BeginRollback(w, n) \/ \E b \in Created : BeginBranch(w, n, b)
    \/ ReadBase(w)
    \/ Lose(w)

HistorySpec == HistoryInit /\ [][HistoryNext]_history

-----------------------------------------------------------------------------
(* Properties. *)

HistoryTypeOK ==
  /\ events \in [Times -> Event \cup {None}]
  /\ rows \in [Branches -> Row \cup {None}]
  /\ job \in [Workers -> Job \cup {None}]
  /\ \A e \in Stored : \A p \in events[e].parents : p \in Stored /\ p < e
  /\ \A e \in Times : edges[e] \in {{}, Parents[e]}
  /\ \A b \in Created : {rows[b].head, rows[b].base} \subseteq {0} \cup Stored
  /\ lost \subseteq Stored

\* With one writer per branch and parents that nobody names, the two definitions of
\* a branch's first success differ for one reason only: an append that died between
\* its two puts has left a success no branch reaches, which the query still counts
\* and the walk of repair_strategies does not.
FirstSuccessesAgree ==
  \A s \in Successes :
    ~FirstByQuery(s) <=> ~FirstOnBranch(s) \/ SuccessBefore(lost, s)

\* With one writer per branch and parents that nobody names, a link and the rule it
\* is shown with are final: no append, snapshot, branch or rollback, whole or cut
\* short, takes them back, so what was learned from a link (a judgment, a skill)
\* keeps its ground.
LinksKept ==
  [][\A fs \in Links :
       fs \in Links' /\ PrimaryRule(fs[1], fs[2])' = PrimaryRule(fs[1], fs[2])]_history

\* README.md: "`repair_strategies` links failures to later successful repairs".
RepairIsLater == \A fs \in Links : fs[1] < fs[2]

=============================================================================
