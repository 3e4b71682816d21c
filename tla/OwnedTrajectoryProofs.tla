------------------------ MODULE OwnedTrajectoryProofs ------------------------
(* What VersionedTrajectory promises clients that let append_event choose the *)
(* parents, and that share no branch: theorems for any constants.             *)
EXTENDS VersionedTrajectoryProofs

(***************************************************************************)
(* Ancestry, for any table of events.                                      *)
(***************************************************************************)

ClosedIn(events, S) == \A e \in S : events[e] # None => events[e].parents \subseteq S

Below(events, a, d) ==
  \/ a = None
  \/ /\ d # None
     /\ \A S \in SUBSET EventIds : (d \in S /\ ClosedIn(events, S)) => a \in S

\* AncestorOrEq is the ancestry of the stored events.
LEMMA AncestryOfStored == \A a, d : AncestorOrEq(a, d) <=> Below(event, a, d)
  BY DEF AncestorOrEq, ClosedSet, Below, ClosedIn

LEMMA BelowItself == \A events, d : Below(events, d, d)
  BY DEF Below

\* What is below a parent is below its child.
LEMMA BelowChild ==
  ASSUME NEW events, NEW a, NEW p, NEW d, Below(events, a, p), d # None, events[d] # None,
         p # None => p \in events[d].parents
  PROVE  Below(events, a, d)
  BY DEF Below, ClosedIn

LEMMA BelowTrans ==
  ASSUME NEW events, NEW a, NEW b, NEW c, Below(events, a, b), Below(events, b, c)
  PROVE  Below(events, a, c)
  BY DEF Below

\* Stored events keep their parents, so an ancestor stays one.
LEMMA BelowStays ==
  ASSUME KeepsHistory, NEW a, NEW d, Below(event, a, d)
  PROVE  Below(event', a, d)
<1>1. ASSUME NEW S \in SUBSET EventIds, ClosedIn(event', S) PROVE ClosedIn(event, S)
  BY <1>1 DEF ClosedIn, KeepsHistory, Stored
<1> QED BY <1>1 DEF Below

(***************************************************************************)
(* The base of a branch stays below its head, whoever writes the branch:   *)
(* every row that is put back whole has its base below its head too, and   *)
(* a new head is a child of the head its row had.                          *)
(***************************************************************************)

RowBelow(row, events) == Below(events, row.base, row.head)

\* The parents of an event that is about to be put, or just was, are the head
\* of the row that was read.
DefaultParents(j) == j.step \in {"put_event", "put_head"} => j.parents = HeadOf(j.row)

BaseInv ==
  /\ RefInv
  /\ \A b \in Existing : RowBelow(branch[b], event)
  /\ \A w \in Workers : RowBelow(job[w].row, event) /\ DefaultParents(job[w])

LEMMA BaseFacts ==
  ASSUME BaseInv
  PROVE  /\ RefInv /\ TypeInv /\ TypeOK
         /\ \A b \in Branches : branch[b] # None => RowBelow(branch[b], event)
         /\ \A w \in Workers : /\ job[w] \in Job /\ JobOK(job[w], branch) /\ JobEvent(job[w], event)
                              /\ RowBelow(job[w].row, event) /\ DefaultParents(job[w])
  BY RefFacts DEF BaseInv, Existing

LEMMA EmptyRowBelow == \A events : RowBelow(EmptyRow, events) /\ RowBelow(IdleJob.row, events)
  BY DEF RowBelow, Below, EmptyRow, IdleJob

LEMMA InitBase == Init => BaseInv
<1> SUFFICES ASSUME Init PROVE BaseInv
  OBVIOUS
<1>1. \A b \in Existing : RowBelow(branch[b], event)
  BY EmptyRowBelow DEF Init, Existing
<1>2. \A w \in Workers : RowBelow(job[w].row, event) /\ DefaultParents(job[w])
  BY EmptyRowBelow DEF Init, DefaultParents, IdleJob
<1> QED BY <1>1, <1>2, InitRef DEF BaseInv

\* The row and the parents of the job that a step of worker w makes.
LEMMA BaseJobs ==
  ASSUME BaseInv, ~ClientParents, [Next]_vars, NEW w \in Workers,
         Starts(w) \/ Advances(w) \/ ReadBranch(w) \/ PutEvent(w) \/ PutEventAgain(w) \/ Abort(w)
  PROVE  \E j : Become(w, j) /\ RowBelow(j.row, event) /\ DefaultParents(j)
<1> USE DEF DefaultParents
<1>0. /\ TypeInv /\ TypeOK /\ TypeOK' /\ job[w] \in Job /\ JobOK(job[w], branch)
      /\ RowBelow(job[w].row, event) /\ DefaultParents(job[w])
  BY BaseFacts, NextTyped DEF TypeInv
<1>a. \A j : Become(w, j) => j \in Job
  BY <1>0 DEF TypeOK, Become
<1>b. ASSUME NEW j \in Job, \/ j.row \in {EmptyRow, job[w].row}
                            \/ branch[j.b] # None /\ j.row = branch[j.b]
      PROVE  RowBelow(j.row, event)
  BY <1>0, <1>b, EmptyRowBelow, BaseFacts DEF Job
<1>c. CASE Finish(w)
  BY <1>c, EmptyRowBelow DEF Finish, IdleJob
<1>1. CASE Starts(w)
  <2>1. PICK j : Become(w, j) /\ StartedJob(j)
    BY <1>0, <1>1, StartEffect
  <2> QED BY <1>a, <1>b, <2>1 DEF StartedJob
<1>2. CASE Advances(w) /\ ~Finish(w)
  <2>1. PICK j : Become(w, j) /\ AdvancedJob(job[w], j)
    BY <1>0, <1>2, AdvanceEffect
  <2> QED BY <1>a, <1>b, <2>1 DEF AdvancedJob
<1>3. CASE ReadBranch(w)
  <2> DEFINE j == [job[w] EXCEPT !.step = "put_event", !.row = branch[job[w].b],
                                 !.parents = HeadOf(branch[job[w].b])]
  <2>1. Become(w, j) /\ branch[job[w].b] # None
    BY <1>0, <1>3 DEF ReadBranch, At, JobOK
  <2>2. j.b = job[w].b /\ j.row = branch[job[w].b] /\ j.parents = HeadOf(j.row)
    BY <1>0 DEF Job
  <2> QED BY <1>a, <1>b, <2>1, <2>2
<1>4. CASE PutEvent(w)
  <2> PICK e \in EventIds : Become(w, [job[w] EXCEPT !.step = "put_head", !.ev = e])
    BY <1>4 DEF PutEvent
  <2> DEFINE j == [job[w] EXCEPT !.step = "put_head", !.ev = e]
  <2>1. j.row = job[w].row /\ j.parents = job[w].parents
    BY <1>0 DEF Job
  <2> QED BY <1>0, <1>4, <2>1 DEF PutEvent, At
<1>5. CASE PutEventAgain(w) \/ Abort(w)
  BY <1>c, <1>5 DEF PutEventAgain, Abort
<1> QED BY <1>c, <1>1, <1>2, <1>3, <1>4, <1>5

\* A row that is put has its base below its head.
LEMMA BaseRows ==
  ASSUME BaseInv, [Next]_vars, NEW b \in Branches, branch'[b] # None
  PROVE  RowBelow(branch'[b], event')
<1> USE DEF RowBelow
<1>0. TypeOK /\ KeepsHistory
  BY BaseFacts, StepKeepsHistory, RefFacts
<1>1. CASE branch'[b] = branch[b]
  BY <1>0, <1>1, BaseFacts, BelowStays
<1>2. ASSUME NEW w \in Workers, PutHead(w) \/ PutRow(w) \/ PutBranch(w) \/ PutBranchAgain(w),
             branch'[b] # branch[b]
      PROVE  RowBelow(branch'[b], event')
  <2>0. /\ job[w] \in Job /\ JobOK(job[w], branch) /\ JobEvent(job[w], event)
        /\ RowBelow(job[w].row, event) /\ DefaultParents(job[w]) /\ event' = event
    BY <1>2, BaseFacts DEF PutHead, PutRow, PutBranch, PutBranchAgain
  <2>1. CASE PutHead(w)
    <3>1. branch'[b] = [job[w].row EXCEPT !.head = job[w].ev]
      BY <1>0, <1>2, <2>1 DEF PutHead, TypeOK
    <3>2. /\ job[w].ev # None /\ event[job[w].ev] # None
          /\ event[job[w].ev].parents = HeadOf(job[w].row)
      BY <2>0, <2>1 DEF PutHead, At, JobOK, JobEvent, DefaultParents
    <3>3. Below(event, job[w].row.base, job[w].ev)
      BY <2>0, <3>2, BelowChild DEF HeadOf
    <3> QED BY <2>0, <3>1, <3>3 DEF Job, Row
  <2>2. CASE PutRow(w)
    <3>1. branch'[b] = [job[w].row EXCEPT !.snap = job[w].s]
      BY <1>0, <1>2, <2>2 DEF PutRow, TypeOK
    <3> QED BY <2>0, <3>1 DEF Job, Row
  <2>3. CASE PutBranch(w) \/ PutBranchAgain(w)
    <3>1. branch'[b] = NewRow(job[w])
      BY <1>0, <1>2, <2>3 DEF PutBranch, PutBranchAgain, TypeOK
    <3> QED BY <3>1, BelowItself DEF NewRow
  <2> QED BY <1>2, <2>1, <2>2, <2>3
<1> QED BY <1>1, <1>2, WhoWrites

LEMMA NextBase == ~ClientParents /\ BaseInv /\ [Next]_vars => BaseInv'
<1> SUFFICES ASSUME ~ClientParents, BaseInv, [Next]_vars PROVE BaseInv'
  OBVIOUS
<1>0. TypeOK /\ KeepsHistory
  BY BaseFacts, StepKeepsHistory, RefFacts
<1>1. \A b \in Existing' : RowBelow(branch'[b], event')
  BY BaseRows DEF Existing
<1>2. ASSUME NEW v \in Workers
      PROVE  RowBelow(job'[v].row, event') /\ DefaultParents(job'[v])
  <2>1. CASE job'[v] = job[v]
    BY <1>0, <2>1, BaseFacts, BelowStays DEF RowBelow
  <2>2. CASE Next
    <3>0. PICK w \in Workers : \E j : Become(w, j) /\ RowBelow(j.row, event) /\ DefaultParents(j)
      BY <2>2, StepKinds, BaseJobs
    <3>1. PICK j : Become(w, j) /\ RowBelow(j.row, event) /\ DefaultParents(j)
      BY <3>0
    <3>2. CASE v = w
      BY <1>0, <3>1, <3>2, BelowStays DEF Become, TypeOK, RowBelow
    <3>3. CASE v # w
      BY <1>0, <2>1, <3>1, <3>3 DEF Become, TypeOK
    <3> QED BY <3>2, <3>3
  <2> QED BY <2>1, <2>2 DEF vars
<1> QED BY <1>1, <1>2, NextRef DEF BaseInv

\* If no client names parents, a branch never leaves its base, however requests
\* overwrite each other's rows: the base stays in the history of the head.
THEOREM BasesBelowHeads == ~ClientParents => (Spec => []BaseBelowHead)
<1> SUFFICES ASSUME ~ClientParents PROVE Spec => []BaseBelowHead
  OBVIOUS
<1>1. BaseInv => BaseBelowHead
  BY AncestryOfStored DEF BaseInv, BaseBelowHead, RowBelow
<1> QED BY <1>1, InitBase, NextBase, PTL DEF Spec

(***************************************************************************)
(* One client per branch.  Then the row a request read is still the stored *)
(* row when it puts it back, so no put takes a head back.                  *)
(***************************************************************************)

OneClientPerBranch == \A b \in Branches : \A v, w \in Writers[b] : v = w

\* The rows a request works with, by the place it has reached.
HoldsRow == {"put_event", "put_head", "put_snapshot", "list_keys", "copy_records", "put_row"}

Versioned == {"read_row", "put_snapshot", "list_keys", "copy_records", "put_row", "put_event_again"}

\* The request has put its event, and the head of its branch is that event.
Advanced(j) ==
  j.step \in {"read_traj", "put_traj"} \/ (j.op = "version_snapshot" /\ j.step \in Versioned)

\* What a request that has begun may rely on, as long as only its own worker
\* writes its branch.
OwnedJob(j, w, events, rows, snaps) ==
  /\ j.step # "idle" => w \in Writers[j.b]
  /\ j.step \in HoldsRow => rows[j.b] = j.row
  /\ Advanced(j) => rows[j.b].head = j.ev
  /\ j.step \in {"read_base", "put_branch"} => rows[j.b] = None
  /\ j.step = "put_branch_again" => rows[j.b] = NewRow(j)
  /\ j.step \in {"list_keys", "copy_records"} => snaps[j.s] = [branch |-> j.b, event |-> j.row.head]
  /\ j.step = "copy_records" => j.b \in j.names
  /\ j.step = "put_traj" => Below(events, j.thead, rows[Main].head)
  /\ j.step = "put_event_again" => j.op = "version_snapshot"

\* The events that were acknowledged are stored, and below their branch's head.
AckedBelow ==
  \A e \in acked : /\ event[e] # None /\ branch[event[e].branch] # None
                   /\ Below(event, e, branch[event[e].branch].head)

OwnedInv ==
  /\ BaseInv
  /\ \A w \in Workers : OwnedJob(job[w], w, event, branch, snapshot)
  /\ AckedBelow
  /\ branch[Main] # None /\ Below(event, trajHead, branch[Main].head)
  /\ RecordMatchesSnapshot

LEMMA OwnedFacts ==
  ASSUME OwnedInv, [Next]_vars
  PROVE  /\ BaseInv /\ RefInv /\ HistoryInv /\ TypeInv /\ TypeOK /\ TypeOK' /\ CopiersOK /\ KeepsHistory
         /\ \A w \in Workers : /\ job[w] \in Job /\ JobOK(job[w], branch)
                              /\ JobEvent(job[w], event) /\ JobRef(job[w], event)
                              /\ DefaultParents(job[w])
                              /\ OwnedJob(job[w], w, event, branch, snapshot)
  BY BaseFacts, RefFacts, StepKeepsHistory, NextTyped DEF OwnedInv, HistoryInv, TypeInv

\* A step writes no row, or that of the request's branch.
LEMMA OneRow ==
  ASSUME [Next]_vars, branch' # branch
  PROVE  \E w \in Workers : /\ job[w].step # "idle"
                            /\ \E row : branch' = [branch EXCEPT ![job[w].b] = row]
                            /\ PutHead(w) \/ PutRow(w) \/ PutBranch(w) \/ PutBranchAgain(w)
  BY WhoWrites DEF PutHead, PutRow, PutBranch, PutBranchAgain, At

\* Every head moves on, to itself or to a descendant.
LEMMA HeadsMoveOn ==
  ASSUME OwnedInv, [Next]_vars, NEW b \in Branches, branch[b] # None
  PROVE  branch'[b] # None /\ Below(event', branch[b].head, branch'[b].head)
<1>0. TypeOK /\ KeepsHistory
  BY OwnedFacts
<1>1. branch'[b] # None
  BY <1>0 DEF KeepsHistory, Existing
<1>2. CASE branch'[b] = branch[b]
  BY <1>2, BelowItself
<1>3. ASSUME NEW w \in Workers, PutHead(w) \/ PutRow(w) \/ PutBranch(w) \/ PutBranchAgain(w),
             branch'[b] # branch[b]
      PROVE  Below(event', branch[b].head, branch'[b].head)
  <2>0. /\ job[w] \in Job /\ JobOK(job[w], branch) /\ JobEvent(job[w], event)
        /\ DefaultParents(job[w]) /\ OwnedJob(job[w], w, event, branch, snapshot)
        /\ event' = event
    BY <1>3, OwnedFacts DEF PutHead, PutRow, PutBranch, PutBranchAgain
  <2>1. b = job[w].b
    BY <1>0, <1>3 DEF PutHead, PutRow, PutBranch, PutBranchAgain, TypeOK
  <2>2. CASE PutHead(w)
    <3>1. branch'[b] = [job[w].row EXCEPT !.head = job[w].ev] /\ branch[b] = job[w].row
      BY <1>0, <2>0, <2>1, <2>2 DEF PutHead, TypeOK, OwnedJob, HoldsRow, At
    <3>2. /\ job[w].ev # None /\ event[job[w].ev] # None
          /\ event[job[w].ev].parents = HeadOf(job[w].row)
      BY <2>0, <2>2 DEF PutHead, At, JobOK, JobEvent, DefaultParents
    <3>3. Below(event, job[w].row.head, job[w].row.head)
      BY BelowItself
    <3>4. job[w].row.head # None => job[w].row.head \in event[job[w].ev].parents
      BY <3>2 DEF HeadOf
    <3>5. Below(event, job[w].row.head, job[w].ev)
      BY <3>2, <3>3, <3>4, BelowChild
    <3> QED BY <2>0, <3>1, <3>5 DEF Job, Row
  <2>3. CASE PutRow(w)
    <3>1. branch'[b] = [job[w].row EXCEPT !.snap = job[w].s] /\ branch[b] = job[w].row
      BY <1>0, <2>0, <2>1, <2>3 DEF PutRow, TypeOK, OwnedJob, HoldsRow, At
    <3> QED BY <2>0, <3>1, BelowItself DEF Job, Row
  <2>4. CASE PutBranch(w) \/ PutBranchAgain(w)
    <3>1. branch'[b] = NewRow(job[w]) /\ branch[b] \in {None, NewRow(job[w])}
      BY <1>0, <2>0, <2>1, <2>4 DEF PutBranch, PutBranchAgain, TypeOK, OwnedJob, At
    <3> QED BY <1>3, <3>1
  <2> QED BY <1>3, <2>2, <2>3, <2>4
<1> QED BY <1>1, <1>2, <1>3, OneRow

\* A step of one worker leaves what the others rely on.
LEMMA OthersKeepRows ==
  ASSUME OneClientPerBranch, OwnedInv, [Next]_vars, NEW v \in Workers, job'[v] = job[v]
  PROVE  OwnedJob(job'[v], v, event', branch', snapshot')
<1>0. /\ TypeOK /\ KeepsHistory /\ CopiersOK
      /\ job[v] \in Job /\ OwnedJob(job[v], v, event, branch, snapshot)
  BY OwnedFacts
<1> USE <1>0
<1>1. CASE job[v].step = "idle"
  BY <1>1 DEF OwnedJob, HoldsRow, Advanced, Versioned
<1>2. CASE job[v].step # "idle"
  <2>1. branch'[job[v].b] = branch[job[v].b]
    <3>1. ASSUME NEW w \in Workers, job[w].step # "idle", w # v PROVE job[w].b # job[v].b
      BY <1>2, <3>1, OwnedFacts DEF OwnedJob, OneClientPerBranch, Job
    <3>2. ASSUME NEW w \in Workers, job[w].step # "idle", w = v,
                 PutHead(w) \/ PutRow(w) \/ PutBranch(w) \/ PutBranchAgain(w)
          PROVE  job'[v].step # job[v].step
      BY <3>2 DEF PutHead, PutRow, PutBranch, PutBranchAgain, Become, Finish, At, TypeOK, IdleJob, Job
    <3>3. CASE branch' # branch
      <4>1. PICK w \in Workers :
              /\ job[w].step # "idle"
              /\ \E row : branch' = [branch EXCEPT ![job[w].b] = row]
              /\ PutHead(w) \/ PutRow(w) \/ PutBranch(w) \/ PutBranchAgain(w)
        BY <3>3, OneRow
      <4>2. job[w].b # job[v].b
        BY <3>1, <3>2, <4>1
      <4>3. PICK row : branch' = [branch EXCEPT ![job[w].b] = row]
        BY <4>1
      <4> QED BY <4>2, <4>3 DEF TypeOK, Job
    <3> QED BY <3>3
  <2>2. job[v].step = "put_traj" => Below(event', job[v].thead, branch'[Main].head)
    <3>1. branch[Main] # None /\ Main \in Branches
      BY ConstantsOK DEF OwnedInv
    <3>2. Below(event', branch[Main].head, branch'[Main].head)
      BY <3>1, HeadsMoveOn
    <3> QED BY <3>2, BelowStays, BelowTrans DEF OwnedJob
  <2>3. job[v].step \in {"list_keys", "copy_records"} => snapshot'[job[v].s] = snapshot[job[v].s]
    BY DEF CopiersOK, Copying, KeepsHistory, Taken
  <2> QED BY <2>1, <2>2, <2>3 DEF OwnedJob
<1> QED BY <1>1, <1>2

\* The worker that starts a request may rely on what the request has read.
LEMMA StartsOwned ==
  ASSUME OwnedInv, [Next]_vars, NEW w \in Workers, Starts(w)
  PROVE  \E j : Become(w, j) /\ OwnedJob(j, w, event', branch', snapshot')
<1> USE DEF OwnedJob, HoldsRow, Advanced, Versioned
<1>0. UNCHANGED <<event, branch, snapshot>>
  BY OwnedFacts, StartEffect DEF Rows
<1>1. ASSUME NEW b \in Branches, BeginAppend(w, b)
      PROVE  \E j : Become(w, j) /\ OwnedJob(j, w, event', branch', snapshot')
  <2> PICK P \in ParentChoices(branch[b]) :
         Become(w, [IdleJob EXCEPT !.op = "append", !.step = "put_event", !.b = b,
                                   !.row = branch[b], !.parents = P])
    BY <1>1 DEF BeginAppend
  <2> DEFINE j == [IdleJob EXCEPT !.op = "append", !.step = "put_event", !.b = b,
                                   !.row = branch[b], !.parents = P]
  <2>1. OwnedJob(j, w, event', branch', snapshot')
    BY <1>0, <1>1 DEF BeginAppend, IdleJob
  <2> QED BY <2>1
<1>2. ASSUME NEW b \in Branches, BeginSnapshot(w, b)
      PROVE  \E j : Become(w, j) /\ OwnedJob(j, w, event', branch', snapshot')
  <2> DEFINE j == [IdleJob EXCEPT !.op = "snapshot", !.step = "put_snapshot", !.b = b,
                                  !.row = branch[b]]
  <2>1. OwnedJob(j, w, event', branch', snapshot')
    BY <1>0, <1>2 DEF BeginSnapshot, IdleJob
  <2> QED BY <1>2, <2>1 DEF BeginSnapshot
<1>3. ASSUME NEW b \in Branches, BeginVersionSnapshot(w, b)
      PROVE  \E j : Become(w, j) /\ OwnedJob(j, w, event', branch', snapshot')
  <2> DEFINE j == [IdleJob EXCEPT !.op = "version_snapshot", !.step = "put_event", !.b = b,
                                  !.row = branch[b], !.parents = HeadOf(branch[b])]
  <2>1. OwnedJob(j, w, event', branch', snapshot')
    BY <1>0, <1>3 DEF BeginVersionSnapshot, IdleJob
  <2> QED BY <1>3, <2>1 DEF BeginVersionSnapshot
<1>a. ASSUME NEW j, NEW n \in Branches, branch[n] = None, w \in Writers[n], j.b = n,
             j.step \in {"read_base", "put_branch"}
      PROVE  OwnedJob(j, w, event', branch', snapshot')
  BY <1>0, <1>a
<1>b. ASSUME NEW op, NEW n, NEW src, NEW base, NEW s
      PROVE  /\ NewBranchJob(op, n, src, base, s).b = n
             /\ NewBranchJob(op, n, src, base, s).step \in {"read_base", "put_branch"}
  BY DEF NewBranchJob, IdleJob
<1>4. ASSUME NEW n \in Branches, NEW src \in Branches, BeginBranch(w, n, src)
      PROVE  \E j : Become(w, j) /\ OwnedJob(j, w, event', branch', snapshot')
  <2>1. PICK op \in Ops \cap {"branch", "version_branch"}, base \in Stored \cup {None} :
          Become(w, NewBranchJob(op, n, src, base, None))
    BY <1>4 DEF BeginBranch
  <2>2. branch[n] = None /\ w \in Writers[n]
    BY <1>4 DEF BeginBranch, Existing
  <2>3. OwnedJob(NewBranchJob(op, n, src, base, None), w, event', branch', snapshot')
    BY <1>a, <1>b, <2>2
  <2> QED BY <2>1, <2>3
<1>5. ASSUME NEW n \in Branches, NEW s \in Snaps, BeginBranchFromSnapshot(w, n, s)
      PROVE  \E j : Become(w, j) /\ OwnedJob(j, w, event', branch', snapshot')
  <2> DEFINE j == NewBranchJob("version_branch", n, snapshot[s].branch, snapshot[s].event, s)
  <2>1. branch[n] = None /\ w \in Writers[n] /\ Become(w, j)
    BY <1>5 DEF BeginBranchFromSnapshot, Existing
  <2>2. OwnedJob(j, w, event', branch', snapshot')
    BY <1>a, <1>b, <2>1
  <2> QED BY <2>1, <2>2
<1>6. ASSUME NEW n \in Branches, NEW s \in Snaps, BeginRollback(w, n, s)
      PROVE  \E j : Become(w, j) /\ OwnedJob(j, w, event', branch', snapshot')
  <2>1. PICK op \in Ops \cap {"rollback", "version_rollback"} :
          Become(w, [IdleJob EXCEPT !.op = op, !.step = "put_branch", !.b = n,
                                    !.base = snapshot[s].event, !.s = s])
    BY <1>6 DEF BeginRollback
  <2> DEFINE j == [IdleJob EXCEPT !.op = op, !.step = "put_branch", !.b = n,
                                  !.base = snapshot[s].event, !.s = s]
  <2>2. branch[n] = None /\ w \in Writers[n]
    BY <1>6 DEF BeginRollback, Existing
  <2>3. j.b = n /\ j.step = "put_branch"
    BY DEF IdleJob
  <2>4. OwnedJob(j, w, event', branch', snapshot')
    BY <1>a, <2>2, <2>3
  <2> QED BY <2>1, <2>4
<1> QED BY <1>1, <1>2, <1>3, <1>4, <1>5, <1>6 DEF Starts

LEMMA IdleJobOwned == \A w, events, rows, snaps : OwnedJob(IdleJob, w, events, rows, snaps)
  BY DEF IdleJob, OwnedJob, HoldsRow, Advanced, Versioned

LEMMA AppendOwned ==
  ASSUME OwnedInv, [Next]_vars, NEW w \in Workers,
         ReadBranch(w) \/ PutEvent(w) \/ PutHead(w) \/ ReadTrajectory(w) \/ PutTrajectory(w)
  PROVE  \E j : Become(w, j) /\ OwnedJob(j, w, event', branch', snapshot')
<1> USE DEF OwnedJob, HoldsRow, Advanced, Versioned, At
<1>0. /\ TypeOK /\ job[w] \in Job /\ JobOK(job[w], branch) /\ JobEvent(job[w], event)
      /\ OwnedJob(job[w], w, event, branch, snapshot)
      /\ branch[Main] # None /\ Below(event, trajHead, branch[Main].head)
  BY OwnedFacts DEF OwnedInv
<1>1. CASE ReadBranch(w)
  <2> DEFINE j == [job[w] EXCEPT !.step = "put_event", !.row = branch[job[w].b],
                                 !.parents = HeadOf(branch[job[w].b])]
  <2>1. OwnedJob(j, w, event', branch', snapshot')
    BY <1>0, <1>1 DEF ReadBranch, Job
  <2> QED BY <1>1, <2>1 DEF ReadBranch
<1>2. CASE PutEvent(w)
  <2> PICK e \in EventIds : Become(w, [job[w] EXCEPT !.step = "put_head", !.ev = e])
    BY <1>2 DEF PutEvent
  <2> DEFINE j == [job[w] EXCEPT !.step = "put_head", !.ev = e]
  <2>1. OwnedJob(j, w, event', branch', snapshot')
    BY <1>0, <1>2 DEF PutEvent, Job
  <2> QED BY <2>1
<1>3. CASE PutHead(w)
  <2> DEFINE j == [job[w] EXCEPT !.step = "read_traj"]
  <2>1. branch'[job[w].b].head = job[w].ev
    BY <1>0, <1>3 DEF PutHead, Job, Row, TypeOK
  <2>2. OwnedJob(j, w, event', branch', snapshot')
    BY <1>0, <1>3, <2>1 DEF PutHead, Job
  <2> QED BY <1>3, <2>2 DEF PutHead
<1>4. CASE ReadTrajectory(w)
  <2> DEFINE j == [job[w] EXCEPT !.step = "put_traj",
                                 !.thead = IF job[w].b = Main THEN job[w].ev ELSE trajHead]
  <2>1. event' = event /\ branch' = branch /\ snapshot' = snapshot
    BY <1>4 DEF ReadTrajectory
  <2>2. Below(event, j.thead, branch[Main].head)
    BY <1>0, <1>4, BelowItself DEF ReadTrajectory, Job
  <2>3. OwnedJob(j, w, event', branch', snapshot')
    BY <1>0, <1>4, <2>1, <2>2 DEF ReadTrajectory, Job
  <2>4. Become(w, j)
    BY <1>4 DEF ReadTrajectory
  <2> HIDE DEF j, OwnedJob
  <2> QED BY <2>3, <2>4
<1>5. CASE PutTrajectory(w)
  <2> DEFINE j == [job[w] EXCEPT !.step = "read_row"]
  <2>1. OwnedJob(j, w, event', branch', snapshot')
    BY <1>0, <1>5 DEF PutTrajectory, Job
  <2> QED BY <1>5, <2>1, IdleJobOwned DEF PutTrajectory, Finish
<1> QED BY <1>1, <1>2, <1>3, <1>4, <1>5

LEMMA SnapshotOwned ==
  ASSUME OwnedInv, [Next]_vars, NEW w \in Workers,
         \/ ReadRow(w) \/ PutSnapshot(w) \/ ListKeys(w) \/ CopyRecords(w) \/ PutRow(w)
         \/ PutEventAgain(w)
  PROVE  \E j : Become(w, j) /\ OwnedJob(j, w, event', branch', snapshot')
<1> USE DEF OwnedJob, HoldsRow, Advanced, Versioned, At
<1>0. /\ TypeOK /\ job[w] \in Job /\ JobOK(job[w], branch) /\ JobEvent(job[w], event)
      /\ OwnedJob(job[w], w, event, branch, snapshot)
  BY OwnedFacts
<1>1. CASE ReadRow(w)
  <2> DEFINE j == [job[w] EXCEPT !.step = "put_snapshot", !.row = branch[job[w].b]]
  <2>1. OwnedJob(j, w, event', branch', snapshot')
    BY <1>0, <1>1 DEF ReadRow, Job
  <2> QED BY <1>1, <2>1 DEF ReadRow
<1>2. CASE PutSnapshot(w)
  <2> PICK s \in Snaps :
        /\ snapshot' = [snapshot EXCEPT ![s] = [branch |-> job[w].b, event |-> job[w].row.head]]
        /\ Become(w, [job[w] EXCEPT !.step = "list_keys", !.s = s])
    BY <1>2 DEF PutSnapshot
  <2> DEFINE j == [job[w] EXCEPT !.step = "list_keys", !.s = s]
  <2>1. snapshot'[s] = [branch |-> job[w].b, event |-> job[w].row.head]
    BY <1>0 DEF TypeOK
  <2>2. OwnedJob(j, w, event', branch', snapshot')
    BY <1>0, <1>2, <2>1 DEF PutSnapshot, Job
  <2> QED BY <2>2
<1>3. CASE ListKeys(w)
  <2> DEFINE j == [job[w] EXCEPT !.step = "copy_records", !.keys = Stored, !.names = Existing]
  <2>1. job[w].b \in Existing
    BY <1>0, <1>3 DEF ListKeys, JobOK, Existing, Job
  <2>2. OwnedJob(j, w, event', branch', snapshot')
    BY <1>0, <1>3, <2>1 DEF ListKeys, Job
  <2> QED BY <1>3, <2>2 DEF ListKeys
<1>4. CASE CopyRecords(w)
  <2> DEFINE j == [job[w] EXCEPT !.step = "put_row"]
  <2>1. OwnedJob(j, w, event', branch', snapshot')
    BY <1>0, <1>4 DEF CopyRecords, Job
  <2> QED BY <1>4, <2>1 DEF CopyRecords
<1>5. CASE PutRow(w)
  <2> DEFINE j == [job[w] EXCEPT !.step = "put_event_again"]
  <2>1. branch'[job[w].b].head = branch[job[w].b].head
    BY <1>0, <1>5 DEF PutRow, Job, Row, TypeOK
  <2>2. job[w].op = "version_snapshot" => OwnedJob(j, w, event', branch', snapshot')
    BY <1>0, <1>5, <2>1 DEF PutRow, Job
  <2> QED BY <1>5, <2>2, IdleJobOwned DEF PutRow, Finish
<1>6. CASE PutEventAgain(w)
  BY <1>6, IdleJobOwned DEF PutEventAgain, Finish
<1> QED BY <1>1, <1>2, <1>3, <1>4, <1>5, <1>6

LEMMA BranchOwned ==
  ASSUME OwnedInv, [Next]_vars, NEW w \in Workers,
         ReadBase(w) \/ PutBranch(w) \/ PutBranchAgain(w) \/ Abort(w)
  PROVE  \E j : Become(w, j) /\ OwnedJob(j, w, event', branch', snapshot')
<1> USE DEF OwnedJob, HoldsRow, Advanced, Versioned, At
<1>0. /\ TypeOK /\ job[w] \in Job /\ JobOK(job[w], branch)
      /\ OwnedJob(job[w], w, event, branch, snapshot)
  BY OwnedFacts
<1>1. CASE ReadBase(w)
  <2> DEFINE j == [job[w] EXCEPT !.step = "put_branch", !.base = branch[job[w].src].head]
  <2>1. OwnedJob(j, w, event', branch', snapshot')
    BY <1>0, <1>1 DEF ReadBase, Job
  <2> QED BY <1>1, <2>1 DEF ReadBase
<1>2. CASE PutBranch(w)
  <2>1. branch'[job[w].b] = NewRow(job[w])
    BY <1>0, <1>2 DEF PutBranch, Job, TypeOK
  <2>2. ASSUME NEW step \in {"read_branch", "put_branch_again"}
        PROVE  OwnedJob([job[w] EXCEPT !.step = step], w, event', branch', snapshot')
    <3> DEFINE j == [job[w] EXCEPT !.step = step]
    <3>1. j.step = step /\ j.b = job[w].b /\ NewRow(j) = NewRow(job[w])
      BY <1>0 DEF Job, NewRow
    <3> QED BY <1>0, <1>2, <2>1, <3>1 DEF PutBranch
  <2> QED BY <1>2, <2>2, IdleJobOwned DEF PutBranch, Finish
<1>3. CASE PutBranchAgain(w)
  <2> DEFINE j == [job[w] EXCEPT !.step = "read_branch"]
  <2>1. OwnedJob(j, w, event', branch', snapshot')
    BY <1>0, <1>3 DEF PutBranchAgain, Job
  <2> QED BY <1>3, <2>1 DEF PutBranchAgain
<1>4. CASE Abort(w)
  BY <1>4, IdleJobOwned DEF Abort, Finish
<1> QED BY <1>1, <1>2, <1>3, <1>4

LEMMA NextOwnedJobs ==
  ASSUME OneClientPerBranch, OwnedInv, [Next]_vars, NEW v \in Workers
  PROVE  OwnedJob(job'[v], v, event', branch', snapshot')
<1>0. TypeOK
  BY OwnedFacts
<1>1. CASE job'[v] = job[v]
  BY <1>1, OthersKeepRows
<1>2. CASE job'[v] # job[v]
  <2>1. PICK w \in Workers : AppendSteps(w) \/ SnapshotSteps(w) \/ BranchSteps(w) \/ Abort(w)
    BY <1>2 DEF Next, vars
  <2>2. \/ Starts(w)
        \/ ReadBranch(w) \/ PutEvent(w) \/ PutHead(w) \/ ReadTrajectory(w) \/ PutTrajectory(w)
        \/ ReadRow(w) \/ PutSnapshot(w) \/ ListKeys(w) \/ CopyRecords(w) \/ PutRow(w)
        \/ PutEventAgain(w)
        \/ ReadBase(w) \/ PutBranch(w) \/ PutBranchAgain(w) \/ Abort(w)
    BY <2>1 DEF Starts, AppendSteps, SnapshotSteps, BranchSteps
  <2>3. PICK j : Become(w, j) /\ OwnedJob(j, w, event', branch', snapshot')
    BY <2>2, StartsOwned, AppendOwned, SnapshotOwned, BranchOwned
  <2> QED BY <1>0, <1>2, <2>3 DEF Become, TypeOK
<1> QED BY <1>1, <1>2

LEMMA WhoAcknowledges ==
  ASSUME [Next]_vars, acked' # acked
  PROVE  \E w \in Workers : /\ PutTrajectory(w) \/ PutEventAgain(w)
                            /\ acked' = acked \cup {job[w].ev}
                            /\ PutTrajectory(w) => job[w].op # "version_snapshot"
<1>1. PICK w \in Workers : AppendSteps(w) \/ SnapshotSteps(w) \/ BranchSteps(w) \/ Abort(w)
  BY DEF Next, vars
<1>2. CASE AppendSteps(w)
  BY <1>2 DEF AppendSteps, BeginAppend, ReadBranch, PutEvent, PutHead, ReadTrajectory, PutTrajectory
<1>3. CASE SnapshotSteps(w)
  BY <1>3 DEF SnapshotSteps, BeginSnapshot, BeginVersionSnapshot, ReadRow, PutSnapshot, ListKeys,
              CopyRecords, PutRow, PutEventAgain, PutTrajectory, At
<1>4. CASE BranchSteps(w) \/ Abort(w)
  BY <1>4 DEF BranchSteps, BeginBranch, BeginBranchFromSnapshot, BeginRollback, ReadBase,
              PutBranch, PutBranchAgain, Abort
<1> QED BY <1>1, <1>2, <1>3, <1>4

\* A job that acknowledges its event has just made it the head of its branch.
LEMMA NextAckedBelow ==
  ASSUME OwnedInv, [Next]_vars, NEW e \in acked'
  PROVE  /\ event'[e] # None /\ branch'[event'[e].branch] # None
         /\ Below(event', e, branch'[event'[e].branch].head)
<1>0. TypeOK /\ KeepsHistory /\ acked \subseteq EventIds
  BY OwnedFacts DEF TypeOK
<1>1. CASE e \in acked
  <2> DEFINE b == event[e].branch
  <2>1. event[e] # None /\ branch[b] # None /\ Below(event, e, branch[b].head)
    BY <1>1 DEF OwnedInv, AckedBelow
  <2>2. b \in Branches /\ event'[e] # None /\ event'[e].branch = b
    BY <1>0, <1>1, <2>1 DEF KeepsHistory, Stored, TypeOK, Event
  <2>3. branch'[b] # None /\ Below(event', branch[b].head, branch'[b].head)
    BY <2>1, <2>2, HeadsMoveOn
  <2>4. Below(event', e, branch[b].head)
    BY <1>0, <2>1, BelowStays
  <2>5. Below(event', e, branch'[b].head)
    BY <2>3, <2>4, BelowTrans
  <2> QED BY <2>2, <2>3, <2>5
<1>2. CASE e \notin acked
  <2>1. PICK w \in Workers : /\ PutTrajectory(w) \/ PutEventAgain(w)
                             /\ acked' = acked \cup {job[w].ev}
                             /\ PutTrajectory(w) => job[w].op # "version_snapshot"
    BY <1>2, WhoAcknowledges
  <2>2. /\ job[w] \in Job /\ JobOK(job[w], branch) /\ JobEvent(job[w], event)
        /\ OwnedJob(job[w], w, event, branch, snapshot)
    BY OwnedFacts
  <2>3. e = job[w].ev /\ e # None /\ event[e] # None /\ event[e].branch = job[w].b
    BY <1>2, <2>1, <2>2 DEF JobOK, JobEvent, PutTrajectory, PutEventAgain, At
  <2>4. branch' = branch /\ branch[job[w].b] # None
    BY <2>1, <2>2 DEF JobOK, PutTrajectory, PutEventAgain, At
  <2>5. branch[job[w].b].head = e
    <3>1. CASE PutTrajectory(w)
      BY <2>2, <2>3, <3>1 DEF OwnedJob, Advanced, PutTrajectory, At
    <3>2. CASE PutEventAgain(w)
      <4>1. job[w].op = "version_snapshot"
        BY <2>2, <3>2 DEF PutEventAgain, At, JobOK, OwnedJob
      <4> QED BY <2>2, <2>3, <3>2, <4>1 DEF OwnedJob, Advanced, Versioned, PutEventAgain, At
    <3> QED BY <2>1, <3>1, <3>2
  <2>6. e \in Stored /\ event'[e] # None /\ event'[e].branch = job[w].b
    BY <1>0, <2>2, <2>3 DEF KeepsHistory, Stored, Job
  <2> QED BY <2>4, <2>5, <2>6, BelowItself
<1> QED BY <1>1, <1>2

\* The trajectory's head was below the default branch's head when it was read.
LEMMA NextTrajHead ==
  ASSUME OwnedInv, [Next]_vars
  PROVE  branch'[Main] # None /\ Below(event', trajHead', branch'[Main].head)
<1>0. /\ KeepsHistory /\ Main \in Branches /\ branch[Main] # None
      /\ Below(event, trajHead, branch[Main].head)
  BY OwnedFacts, ConstantsOK DEF OwnedInv
<1>1. branch'[Main] # None /\ Below(event', branch[Main].head, branch'[Main].head)
  BY <1>0, HeadsMoveOn
<1>2. Below(event, trajHead', branch[Main].head)
  <2>1. CASE trajHead' = trajHead
    BY <1>0, <2>1
  <2>2. ASSUME NEW w \in Workers, PutTrajectory(w) PROVE Below(event, trajHead', branch[Main].head)
    BY <2>2, OwnedFacts DEF PutTrajectory, At, OwnedJob
  <2> QED BY <2>1, <2>2, WhoWrites
<1> QED BY <1>0, <1>1, <1>2, BelowStays, BelowTrans

\* The row that is copied is still the one whose head the snapshot took.
LEMMA NextRecordMatches ==
  ASSUME OwnedInv, [Next]_vars
  PROVE  RecordMatchesSnapshot'
<1> SUFFICES ASSUME NEW s \in Snaps, record'[s] # None
             PROVE  record'[s].rows[snapshot'[s].branch].head = snapshot'[s].event
  BY DEF RecordMatchesSnapshot
<1>0. TypeOK /\ KeepsHistory /\ CopiersOK
  BY OwnedFacts
<1>1. CASE record[s] # None
  <2>1. record'[s] = record[s] /\ snapshot'[s] = snapshot[s]
    BY <1>0, <1>1 DEF KeepsHistory, CopiersOK, Taken
  <2> QED BY <1>1, <2>1 DEF OwnedInv, RecordMatchesSnapshot
<1>2. CASE record[s] = None
  <2>1. PICK w \in Workers : CopyRecords(w)
    BY <1>2, WhoWrites
  <2>2. /\ job[w] \in Job /\ job[w].step = "copy_records"
        /\ OwnedJob(job[w], w, event, branch, snapshot) /\ snapshot' = snapshot
    BY <2>1, OwnedFacts DEF CopyRecords, At
  <2>3. /\ s = job[w].s
        /\ record'[s].rows = [b \in Branches |-> IF b \in job[w].names THEN branch[b] ELSE None]
    BY <1>0, <1>2, <2>1 DEF CopyRecords, TypeOK
  <2>4. /\ snapshot[s] = [branch |-> job[w].b, event |-> job[w].row.head]
        /\ branch[job[w].b] = job[w].row /\ job[w].b \in job[w].names
    BY <2>2, <2>3 DEF OwnedJob, HoldsRow
  <2> QED BY <2>2, <2>3, <2>4 DEF Job
<1> QED BY <1>1, <1>2

LEMMA InitOwned == Init => OwnedInv
<1> SUFFICES ASSUME Init PROVE OwnedInv
  OBVIOUS
<1>1. \A w \in Workers : OwnedJob(job[w], w, event, branch, snapshot)
  BY IdleJobOwned DEF Init
<1>2. AckedBelow /\ RecordMatchesSnapshot
  BY DEF Init, AckedBelow, RecordMatchesSnapshot
<1>3. branch[Main] # None /\ Below(event, trajHead, branch[Main].head)
  BY ConstantsOK, InitTyped, NoneIsNoRow DEF Init, Below, EmptyRow, Row
<1> QED BY <1>1, <1>2, <1>3, InitBase DEF OwnedInv

LEMMA NextOwned ==
  ~ClientParents /\ OneClientPerBranch /\ OwnedInv /\ [Next]_vars => OwnedInv'
<1> SUFFICES ASSUME ~ClientParents, OneClientPerBranch, OwnedInv, [Next]_vars PROVE OwnedInv'
  OBVIOUS
<1>1. BaseInv'
  BY NextBase DEF OwnedInv
<1>2. \A w \in Workers : OwnedJob(job'[w], w, event', branch', snapshot')
  BY NextOwnedJobs
<1>3. AckedBelow'
  BY NextAckedBelow DEF AckedBelow
<1> QED BY <1>1, <1>2, <1>3, NextTrajHead, NextRecordMatches DEF OwnedInv

\* With one client per branch, an acknowledged event stays in the history of
\* its branch, whatever is appended, snapshotted, rolled back or cut short.
THEOREM AcknowledgedStays ==
  ~ClientParents /\ OneClientPerBranch => (Spec => []AckedOnBranch)
<1> SUFFICES ASSUME ~ClientParents, OneClientPerBranch PROVE Spec => []AckedOnBranch
  OBVIOUS
<1>1. OwnedInv => AckedOnBranch
  BY AncestryOfStored DEF OwnedInv, AckedBelow, AckedOnBranch
<1> QED BY <1>1, InitOwned, NextOwned, PTL DEF Spec

\* With one client per branch, the trajectory's head may lag behind the default
\* branch, but never leaves its history.
THEOREM TrajectoryFollowsMain ==
  ~ClientParents /\ OneClientPerBranch => (Spec => []TrajHeadOnMain)
<1> SUFFICES ASSUME ~ClientParents, OneClientPerBranch PROVE Spec => []TrajHeadOnMain
  OBVIOUS
<1>1. OwnedInv => TrajHeadOnMain
  BY AncestryOfStored DEF OwnedInv, TrajHeadOnMain
<1> QED BY <1>1, InitOwned, NextOwned, PTL DEF Spec

\* With one client per branch, the branch row a snapshot recorded has the head
\* the snapshot names, although the two were read at different times.
THEOREM RecordsMatchSnapshots ==
  ~ClientParents /\ OneClientPerBranch => (Spec => []RecordMatchesSnapshot)
<1> SUFFICES ASSUME ~ClientParents, OneClientPerBranch PROVE Spec => []RecordMatchesSnapshot
  OBVIOUS
<1>1. OwnedInv => RecordMatchesSnapshot
  BY DEF OwnedInv
<1> QED BY <1>1, InitOwned, NextOwned, PTL DEF Spec

(***************************************************************************)
(* The refinement of BranchLog, step by step.                              *)
(***************************************************************************)

\* A put that keeps the parents of events and the base and head of rows is
\* invisible in the log.
LEMMA LogStutters ==
  ASSUME TypeOK, TypeOK',
         event' = event \/ \A e \in EventIds :
           event'[e] = event[e] \/ (event[e] # None /\ event'[e] # None
                                     /\ event'[e].parents = event[e].parents),
         branch' = branch \/ \A b \in Branches :
           branch'[b] = branch[b] \/ (branch[b] # None /\ branch'[b] # None
                                       /\ branch'[b].base = branch[b].base
                                       /\ branch'[b].head = branch[b].head)
  PROVE  UNCHANGED Log!vars
<1>1. ParentsOfStored' = ParentsOfStored
  BY DEF ParentsOfStored
<1>2. Tips' = Tips
  BY DEF Tips, TipOf
<1> QED BY <1>1, <1>2 DEF Log!vars

\* The log after a step of one worker: who may change it, and how.
LEMMA WhoMovesTheLog ==
  ASSUME OwnedInv, [Next]_vars
  PROVE  \/ UNCHANGED Log!vars
         \/ \E w \in Workers : PutEvent(w) \/ PutHead(w) \/ PutBranch(w)
<1>0. TypeOK /\ TypeOK'
  BY OwnedFacts
<1>1. CASE event' = event /\ branch' = branch
  BY <1>0, <1>1, LogStutters
<1>2. ASSUME NEW w \in Workers, PutEventAgain(w) PROVE UNCHANGED Log!vars
  <2>1. /\ job[w] \in Job /\ JobOK(job[w], branch) /\ JobEvent(job[w], event) /\ branch' = branch
        /\ event' = [event EXCEPT ![job[w].ev] = [branch  |-> job[w].b,
                                                  parents |-> job[w].parents,
                                                  snap    |-> job[w].s]]
    BY <1>2, OwnedFacts DEF PutEventAgain
  <2>2. /\ job[w].ev # None /\ event[job[w].ev] # None
        /\ event[job[w].ev].parents = job[w].parents
    BY <1>2, <2>1 DEF PutEventAgain, At, JobOK, JobEvent
  <2>3. \A e \in EventIds :
          event'[e] = event[e] \/ (event[e] # None /\ event'[e] # None
                                    /\ event'[e].parents = event[e].parents)
    <3> SUFFICES ASSUME NEW e \in EventIds, event'[e] # event[e]
                 PROVE  event[e] # None /\ event'[e] # None /\ event'[e].parents = event[e].parents
      OBVIOUS
    <3>1. e = job[w].ev
      BY <1>0, <2>1 DEF TypeOK
    <3>2. event'[e] = [branch |-> job[w].b, parents |-> job[w].parents, snap |-> job[w].s]
      BY <1>0, <2>1, <3>1 DEF TypeOK
    <3>3. event'[e] # None
      BY <2>1, <3>2, NoneIsNoRow DEF Event, Job
    <3> QED BY <2>2, <3>1, <3>2, <3>3
  <2> QED BY <1>0, <2>1, <2>3, LogStutters
<1>3. ASSUME NEW w \in Workers, PutRow(w) \/ PutBranchAgain(w) PROVE UNCHANGED Log!vars
  <2>0. /\ job[w] \in Job /\ JobOK(job[w], branch)
        /\ OwnedJob(job[w], w, event, branch, snapshot) /\ event' = event
    BY <1>3, OwnedFacts DEF PutRow, PutBranchAgain
  <2>1. ASSUME NEW b \in Branches, branch'[b] # branch[b]
        PROVE  /\ branch[b] # None /\ branch'[b] # None
               /\ branch'[b].base = branch[b].base /\ branch'[b].head = branch[b].head
    <3>1. b = job[w].b
      BY <1>0, <1>3, <2>1 DEF PutRow, PutBranchAgain, TypeOK
    <3>2. CASE PutRow(w)
      <4>1. branch[b] = job[w].row /\ branch[b] # None
        BY <2>0, <3>1, <3>2 DEF PutRow, At, JobOK, OwnedJob, HoldsRow
      <4>2. branch'[b] = [job[w].row EXCEPT !.snap = job[w].s]
        BY <1>0, <3>1, <3>2 DEF PutRow, TypeOK
      <4>3. branch'[b] \in Row
        BY <2>0, <4>2 DEF Job, Row
      <4> QED BY <2>0, <4>1, <4>2, <4>3, NoneIsNoRow DEF Job, Row
    <3>3. CASE PutBranchAgain(w)
      BY <1>0, <2>0, <2>1, <3>1, <3>3 DEF PutBranchAgain, At, OwnedJob, TypeOK
    <3> QED BY <1>3, <3>2, <3>3
  <2> QED BY <1>0, <2>0, <2>1, LogStutters
<1> QED BY <1>1, <1>2, <1>3, WhoWrites DEF PutEventAgain, PutEvent, PutHead, PutRow, PutBranch, PutBranchAgain

\* Putting a new event records a child of the tip.
LEMMA PutEventRecords ==
  ASSUME OwnedInv, [Next]_vars, NEW w \in Workers, PutEvent(w)
  PROVE  \E e \in EventIds : Log!Record(job[w].b, e)
<1>0. /\ TypeOK /\ job[w] \in Job /\ JobOK(job[w], branch) /\ DefaultParents(job[w])
      /\ OwnedJob(job[w], w, event, branch, snapshot)
  BY OwnedFacts
<1> DEFINE b == job[w].b
<1>1. branch' = branch /\ branch[b] = job[w].row /\ branch[b] # None
      /\ job[w].parents = HeadOf(branch[b])
  BY <1>0 DEF PutEvent, At, JobOK, OwnedJob, HoldsRow, DefaultParents
<1>2. PICK e \in EventIds \ Stored :
        event' = [event EXCEPT ![e] = [branch |-> b, parents |-> job[w].parents, snap |-> None]]
  BY DEF PutEvent
<1>3. event'[e] = [branch |-> b, parents |-> job[w].parents, snap |-> None] /\ event'[e] # None
  BY <1>0, <1>2, NoneIsNoRow DEF TypeOK, Event, Job
<1>4. ParentsOfStored' = [ParentsOfStored EXCEPT ![e] = HeadOf(branch[b])]
  BY <1>0, <1>1, <1>2, <1>3 DEF ParentsOfStored, TypeOK
<1>5. ParentsOfStored[e] = None
  BY <1>2 DEF ParentsOfStored, Stored
<1>6. Tips[b] # None /\ Tips[b].head = branch[b].head /\ Tips' = Tips
  BY <1>0, <1>1, NoneIsNoTip DEF Tips, TipOf, TypeOK, Row, Job
<1> QED BY <1>4, <1>5, <1>6 DEF Log!Record, HeadOf

\* Putting the row after its event advances the tip to that event.
LEMMA PutHeadAdvances ==
  ASSUME OwnedInv, [Next]_vars, NEW w \in Workers, PutHead(w)
  PROVE  Log!Advance(job[w].b, job[w].ev) /\ job[w].ev \in EventIds
<1>0. /\ TypeOK /\ TypeOK' /\ job[w] \in Job /\ JobOK(job[w], branch) /\ DefaultParents(job[w])
      /\ JobEvent(job[w], event) /\ OwnedJob(job[w], w, event, branch, snapshot)
  BY OwnedFacts
<1> DEFINE b == job[w].b  e == job[w].ev
<1>1. /\ event' = event /\ branch[b] = job[w].row /\ branch[b] # None
      /\ e \in EventIds /\ event[e] # None /\ event[e].parents = HeadOf(branch[b])
  BY <1>0 DEF PutHead, At, JobOK, JobEvent, OwnedJob, HoldsRow, DefaultParents, Job
<1>2. ParentsOfStored[e] = HeadOf(branch[b]) /\ ParentsOfStored' = ParentsOfStored
  BY <1>1 DEF ParentsOfStored
<1>3. HeadOf(branch[b]) # None
  BY <1>0, <1>1, NoneIsNoTip DEF TypeOK, Event
<1>4. Tips[b] # None /\ Tips[b].head = branch[b].head
  BY <1>0, <1>1, NoneIsNoTip DEF Tips, TipOf, TypeOK, Row, Job
<1>5. Tips' = [Tips EXCEPT ![b].head = e]
  <2>1. branch' = [branch EXCEPT ![b] = [branch[b] EXCEPT !.head = e]]
    BY <1>1 DEF PutHead
  <2>2. branch[b] \in Row /\ b \in Branches
    BY <1>0, <1>1 DEF TypeOK, Job
  <2>3. branch'[b] = [branch[b] EXCEPT !.head = e] /\ branch'[b] # None
    BY <1>0, <2>1, <2>2, NoneIsNoRow, <1>1 DEF TypeOK, Row
  <2>4. TipOf(branch'[b]) = [TipOf(branch[b]) EXCEPT !.head = e]
    BY <1>1, <2>2, <2>3 DEF TipOf, Row
  <2>5. \A c \in Branches : c # b => branch'[c] = branch[c]
    BY <1>0, <2>1 DEF TypeOK
  <2> QED BY <2>2, <2>4, <2>5 DEF Tips
<1> QED BY <1>1, <1>2, <1>3, <1>4, <1>5 DEF Log!Advance, HeadOf

\* Putting a new row forks: its base is stored, and its name still free.
LEMMA PutBranchForks ==
  ASSUME OwnedInv, [Next]_vars, NEW w \in Workers, PutBranch(w)
  PROVE  Log!Fork(job[w].b, job[w].base) /\ job[w].base \in EventIds \cup {None}
<1>0. /\ TypeOK /\ TypeOK' /\ job[w] \in Job /\ JobRef(job[w], event)
      /\ OwnedJob(job[w], w, event, branch, snapshot)
  BY OwnedFacts
<1> DEFINE b == job[w].b  e == job[w].base
<1>1. /\ event' = event /\ branch[b] = None /\ b \in Branches /\ e \in EventIds \cup {None}
      /\ branch' = [branch EXCEPT ![b] = NewRow(job[w])]
      /\ e # None => event[e] # None
  BY <1>0 DEF PutBranch, At, JobRef, OwnedJob, Job
<1>2. e # None => ParentsOfStored[e] # None
  BY <1>0, <1>1, NoneIsNoTip DEF ParentsOfStored, TypeOK, Event
<1>3. ParentsOfStored' = ParentsOfStored
  BY <1>1 DEF ParentsOfStored
<1>4. Tips[b] = None
  BY <1>1 DEF Tips, TipOf
<1>5. Tips' = [Tips EXCEPT ![b] = [base |-> e, head |-> e]]
  <2>1. branch'[b] = NewRow(job[w]) /\ \A c \in Branches : c # b => branch'[c] = branch[c]
    BY <1>0, <1>1 DEF TypeOK
  <2>2. NewRow(job[w]) \in Row
    BY <1>0 DEF NewRow, Row, Job
  <2>3. TipOf(branch'[b]) = [base |-> e, head |-> e]
    BY <2>1, <2>2, NoneIsNoRow DEF TipOf, NewRow
  <2>4. \A c \in Branches : c # b => TipOf(branch'[c]) = TipOf(branch[c])
    BY <2>1
  <2> HIDE DEF b, e
  <2> QED BY <1>1, <2>3, <2>4 DEF Tips
<1> QED BY <1>1, <1>2, <1>3, <1>4, <1>5 DEF Log!Fork

LEMMA StepRefines ==
  ASSUME OwnedInv, [Next]_vars
  PROVE  [Log!Next]_(Log!vars)
<1>1. ASSUME NEW w \in Workers, PutEvent(w) \/ PutHead(w) \/ PutBranch(w)
      PROVE  Log!Next
  <2>1. job[w].b \in Branches
    BY OwnedFacts DEF Job
  <2> QED BY <1>1, <2>1, PutEventRecords, PutHeadAdvances, PutBranchForks DEF Log!Next
<1> QED BY <1>1, WhoMovesTheLog

LEMMA InitRefines == Init => Log!Init
<1> SUFFICES ASSUME Init PROVE Log!Init
  OBVIOUS
<1>1. ParentsOfStored = [e \in EventIds |-> None]
  BY DEF Init, ParentsOfStored
<1>2. EmptyRow # None
  BY ConstantsOK, NoneIsNoRow DEF EmptyRow, Row
<1>3. Tips = [b \in Branches |-> IF b = Main THEN [base |-> None, head |-> None] ELSE None]
  BY <1>2 DEF Init, Tips, TipOf, EmptyRow
<1> QED BY <1>1, <1>3 DEF Log!Init

\* With one client per branch that lets append_event choose the parents, the
\* put-by-put trajectory implements the append-only log with tips.
THEOREM ImplementsBranchLog ==
  ~ClientParents /\ OneClientPerBranch => (Spec => RefinesBranchLog)
<1> SUFFICES ASSUME ~ClientParents, OneClientPerBranch PROVE Spec => RefinesBranchLog
  OBVIOUS
<1>1. Init => OwnedInv /\ Log!Init
  BY InitOwned, InitRefines
<1>2. OwnedInv /\ [Next]_vars => OwnedInv' /\ [Log!Next]_(Log!vars)
  BY NextOwned, StepRefines
<1> QED BY <1>1, <1>2, PTL DEF Spec, RefinesBranchLog, Log!Spec
=============================================================================
