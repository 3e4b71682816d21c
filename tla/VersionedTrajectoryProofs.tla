---------------------- MODULE VersionedTrajectoryProofs ----------------------
(* Theorems about VersionedTrajectory, for any constants. *)
EXTENDS VersionedTrajectory, TLAPS

(***************************************************************************)
(* Type correctness.  Requests read rows without checking that they are    *)
(* there, at steps that only a stored branch leads to, so the type         *)
(* invariant is inductive only together with that.                         *)
(***************************************************************************)

\* A job past its lookup works on a stored branch, and names its event once
\* it has put it.
JobOK(j, rows) ==
  /\ j \in Job
  /\ j.step \notin {"idle", "read_base", "put_branch"} => rows[j.b] # None
  /\ j.step = "read_base" => rows[j.src] # None
  /\ \/ j.step \in {"put_head", "read_traj", "put_traj", "put_event_again"}
     \/ j.op = "version_snapshot" /\ j.step # "put_event"
     => j.ev # None

JobsOK == \A w \in Workers : JobOK(job[w], branch)

\* Branches are never removed, so a snapshot's branch is there.
SnapshotsOK == \A s \in Taken : branch[snapshot[s].branch] # None

TypeInv == TypeOK /\ JobsOK /\ SnapshotsOK

\* What a step that changes one job keeps, if it also leaves the snapshots alone.
JobsKept ==
  /\ job' \in [Workers -> Job]
  /\ JobsOK'
  /\ snapshot' = snapshot => SnapshotsOK'

LEMMA IdleJobOK == \A rows : JobOK(IdleJob, rows)
  BY ConstantsOK DEF IdleJob, Job, EmptyRow, Row, Steps, OpNames, JobOK

\* A step that replaces one job and loses no branch has to show the new job
\* well-formed.
LEMMA JobStep ==
  ASSUME TypeInv, NEW w \in Workers, NEW j, Become(w, j), JobOK(j, branch'),
         \A b \in Branches : branch[b] # None => branch'[b] # None
  PROVE  JobsKept
<1>1. job' \in [Workers -> Job]
  BY DEF TypeInv, TypeOK, Become, JobOK
<1>2. ASSUME NEW v \in Workers PROVE JobOK(job'[v], branch')
  <2>1. CASE v = w
    BY <2>1 DEF TypeInv, TypeOK, Become
  <2>2. CASE v # w
    <3>1. job'[v] = job[v] /\ JobOK(job[v], branch)
      BY <2>2 DEF TypeInv, TypeOK, Become, JobsOK
    <3> QED BY <3>1 DEF JobOK, Job
  <2> QED BY <2>1, <2>2
<1>3. snapshot' = snapshot => SnapshotsOK'
  BY DEF TypeInv, TypeOK, SnapshotsOK, Taken, Snapshot
<1> QED BY <1>1, <1>2, <1>3 DEF JobsOK, JobsKept

LEMMA FinishStep ==
  ASSUME TypeInv, NEW w \in Workers, Finish(w),
         \A b \in Branches : branch[b] # None => branch'[b] # None
  PROVE  JobsKept
  BY JobStep, IdleJobOK DEF Finish

LEMMA InitTyped == Init => TypeInv
<1> SUFFICES ASSUME Init PROVE TypeInv
  OBVIOUS
<1>1. TypeOK
  BY ConstantsOK, IdleJobOK DEF Init, TypeOK, Row, EmptyRow, JobOK
<1>2. JobsOK
  BY IdleJobOK DEF Init, JobsOK
<1>3. SnapshotsOK
  BY DEF Init, SnapshotsOK, Taken
<1> QED BY <1>1, <1>2, <1>3 DEF TypeInv

LEMMA AppendTyped ==
  ASSUME TypeInv, NEW w \in Workers, AppendSteps(w)
  PROVE  TypeInv'
<1> USE ConstantsOK, NoneIsNoRow
<1>0. TypeOK /\ job[w] \in Job /\ JobOK(job[w], branch)
  BY DEF TypeInv, JobsOK, JobOK
<1>1. ASSUME NEW b \in Branches, BeginAppend(w, b) PROVE TypeInv'
  <2> PICK P \in ParentChoices(branch[b]) :
         Become(w, [IdleJob EXCEPT !.op = "append", !.step = "put_event", !.b = b,
                                   !.row = branch[b], !.parents = P])
    BY <1>1 DEF BeginAppend
  <2> DEFINE j == [IdleJob EXCEPT !.op = "append", !.step = "put_event", !.b = b,
                                   !.row = branch[b], !.parents = P]
  <2>1. branch[b] \in Row /\ branch[b] # None
    BY <1>0, <1>1 DEF BeginAppend, Existing, TypeOK
  <2>2. P \in SUBSET EventIds
    BY <2>1 DEF ParentChoices, HeadOf, Row, Stored
  <2>3. JobOK(j, branch')
    BY <1>1, <2>1, <2>2, IdleJobOK DEF Job, IdleJob, Steps, OpNames, BeginAppend, JobOK
  <2> QED BY <1>0, <1>1, <2>3, JobStep DEF BeginAppend, TypeInv, TypeOK, JobsKept
<1>2. CASE ReadBranch(w)
  <2> DEFINE j == [job[w] EXCEPT !.step = "put_event", !.row = branch[job[w].b],
                                 !.parents = HeadOf(branch[job[w].b])]
  <2>1. branch[job[w].b] \in Row
    BY <1>0, <1>2 DEF ReadBranch, At, JobOK, TypeOK, Job
  <2>2. JobOK(j, branch')
    BY <1>0, <1>2, <2>1 DEF ReadBranch, At, JobOK, Job, Row, Steps, HeadOf
  <2> QED BY <1>0, <1>2, <2>2, JobStep DEF ReadBranch, TypeInv, TypeOK, JobsKept
<1>3. CASE PutEvent(w)
  <2> PICK e \in EventIds \ Stored :
        /\ event' = [event EXCEPT ![e] = [branch  |-> job[w].b,
                                          parents |-> job[w].parents,
                                          snap    |-> None]]
        /\ Become(w, [job[w] EXCEPT !.step = "put_head", !.ev = e])
    BY <1>3 DEF PutEvent
  <2> DEFINE j == [job[w] EXCEPT !.step = "put_head", !.ev = e]
  <2>1. JobOK(j, branch')
    BY <1>0, <1>3 DEF PutEvent, At, JobOK, Job, Steps
  <2>2. event' \in [EventIds -> Event \cup {None}]
    BY <1>0 DEF TypeOK, Event, Job
  <2> QED BY <1>0, <1>3, <2>1, <2>2, JobStep DEF PutEvent, TypeInv, TypeOK, JobsKept
<1>4. CASE PutHead(w)
  <2> DEFINE j == [job[w] EXCEPT !.step = "read_traj"]
  <2>0. [job[w].row EXCEPT !.head = job[w].ev] \in Row
    BY <1>0 DEF Job, Row
  <2>1. /\ branch' \in [Branches -> Row \cup {None}]
        /\ \A b \in Branches : b = job[w].b \/ branch[b] # None => branch'[b] # None
    BY <1>0, <1>4, <2>0 DEF PutHead, TypeOK
  <2>2. JobOK(j, branch') /\ Become(w, j)
    BY <1>0, <1>4, <2>1 DEF PutHead, At, JobOK, Job, Steps
  <2>3. JobsKept
    BY <2>1, <2>2, JobStep
  <2> QED BY <1>0, <1>4, <2>1, <2>3 DEF PutHead, TypeInv, TypeOK, JobsKept
<1>5. CASE ReadTrajectory(w)
  <2> DEFINE j == [job[w] EXCEPT !.step = "put_traj",
                              !.thead = IF job[w].b = Main THEN job[w].ev ELSE trajHead]
  <2>1. At(w, "read_traj") /\ trajHead \in EventIds \cup {None} /\ branch' = branch
    BY <1>0, <1>5 DEF ReadTrajectory, TypeOK
  <2>2. JobOK(j, branch')
    BY <1>0, <2>1 DEF At, JobOK, Job, Steps
  <2> QED BY <1>0, <1>5, <2>2, JobStep DEF ReadTrajectory, TypeInv, TypeOK, JobsKept
<1>6. CASE PutTrajectory(w)
  <2> DEFINE j == [job[w] EXCEPT !.step = "read_row"]
  <2>1. trajHead' \in EventIds \cup {None} /\ acked' \in SUBSET EventIds
    BY <1>0, <1>6 DEF PutTrajectory, TypeOK, Job, JobOK, At
  <2>2. JobOK(j, branch')
    BY <1>0, <1>6 DEF PutTrajectory, At, JobOK, Job, Steps
  <2>3. JobsKept
    BY <1>6, <2>2, JobStep, FinishStep DEF PutTrajectory
  <2> QED BY <1>0, <1>6, <2>1, <2>3 DEF PutTrajectory, TypeInv, TypeOK, JobsKept
<1> QED BY <1>1, <1>2, <1>3, <1>4, <1>5, <1>6 DEF AppendSteps

LEMMA SnapshotTyped ==
  ASSUME TypeInv, NEW w \in Workers, SnapshotSteps(w)
  PROVE  TypeInv'
<1> USE ConstantsOK, NoneIsNoRow
<1>0. TypeOK /\ job[w] \in Job /\ JobOK(job[w], branch)
  BY DEF TypeInv, JobsOK, JobOK
<1>1. ASSUME NEW b \in Branches, BeginSnapshot(w, b) PROVE TypeInv'
  <2> DEFINE j == [IdleJob EXCEPT !.op = "snapshot", !.step = "put_snapshot", !.b = b,
                                  !.row = branch[b]]
  <2>1. branch[b] \in Row /\ branch[b] # None
    BY <1>0, <1>1 DEF BeginSnapshot, Existing, TypeOK
  <2>2. JobOK(j, branch')
    BY <1>1, <2>1, IdleJobOK DEF Job, IdleJob, Steps, OpNames, BeginSnapshot, JobOK
  <2> QED BY <1>0, <1>1, <2>2, JobStep DEF BeginSnapshot, TypeInv, TypeOK, JobsKept
<1>2. ASSUME NEW b \in Branches, BeginVersionSnapshot(w, b) PROVE TypeInv'
  <2> DEFINE j == [IdleJob EXCEPT !.op = "version_snapshot", !.step = "put_event", !.b = b,
                                  !.row = branch[b], !.parents = HeadOf(branch[b])]
  <2>1. branch[b] \in Row /\ branch[b] # None
    BY <1>0, <1>2 DEF BeginVersionSnapshot, Existing, TypeOK
  <2>2. JobOK(j, branch')
    BY <1>2, <2>1, IdleJobOK
    DEF Job, IdleJob, Steps, OpNames, BeginVersionSnapshot, JobOK, HeadOf, Row
  <2> QED BY <1>0, <1>2, <2>2, JobStep DEF BeginVersionSnapshot, TypeInv, TypeOK, JobsKept
<1>3. CASE ReadRow(w)
  <2> DEFINE j == [job[w] EXCEPT !.step = "put_snapshot", !.row = branch[job[w].b]]
  <2>1. branch[job[w].b] \in Row
    BY <1>0, <1>3 DEF ReadRow, At, JobOK, TypeOK, Job
  <2>2. JobOK(j, branch')
    BY <1>0, <1>3, <2>1 DEF ReadRow, At, JobOK, Job, Steps
  <2> QED BY <1>0, <1>3, <2>2, JobStep DEF ReadRow, TypeInv, TypeOK, JobsKept
<1>4. CASE PutSnapshot(w)
  <2> PICK s \in Snaps \ Taken :
        /\ snapshot' = [snapshot EXCEPT ![s] = [branch |-> job[w].b, event |-> job[w].row.head]]
        /\ Become(w, [job[w] EXCEPT !.step = "list_keys", !.s = s])
    BY <1>4 DEF PutSnapshot
  <2> DEFINE j == [job[w] EXCEPT !.step = "list_keys", !.s = s]
  <2>1. JobOK(j, branch')
    BY <1>0, <1>4 DEF PutSnapshot, At, JobOK, Job, Steps
  <2>2. snapshot' \in [Snaps -> Snapshot \cup {None}]
    BY <1>0 DEF TypeOK, Snapshot, Job, Row
  <2>3. JobsKept
    BY <1>4, <2>1, JobStep DEF PutSnapshot
  <2>4. SnapshotsOK'
    BY <1>0, <1>4 DEF TypeInv, SnapshotsOK, Taken, JobOK, At, PutSnapshot, TypeOK, Job
  <2> QED BY <1>0, <1>4, <2>2, <2>3, <2>4 DEF PutSnapshot, TypeInv, TypeOK, JobsKept
<1>5. CASE ListKeys(w)
  <2> DEFINE j == [job[w] EXCEPT !.step = "copy_records", !.keys = Stored, !.names = Existing]
  <2>1. JobOK(j, branch')
    BY <1>0, <1>5 DEF ListKeys, At, JobOK, Job, Steps, Stored, Existing
  <2> QED BY <1>0, <1>5, <2>1, JobStep DEF ListKeys, TypeInv, TypeOK, JobsKept
<1>6. CASE CopyRecords(w)
  <2> DEFINE j == [job[w] EXCEPT !.step = "put_row"]
             r == [events |-> job[w].keys,
                   rows |-> [b \in Branches |-> IF b \in job[w].names THEN branch[b] ELSE None]]
  <2>1. JobOK(j, branch')
    BY <1>0, <1>6 DEF CopyRecords, At, JobOK, Job, Steps
  <2>2. r \in Record
    BY <1>0 DEF TypeOK, Record, Job
  <2>3. record' \in [Snaps -> Record \cup {None}]
    BY <1>0, <1>6, <2>2 DEF CopyRecords, TypeOK
  <2> QED BY <1>0, <1>6, <2>1, <2>3, JobStep DEF CopyRecords, TypeInv, TypeOK, JobsKept
<1>7. CASE PutRow(w)
  <2> DEFINE j == [job[w] EXCEPT !.step = "put_event_again"]
  <2>0. [job[w].row EXCEPT !.snap = job[w].s] \in Row
    BY <1>0 DEF Job, Row
  <2>1. /\ branch' \in [Branches -> Row \cup {None}]
        /\ \A b \in Branches : b = job[w].b \/ branch[b] # None => branch'[b] # None
    BY <1>0, <1>7, <2>0 DEF PutRow, TypeOK
  <2>2. At(w, "put_row")
    BY <1>7 DEF PutRow
  <2>3. job[w].op = "version_snapshot" => JobOK(j, branch')
    BY <1>0, <2>1, <2>2 DEF At, JobOK, Job, Steps
  <2>4. JobsKept
    BY <1>7, <2>1, <2>3, JobStep, FinishStep DEF PutRow
  <2> QED BY <1>0, <1>7, <2>1, <2>4 DEF PutRow, TypeInv, TypeOK, JobsKept
<1>8. CASE PutEventAgain(w)
  <2>1. event' \in [EventIds -> Event \cup {None}]
    BY <1>0, <1>8 DEF PutEventAgain, TypeOK, Event, Job
  <2>2. acked' \in SUBSET EventIds
    BY <1>0, <1>8 DEF PutEventAgain, TypeOK, Job, JobOK, At
  <2>3. JobsKept
    BY <1>8, FinishStep DEF PutEventAgain
  <2> QED BY <1>0, <1>8, <2>1, <2>2, <2>3 DEF PutEventAgain, TypeInv, TypeOK, JobsKept
<1> QED BY <1>1, <1>2, <1>3, <1>4, <1>5, <1>6, <1>7, <1>8 DEF SnapshotSteps

LEMMA BranchTyped ==
  ASSUME TypeInv, NEW w \in Workers, BranchSteps(w)
  PROVE  TypeInv'
<1> USE ConstantsOK, NoneIsNoRow
<1>0. TypeOK /\ job[w] \in Job /\ JobOK(job[w], branch)
  BY DEF TypeInv, JobsOK, JobOK
<1>a. ASSUME NEW op \in {"branch", "version_branch"}, NEW n \in Branches, NEW src \in Branches,
             NEW base \in EventIds \cup {None}, NEW s \in Snaps \cup {None}, branch[src] # None
      PROVE  JobOK(NewBranchJob(op, n, src, base, s), branch)
  <2> DEFINE j(step) == [IdleJob EXCEPT !.op = op, !.b = n, !.src = src, !.base = base, !.s = s,
                                        !.step = step]
  <2>1. JobOK(j("read_base"), branch) /\ JobOK(j("put_branch"), branch)
    BY IdleJobOK, <1>a DEF JobOK, Job, IdleJob, Steps, OpNames
  <2> QED BY <2>1 DEF NewBranchJob
<1>1. ASSUME NEW n \in Branches, NEW src \in Branches, BeginBranch(w, n, src) PROVE TypeInv'
  <2> PICK op \in Ops \cap {"branch", "version_branch"}, base \in Stored \cup {None} :
        Become(w, NewBranchJob(op, n, src, base, None))
    BY <1>1 DEF BeginBranch
  <2>1. JobOK(NewBranchJob(op, n, src, base, None), branch')
    BY <1>1, <1>a DEF BeginBranch, Stored, Existing
  <2> QED BY <1>0, <1>1, <2>1, JobStep DEF BeginBranch, TypeInv, TypeOK, JobsKept
<1>2. ASSUME NEW n \in Branches, NEW s \in Snaps, BeginBranchFromSnapshot(w, n, s) PROVE TypeInv'
  <2>1. snapshot[s] \in Snapshot /\ branch[snapshot[s].branch] # None
    BY <1>0, <1>2 DEF BeginBranchFromSnapshot, Taken, TypeOK, TypeInv, SnapshotsOK
  <2>2. JobOK(NewBranchJob("version_branch", n, snapshot[s].branch, snapshot[s].event, s), branch')
    BY <1>2, <1>a, <2>1 DEF BeginBranchFromSnapshot, Snapshot
  <2> QED BY <1>0, <1>2, <2>2, JobStep DEF BeginBranchFromSnapshot, TypeInv, TypeOK, JobsKept
<1>3. ASSUME NEW n \in Branches, NEW s \in Snaps, BeginRollback(w, n, s) PROVE TypeInv'
  <2> PICK op \in Ops \cap {"rollback", "version_rollback"} :
        Become(w, [IdleJob EXCEPT !.op = op, !.step = "put_branch", !.b = n,
                                  !.base = snapshot[s].event, !.s = s])
    BY <1>3 DEF BeginRollback
  <2> DEFINE j == [IdleJob EXCEPT !.op = op, !.step = "put_branch", !.b = n,
                                  !.base = snapshot[s].event, !.s = s]
  <2>1. snapshot[s] \in Snapshot
    BY <1>0, <1>3 DEF BeginRollback, Taken, TypeOK
  <2>2. JobOK(j, branch')
    BY <2>1, IdleJobOK DEF Job, IdleJob, Steps, OpNames, JobOK, Snapshot
  <2> QED BY <1>0, <1>3, <2>2, JobStep DEF BeginRollback, TypeInv, TypeOK, JobsKept
<1>4. CASE ReadBase(w)
  <2> DEFINE j == [job[w] EXCEPT !.step = "put_branch", !.base = branch[job[w].src].head]
  <2>1. branch[job[w].src] \in Row
    BY <1>0, <1>4 DEF ReadBase, At, JobOK, TypeOK, Job
  <2>2. JobOK(j, branch')
    BY <1>0, <1>4, <2>1 DEF ReadBase, At, JobOK, Job, Row, Steps
  <2> QED BY <1>0, <1>4, <2>2, JobStep DEF ReadBase, TypeInv, TypeOK, JobsKept
<1>b. NewRow(job[w]) \in Row
  BY <1>0 DEF NewRow, Row, Job
<1>5. CASE PutBranch(w)
  <2>1. /\ branch' \in [Branches -> Row \cup {None}]
        /\ \A b \in Branches : b = job[w].b \/ branch[b] # None => branch'[b] # None
    BY <1>0, <1>5, <1>b DEF PutBranch, TypeOK
  <2>2. ASSUME NEW next \in {"read_branch", "put_branch_again"}, job[w].op # "version_snapshot"
        PROVE JobOK([job[w] EXCEPT !.step = next], branch')
    BY <1>0, <2>1, <2>2 DEF JobOK, Job, Steps
  <2>3. JobsKept
    <3>1. CASE job[w].op = "version_branch"
      BY <1>5, <2>1, <2>2, <3>1, JobStep DEF PutBranch
    <3>2. CASE job[w].op = "version_rollback"
      BY <1>5, <2>1, <2>2, <3>2, JobStep DEF PutBranch
    <3>3. CASE job[w].op \notin {"version_branch", "version_rollback"}
      BY <1>5, <2>1, <3>3, FinishStep DEF PutBranch
    <3> QED BY <3>1, <3>2, <3>3
  <2> QED BY <1>0, <1>5, <2>1, <2>3 DEF PutBranch, TypeInv, TypeOK, JobsKept
<1>6. CASE PutBranchAgain(w)
  <2> DEFINE j == [job[w] EXCEPT !.step = "read_branch"]
  <2>1. /\ branch' \in [Branches -> Row \cup {None}]
        /\ \A b \in Branches : b = job[w].b \/ branch[b] # None => branch'[b] # None
    BY <1>0, <1>6, <1>b DEF PutBranchAgain, TypeOK
  <2>2. JobOK(j, branch')
    BY <1>0, <1>6, <2>1 DEF PutBranchAgain, At, JobOK, Job, Steps
  <2>3. JobsKept
    BY <1>6, <2>1, <2>2, JobStep DEF PutBranchAgain
  <2> QED BY <1>0, <1>6, <2>1, <2>3 DEF PutBranchAgain, TypeInv, TypeOK, JobsKept
<1> QED BY <1>1, <1>2, <1>3, <1>4, <1>5, <1>6 DEF BranchSteps

LEMMA NextTyped == TypeInv /\ [Next]_vars => TypeInv'
<1> SUFFICES ASSUME TypeInv, [Next]_vars PROVE TypeInv'
  OBVIOUS
<1>1. ASSUME NEW w \in Workers, Abort(w) PROVE TypeInv'
  <2>1. JobsKept
    BY <1>1, FinishStep DEF Abort
  <2> QED BY <1>1, <2>1 DEF Abort, TypeInv, TypeOK, JobsKept
<1>2. CASE UNCHANGED vars
  BY <1>2 DEF vars, TypeInv, TypeOK, JobsOK, SnapshotsOK, Taken
<1> QED BY <1>1, <1>2, AppendTyped, SnapshotTyped, BranchTyped DEF Next

\* In every reachable state every row and every request in progress has the
\* shape the code gives it.
THEOREM TypeCorrect == Spec => []TypeOK
<1>1. TypeInv => TypeOK
  BY DEF TypeInv
<1> QED BY <1>1, InitTyped, NextTyped, PTL DEF Spec

(***************************************************************************)
(* History.  A request puts its event back as it put it first, and copies  *)
(* into the record of a snapshot only it has made.                         *)
(***************************************************************************)

\* A job that has put its event keeps the branch and the parents it stored.
JobEvent(j, events) ==
  /\ j.step \in {"read_base", "put_branch", "put_branch_again", "read_branch"} => j.ev = None
  /\ j.ev # None => /\ events[j.ev] # None
                    /\ events[j.ev].branch = j.b
                    /\ events[j.ev].parents = j.parents

JobEvents == \A w \in Workers : JobEvent(job[w], event)

Copying(w) == job[w].step \in {"list_keys", "copy_records"}

\* A snapshot without its record belongs to one copying request at most.
CopiersOK ==
  /\ \A w \in Workers : Copying(w) =>
       job[w].s \in Snaps /\ snapshot[job[w].s] # None /\ record[job[w].s] = None
  /\ \A v, w \in Workers : v # w /\ Copying(v) /\ Copying(w) => job[v].s # job[w].s
  /\ \A s \in Snaps : record[s] # None => snapshot[s] # None

HistoryInv == TypeInv /\ JobEvents /\ CopiersOK

\* Which steps write which rows.
LEMMA WhoWrites ==
  ASSUME [Next]_vars
  PROVE  /\ event' = event \/ \E w \in Workers : PutEvent(w) \/ PutEventAgain(w)
         /\ branch' = branch \/ \E w \in Workers :
              PutHead(w) \/ PutRow(w) \/ PutBranch(w) \/ PutBranchAgain(w)
         /\ trajHead' = trajHead \/ \E w \in Workers : PutTrajectory(w)
         /\ snapshot' = snapshot \/ \E w \in Workers : PutSnapshot(w)
         /\ record' = record \/ \E w \in Workers : CopyRecords(w)
<1>1. ASSUME NEW w \in Workers, AppendSteps(w)
      PROVE  /\ event' = event \/ PutEvent(w)
             /\ branch' = branch \/ PutHead(w)
             /\ trajHead' = trajHead \/ PutTrajectory(w)
             /\ UNCHANGED <<snapshot, record>>
  BY <1>1 DEF AppendSteps, BeginAppend, ReadBranch, PutEvent, PutHead, ReadTrajectory,
              PutTrajectory
<1>2. ASSUME NEW w \in Workers, SnapshotSteps(w)
      PROVE  /\ event' = event \/ PutEventAgain(w)
             /\ branch' = branch \/ PutRow(w)
             /\ snapshot' = snapshot \/ PutSnapshot(w)
             /\ record' = record \/ CopyRecords(w)
             /\ UNCHANGED trajHead
  BY <1>2 DEF SnapshotSteps, BeginSnapshot, BeginVersionSnapshot, ReadRow, PutSnapshot, ListKeys,
              CopyRecords, PutRow, PutEventAgain
<1>3. ASSUME NEW w \in Workers, BranchSteps(w)
      PROVE  /\ branch' = branch \/ PutBranch(w) \/ PutBranchAgain(w)
             /\ UNCHANGED <<event, trajHead, snapshot, record>>
  BY <1>3 DEF BranchSteps, BeginBranch, BeginBranchFromSnapshot, BeginRollback, ReadBase,
              PutBranch, PutBranchAgain
<1>4. ASSUME NEW w \in Workers, Abort(w)
      PROVE  UNCHANGED <<event, branch, trajHead, snapshot, record>>
  BY <1>4 DEF Abort
<1>5. CASE UNCHANGED vars
  BY <1>5 DEF vars
<1> QED BY <1>1, <1>2, <1>3, <1>4, <1>5 DEF Next

LEMMA StepKeepsHistory == HistoryInv /\ [Next]_vars => KeepsHistory
<1> SUFFICES ASSUME HistoryInv, [Next]_vars PROVE KeepsHistory
  OBVIOUS
<1> USE ConstantsOK, NoneIsNoRow
<1>0. TypeOK /\ \A w \in Workers : job[w] \in Job
  BY DEF HistoryInv, TypeInv, TypeOK
<1>1. ASSUME NEW e \in Stored
      PROVE  event'[e] # None /\ event'[e].branch = event[e].branch
                              /\ event'[e].parents = event[e].parents
  <2>0. event[e] \in Event /\ e \in EventIds
    BY <1>0 DEF Stored, TypeOK
  <2>1. ASSUME NEW w \in Workers, PutEvent(w) PROVE event'[e] = event[e]
    BY <1>0, <2>1, <2>0 DEF PutEvent, TypeOK
  <2>2. ASSUME NEW w \in Workers, PutEventAgain(w)
        PROVE  event'[e] # None /\ event'[e].branch = event[e].branch
                                /\ event'[e].parents = event[e].parents
    <3> DEFINE new == [branch |-> job[w].b, parents |-> job[w].parents, snap |-> job[w].s]
    <3>1. event' = [event EXCEPT ![job[w].ev] = new]
      BY <2>2 DEF PutEventAgain
    <3>2. new \in Event
      BY <1>0 DEF Event, Job
    <3>3. CASE e # job[w].ev
      BY <1>0, <2>0, <3>1, <3>3 DEF TypeOK
    <3>4. CASE e = job[w].ev
      BY <1>0, <2>0, <3>1, <3>2, <3>4 DEF TypeOK, HistoryInv, JobEvents, JobEvent
    <3> QED BY <3>3, <3>4
  <2>3. CASE event' = event
    BY <2>3 DEF Stored
  <2>4. \/ event' = event
        \/ \E w \in Workers : PutEvent(w) \/ PutEventAgain(w)
    BY WhoWrites
  <2> QED BY <2>0, <2>1, <2>2, <2>3, <2>4
<1>2. ASSUME NEW b \in Existing PROVE branch'[b] # None
  <2>1. ASSUME NEW w \in Workers, NEW row \in Row, branch' = [branch EXCEPT ![job[w].b] = row]
        PROVE  branch'[b] # None
    BY <1>0, <2>1 DEF TypeOK, Existing
  <2>2. \A w \in Workers : /\ [job[w].row EXCEPT !.head = job[w].ev] \in Row
                           /\ [job[w].row EXCEPT !.snap = job[w].s] \in Row
                           /\ NewRow(job[w]) \in Row
    BY <1>0 DEF Job, Row, NewRow
  <2>3. \/ branch' = branch
        \/ \E w \in Workers : PutHead(w) \/ PutRow(w) \/ PutBranch(w) \/ PutBranchAgain(w)
    BY WhoWrites
  <2>4. CASE branch' = branch
    BY <2>4 DEF Existing
  <2>5. ASSUME NEW w \in Workers, PutHead(w) \/ PutRow(w) \/ PutBranch(w) \/ PutBranchAgain(w)
        PROVE  \E row \in Row : branch' = [branch EXCEPT ![job[w].b] = row]
    BY <2>2, <2>5 DEF PutHead, PutRow, PutBranch, PutBranchAgain
  <2>6. ASSUME NEW w \in Workers, PutHead(w) \/ PutRow(w) \/ PutBranch(w) \/ PutBranchAgain(w)
        PROVE  branch'[b] # None
    <3>1. PICK row \in Row : branch' = [branch EXCEPT ![job[w].b] = row]
      BY <2>5, <2>6
    <3> QED BY <2>1, <3>1
  <2> QED BY <2>3, <2>4, <2>6
<1>3. ASSUME NEW s \in Taken PROVE snapshot'[s] = snapshot[s]
  <2>1. \/ snapshot' = snapshot
        \/ \E w \in Workers : PutSnapshot(w)
    BY WhoWrites
  <2> QED BY <1>0, <2>1 DEF PutSnapshot, TypeOK, Taken
<1>4. ASSUME NEW s \in Snaps, record[s] # None PROVE record'[s] = record[s]
  <2>1. \/ record' = record
        \/ \E w \in Workers : CopyRecords(w)
    BY WhoWrites
  <2>2. ASSUME NEW w \in Workers, CopyRecords(w) PROVE record'[s] = record[s]
    <3>1. s # job[w].s
      BY <1>4, <2>2 DEF CopyRecords, At, HistoryInv, CopiersOK, Copying
    <3> QED BY <1>0, <2>2, <3>1 DEF CopyRecords, TypeOK
  <2> QED BY <2>1, <2>2
<1> QED BY <1>1, <1>2, <1>3, <1>4 DEF KeepsHistory

\* What the steps of one request do to its job.  A step that starts a request
\* or ends it leaves a job without an event; the other steps but PutEvent and
\* ReadBranch keep the job's event, branch and parents.
Starts(w) ==
  \/ \E b \in Branches : BeginAppend(w, b) \/ BeginSnapshot(w, b) \/ BeginVersionSnapshot(w, b)
  \/ \E n, src \in Branches : BeginBranch(w, n, src)
  \/ \E n \in Branches, s \in Snaps : BeginBranchFromSnapshot(w, n, s) \/ BeginRollback(w, n, s)

Advances(w) ==
  \/ PutHead(w) \/ ReadTrajectory(w) \/ PutTrajectory(w) \/ ReadRow(w) \/ PutSnapshot(w)
  \/ ListKeys(w) \/ CopyRecords(w) \/ PutRow(w) \/ ReadBase(w) \/ PutBranch(w)
  \/ PutBranchAgain(w)

LEMMA StepKinds ==
  ASSUME Next
  PROVE  \E w \in Workers :
           Starts(w) \/ Advances(w) \/ ReadBranch(w) \/ PutEvent(w) \/ PutEventAgain(w) \/ Abort(w)
  BY DEF Next, AppendSteps, SnapshotSteps, BranchSteps, Starts, Advances

\* A request starts without an event, with the row of its branch or none, and
\* with a base that is stored or its snapshot's.
StartedJob(j) ==
  /\ j.ev = None /\ j.thead = None
  /\ j.step \in {"put_event", "put_snapshot", "read_base", "put_branch"}
  /\ j.row = EmptyRow \/ (branch[j.b] # None /\ j.row = branch[j.b])
  /\ j.parents \subseteq Stored \/ j.parents = HeadOf(j.row)
  /\ j.step = "put_event" => j.parents = HeadOf(j.row) \/ ClientParents
  /\ j.base \in Stored \cup {None} \/ \E s \in Taken : j.base = snapshot[s].event
  /\ j.step \in {"read_base", "put_branch"} /\ j.s # None =>
       j.s \in Taken /\ j.base = snapshot[j.s].event
  /\ j.step = "read_base" => j.base = None

Rows == <<event, branch, trajHead, snapshot, record>>

\* The fields a new job for a new branch has.
ForBranch(j, base, s) ==
  /\ j.ev = None /\ j.thead = None /\ j.parents = {} /\ j.row = EmptyRow
  /\ j.step \in {"read_base", "put_branch"}
  /\ j.base = base /\ j.s = s
  /\ j.step = "read_base" => base = None

LEMMA NewBranchJobFields ==
  ASSUME NEW op, NEW n, NEW src, NEW base, NEW s
  PROVE  ForBranch(NewBranchJob(op, n, src, base, s), base, s)
<1> DEFINE k(step) == [IdleJob EXCEPT !.op = op, !.b = n, !.src = src, !.base = base, !.s = s,
                                      !.step = step]
<1>1. (base = None => ForBranch(k("read_base"), base, s)) /\ ForBranch(k("put_branch"), base, s)
  BY DEF IdleJob, ForBranch
<1> QED BY <1>1 DEF NewBranchJob

LEMMA ForBranchStarted ==
  ASSUME NEW j, NEW base, NEW s, ForBranch(j, base, s),
         \/ s = None /\ base \in Stored \cup {None}
         \/ s \in Taken /\ base = snapshot[s].event
  PROVE  StartedJob(j)
<1>1. j.parents \subseteq Stored
  BY DEF ForBranch
<1>2. j.base \in Stored \cup {None} \/ \E t \in Taken : j.base = snapshot[t].event
  BY DEF ForBranch
<1>3. j.s # None => j.s \in Taken /\ j.base = snapshot[j.s].event
  BY DEF ForBranch
<1>4. /\ j.ev = None /\ j.thead = None /\ j.row = EmptyRow
      /\ j.step # "put_event"
      /\ j.step \in {"put_event", "put_snapshot", "read_base", "put_branch"}
      /\ j.step = "read_base" => j.base = None
  BY DEF ForBranch
<1> QED BY <1>1, <1>2, <1>3, <1>4 DEF StartedJob

LEMMA StartEffect ==
  ASSUME TypeInv, NEW w \in Workers, Starts(w)
  PROVE  Rows' = Rows /\ \E j : Become(w, j) /\ StartedJob(j)
<1> USE ConstantsOK DEF Rows
<1>1. ASSUME NEW b \in Branches, BeginAppend(w, b)
      PROVE  Rows' = Rows /\ \E j : Become(w, j) /\ StartedJob(j)
  <2> PICK P \in ParentChoices(branch[b]) :
         Become(w, [IdleJob EXCEPT !.op = "append", !.step = "put_event", !.b = b,
                                   !.row = branch[b], !.parents = P])
    BY <1>1 DEF BeginAppend
  <2> DEFINE j == [IdleJob EXCEPT !.op = "append", !.step = "put_event", !.b = b,
                                   !.row = branch[b], !.parents = P]
  <2>1. StartedJob(j)
    BY <1>1 DEF StartedJob, BeginAppend, IdleJob, ParentChoices, Existing
  <2> QED BY <1>1, <2>1 DEF BeginAppend
<1>2. ASSUME NEW b \in Branches, BeginSnapshot(w, b)
      PROVE  Rows' = Rows /\ \E j : Become(w, j) /\ StartedJob(j)
  <2> DEFINE j == [IdleJob EXCEPT !.op = "snapshot", !.step = "put_snapshot", !.b = b,
                                  !.row = branch[b]]
  <2>1. StartedJob(j)
    BY <1>2 DEF StartedJob, BeginSnapshot, IdleJob, Existing
  <2> QED BY <1>2, <2>1 DEF BeginSnapshot
<1>3. ASSUME NEW b \in Branches, BeginVersionSnapshot(w, b)
      PROVE  Rows' = Rows /\ \E j : Become(w, j) /\ StartedJob(j)
  <2> DEFINE j == [IdleJob EXCEPT !.op = "version_snapshot", !.step = "put_event", !.b = b,
                                  !.row = branch[b], !.parents = HeadOf(branch[b])]
  <2>1. StartedJob(j)
    BY <1>3 DEF StartedJob, BeginVersionSnapshot, IdleJob, Existing
  <2> QED BY <1>3, <2>1 DEF BeginVersionSnapshot
<1>4. ASSUME NEW n \in Branches, NEW src \in Branches, BeginBranch(w, n, src)
      PROVE  Rows' = Rows /\ \E j : Become(w, j) /\ StartedJob(j)
  <2> PICK op \in Ops \cap {"branch", "version_branch"}, base \in Stored \cup {None} :
        Become(w, NewBranchJob(op, n, src, base, None))
    BY <1>4 DEF BeginBranch
  <2>1. ForBranch(NewBranchJob(op, n, src, base, None), base, None)
    BY NewBranchJobFields
  <2>2. StartedJob(NewBranchJob(op, n, src, base, None))
    BY <2>1, ForBranchStarted
  <2> QED BY <1>4, <2>2 DEF BeginBranch
<1>5. ASSUME NEW n \in Branches, NEW s \in Snaps, BeginBranchFromSnapshot(w, n, s)
      PROVE  Rows' = Rows /\ \E j : Become(w, j) /\ StartedJob(j)
  <2> DEFINE j == NewBranchJob("version_branch", n, snapshot[s].branch, snapshot[s].event, s)
  <2>1. StartedJob(j)
    BY <1>5, NewBranchJobFields, ForBranchStarted DEF BeginBranchFromSnapshot
  <2> QED BY <1>5, <2>1 DEF BeginBranchFromSnapshot
<1>6. ASSUME NEW n \in Branches, NEW s \in Snaps, BeginRollback(w, n, s)
      PROVE  Rows' = Rows /\ \E j : Become(w, j) /\ StartedJob(j)
  <2> PICK op \in Ops \cap {"rollback", "version_rollback"} :
        Become(w, [IdleJob EXCEPT !.op = op, !.step = "put_branch", !.b = n,
                                  !.base = snapshot[s].event, !.s = s])
    BY <1>6 DEF BeginRollback
  <2> DEFINE j == [IdleJob EXCEPT !.op = op, !.step = "put_branch", !.b = n,
                                  !.base = snapshot[s].event, !.s = s]
  <2>1. ForBranch(j, snapshot[s].event, s)
    BY DEF IdleJob, ForBranch
  <2>2. StartedJob(j)
    BY <1>6, <2>1, ForBranchStarted DEF BeginRollback
  <2> QED BY <1>6, <2>2 DEF BeginRollback
<1> QED BY <1>1, <1>2, <1>3, <1>4, <1>5, <1>6 DEF Starts

\* A request that goes on keeps its branch, event and parents; it may take the
\* row of its branch, the trajectory's head, or the head of from_branch.
NoEventSteps == {"read_base", "put_branch", "put_branch_again", "read_branch"}

AdvancedJob(old, j) ==
  /\ j.ev = old.ev /\ j.b = old.b /\ j.parents = old.parents
  /\ j.step \in NoEventSteps => old.step \in NoEventSteps
  /\ j.row = old.row \/ (branch[j.b] # None /\ j.row = branch[j.b])
  /\ j.thead \in {old.thead, trajHead} \/ (j.b = Main /\ j.thead = old.ev)
  /\ \/ j.base = old.base
     \/ /\ old.step = "read_base" /\ j.step = "put_branch"
        /\ branch[old.src] # None
        /\ j.base = branch[old.src].head
  /\ j.step \in {"read_base", "put_branch", "put_branch_again"} =>
       old.step \in {"read_base", "put_branch", "put_branch_again"} /\ j.s = old.s
  /\ j.step \notin {"read_base", "put_event", "put_head"}
  /\ j.step = "list_keys" => old.step = "put_snapshot"
  /\ j.step = "copy_records" => old.step = "list_keys" /\ j.s = old.s /\ j.keys = Stored

LEMMA AdvanceEffect ==
  ASSUME TypeInv, NEW w \in Workers, Advances(w)
  PROVE  /\ event' = event
         /\ Finish(w) \/ \E j : Become(w, j) /\ AdvancedJob(job[w], j)
<1>0. TypeOK /\ job[w] \in Job /\ JobOK(job[w], branch)
  BY DEF TypeInv, TypeOK, JobsOK
<1> USE DEF At
<1>1. CASE PutHead(w)
  <2> DEFINE j == [job[w] EXCEPT !.step = "read_traj"]
  <2>1. AdvancedJob(job[w], j)
    BY <1>0 DEF AdvancedJob, Job, NoEventSteps
  <2> QED BY <1>1, <2>1 DEF PutHead
<1>2. CASE ReadTrajectory(w)
  <2> DEFINE j == [job[w] EXCEPT !.step = "put_traj",
                              !.thead = IF job[w].b = Main THEN job[w].ev ELSE trajHead]
  <2>1. AdvancedJob(job[w], j)
    BY <1>0 DEF AdvancedJob, Job, NoEventSteps
  <2> QED BY <1>2, <2>1 DEF ReadTrajectory
<1>3. CASE PutTrajectory(w)
  <2> DEFINE j == [job[w] EXCEPT !.step = "read_row"]
  <2>1. AdvancedJob(job[w], j)
    BY <1>0 DEF AdvancedJob, Job, NoEventSteps
  <2> QED BY <1>3, <2>1 DEF PutTrajectory
<1>4. CASE ReadRow(w)
  <2> DEFINE j == [job[w] EXCEPT !.step = "put_snapshot", !.row = branch[job[w].b]]
  <2>1. branch[job[w].b] # None
    BY <1>0, <1>4 DEF ReadRow, JobOK
  <2>2. AdvancedJob(job[w], j)
    BY <1>0, <2>1 DEF AdvancedJob, Job, NoEventSteps
  <2> QED BY <1>4, <2>2 DEF ReadRow
<1>5. CASE PutSnapshot(w)
  <2> PICK s \in Snaps : Become(w, [job[w] EXCEPT !.step = "list_keys", !.s = s])
    BY <1>5 DEF PutSnapshot
  <2>1. AdvancedJob(job[w], [job[w] EXCEPT !.step = "list_keys", !.s = s])
    BY <1>0, <1>5 DEF PutSnapshot, AdvancedJob, Job, NoEventSteps
  <2> QED BY <1>5, <2>1 DEF PutSnapshot
<1>6. CASE ListKeys(w)
  <2> DEFINE j == [job[w] EXCEPT !.step = "copy_records", !.keys = Stored, !.names = Existing]
  <2>1. AdvancedJob(job[w], j)
    BY <1>0, <1>6 DEF ListKeys, AdvancedJob, Job, NoEventSteps
  <2> QED BY <1>6, <2>1 DEF ListKeys
<1>7. CASE CopyRecords(w)
  <2> DEFINE j == [job[w] EXCEPT !.step = "put_row"]
  <2>1. AdvancedJob(job[w], j)
    BY <1>0 DEF AdvancedJob, Job, NoEventSteps
  <2> QED BY <1>7, <2>1 DEF CopyRecords
<1>8. CASE PutRow(w)
  <2> DEFINE j == [job[w] EXCEPT !.step = "put_event_again"]
  <2>1. AdvancedJob(job[w], j)
    BY <1>0 DEF AdvancedJob, Job, NoEventSteps
  <2> QED BY <1>8, <2>1 DEF PutRow
<1>9. CASE ReadBase(w)
  <2> DEFINE j == [job[w] EXCEPT !.step = "put_branch", !.base = branch[job[w].src].head]
  <2>1. job[w].step = "read_base" /\ branch[job[w].src] # None
    BY <1>0, <1>9 DEF ReadBase, JobOK
  <2>2. AdvancedJob(job[w], j)
    BY <1>0, <2>1 DEF AdvancedJob, Job, NoEventSteps
  <2> QED BY <1>9, <2>2 DEF ReadBase
<1>10. CASE PutBranch(w)
  <2>1. ASSUME NEW step \in {"read_branch", "put_branch_again"}
        PROVE  AdvancedJob(job[w], [job[w] EXCEPT !.step = step])
    BY <1>0, <1>10 DEF PutBranch, AdvancedJob, Job, NoEventSteps
  <2> QED BY <1>10, <2>1 DEF PutBranch
<1>11. CASE PutBranchAgain(w)
  <2> DEFINE j == [job[w] EXCEPT !.step = "read_branch"]
  <2>1. AdvancedJob(job[w], j)
    BY <1>0, <1>11 DEF PutBranchAgain, AdvancedJob, Job, NoEventSteps
  <2> QED BY <1>11, <2>1 DEF PutBranchAgain
<1> QED BY <1>1, <1>2, <1>3, <1>4, <1>5, <1>6, <1>7, <1>8, <1>9, <1>10, <1>11 DEF Advances

\* Replacing one job by one that keeps its event as stored keeps JobEvents.
LEMMA JobEventStep ==
  ASSUME HistoryInv, KeepsHistory, NEW w \in Workers, NEW j, Become(w, j), JobEvent(j, event')
  PROVE  JobEvents'
<1>1. ASSUME NEW v \in Workers PROVE JobEvent(job'[v], event')
  <2>1. CASE v = w
    BY <2>1 DEF HistoryInv, TypeInv, TypeOK, Become
  <2>2. CASE v # w
    <3>1. job'[v] = job[v] /\ JobEvent(job[v], event) /\ job[v] \in Job
      BY <2>2 DEF HistoryInv, TypeInv, TypeOK, Become, JobEvents
    <3>2. job[v].ev # None => job[v].ev \in Stored
      BY <3>1 DEF JobEvent, Stored, Job
    <3> QED BY <3>1, <3>2 DEF JobEvent, KeepsHistory
  <2> QED BY <2>1, <2>2
<1> QED BY <1>1 DEF JobEvents

LEMMA IdleJobEvent == \A events : JobEvent(IdleJob, events)
  BY DEF JobEvent, IdleJob

LEMMA NextJobEvents == HistoryInv /\ [Next]_vars => JobEvents'
<1> SUFFICES ASSUME HistoryInv, [Next]_vars PROVE JobEvents'
  OBVIOUS
<1> USE ConstantsOK, NoneIsNoRow, StepKeepsHistory
<1>1. CASE UNCHANGED vars
  BY <1>1 DEF vars, HistoryInv, JobEvents, JobEvent
<1>2. CASE Next
  <2> PICK w \in Workers :
        Starts(w) \/ Advances(w) \/ ReadBranch(w) \/ PutEvent(w) \/ PutEventAgain(w) \/ Abort(w)
    BY <1>2, StepKinds
  <2>0. TypeInv /\ TypeOK /\ job[w] \in Job /\ JobEvent(job[w], event) /\ JobOK(job[w], branch)
    BY DEF HistoryInv, TypeInv, TypeOK, JobEvents, JobsOK
  <2>a. Finish(w) => JobEvents'
    BY JobEventStep, IdleJobEvent DEF Finish
  <2>1. CASE Starts(w)
    <3>1. PICK j : Become(w, j) /\ StartedJob(j)
      BY <2>0, <2>1, StartEffect
    <3>2. JobEvent(j, event')
      BY <3>1 DEF StartedJob, JobEvent
    <3> QED BY <3>1, <3>2, JobEventStep
  <2>2. CASE Advances(w)
    <3>1. CASE Finish(w)
      BY <3>1, <2>a
    <3>2. CASE ~ Finish(w)
      <4>1. PICK j : Become(w, j) /\ AdvancedJob(job[w], j)
        BY <2>0, <2>2, <3>2, AdvanceEffect
      <4>2. JobEvent(j, event')
        BY <2>0, <2>2, <4>1, AdvanceEffect DEF AdvancedJob, JobEvent, NoEventSteps
      <4> QED BY <4>1, <4>2, JobEventStep
    <3> QED BY <3>1, <3>2
  <2>3. CASE ReadBranch(w)
    <3> DEFINE j == [job[w] EXCEPT !.step = "put_event", !.row = branch[job[w].b],
                                   !.parents = HeadOf(branch[job[w].b])]
    <3>1. JobEvent(j, event')
      BY <2>0, <2>3 DEF ReadBranch, At, JobEvent, Job
    <3> QED BY <2>3, <3>1, JobEventStep DEF ReadBranch
  <2>4. CASE PutEvent(w)
    <3> PICK e \in EventIds \ Stored :
          /\ event' = [event EXCEPT ![e] = [branch  |-> job[w].b,
                                            parents |-> job[w].parents,
                                            snap    |-> None]]
          /\ Become(w, [job[w] EXCEPT !.step = "put_head", !.ev = e])
      BY <2>4 DEF PutEvent
    <3> DEFINE new == [branch |-> job[w].b, parents |-> job[w].parents, snap |-> None]
               j == [job[w] EXCEPT !.step = "put_head", !.ev = e]
    <3>1. new \in Event
      BY <2>0 DEF Event, Job
    <3>2. event'[e] = new
      BY <2>0 DEF TypeOK
    <3>3. JobEvent(j, event')
      BY <2>0, <3>1, <3>2 DEF JobEvent, Job
    <3> QED BY <3>3, JobEventStep
  <2>5. CASE PutEventAgain(w) \/ Abort(w)
    BY <2>5, <2>a DEF PutEventAgain, Abort
  <2> QED BY <2>1, <2>2, <2>3, <2>4, <2>5
<1> QED BY <1>1, <1>2

LEMMA NextCopiersOK == HistoryInv /\ [Next]_vars => CopiersOK'
<1> SUFFICES ASSUME HistoryInv, [Next]_vars PROVE CopiersOK'
  OBVIOUS
<1> USE ConstantsOK, NoneIsNoRow
<1>0. TypeInv /\ TypeOK /\ CopiersOK
  BY DEF HistoryInv, TypeInv
<1>1. CASE UNCHANGED vars
  BY <1>0, <1>1 DEF vars, CopiersOK, Copying
<1>2. ASSUME NEW w \in Workers, NEW j, Become(w, j), snapshot' = snapshot, record' = record,
             j.step \in {"list_keys", "copy_records"} => Copying(w) /\ j.s = job[w].s
      PROVE  CopiersOK'
  BY <1>0, <1>2 DEF CopiersOK, Copying, Become, TypeOK
<1>3. ASSUME NEW w \in Workers, PutSnapshot(w) PROVE CopiersOK'
  <2> PICK s \in Snaps \ Taken :
        /\ snapshot' = [snapshot EXCEPT ![s] = [branch |-> job[w].b, event |-> job[w].row.head]]
        /\ Become(w, [job[w] EXCEPT !.step = "list_keys", !.s = s])
    BY <1>3 DEF PutSnapshot
  <2>1. job[w] \in Job /\ record' = record
    BY <1>0, <1>3 DEF TypeOK, PutSnapshot
  <2>2. [branch |-> job[w].b, event |-> job[w].row.head] \in Snapshot
    BY <2>1 DEF Job, Row, Snapshot
  <2>3. snapshot'[s] # None /\ record[s] = None /\ \A t \in Snaps \ {s} : snapshot'[t] = snapshot[t]
    BY <1>0, <2>2 DEF TypeOK, CopiersOK, Taken
  <2>4. /\ job'[w].s = s
        /\ \A v \in Workers \ {w} : job'[v] = job[v]
        /\ \A v \in Workers \ {w} : Copying(v) => job[v].s # s
    BY <1>0, <2>1 DEF TypeOK, Become, Job, CopiersOK, Taken
  <2> QED BY <1>0, <2>1, <2>3, <2>4 DEF CopiersOK, Copying
<1>4. ASSUME NEW w \in Workers, CopyRecords(w) PROVE CopiersOK'
  <2> DEFINE j == [job[w] EXCEPT !.step = "put_row"]
  <2>1. /\ job[w] \in Job /\ Copying(w) /\ snapshot' = snapshot
        /\ \A t \in Snaps \ {job[w].s} : record'[t] = record[t]
    BY <1>0, <1>4 DEF TypeOK, CopyRecords, At, Copying
  <2>2. job'[w].step = "put_row" /\ \A v \in Workers \ {w} : job'[v] = job[v]
    BY <1>0, <1>4, <2>1 DEF TypeOK, CopyRecords, Become, Job
  <2> QED BY <1>0, <2>1, <2>2 DEF CopiersOK, Copying
<1>5. CASE Next /\ snapshot' = snapshot /\ record' = record
  <2> PICK w \in Workers :
        Starts(w) \/ Advances(w) \/ ReadBranch(w) \/ PutEvent(w) \/ PutEventAgain(w) \/ Abort(w)
    BY <1>5, StepKinds
  <2>0. job[w] \in Job
    BY <1>0 DEF TypeOK
  <2>a. Finish(w) => CopiersOK'
    BY <1>2, <1>5 DEF Finish, IdleJob
  <2>1. CASE Starts(w)
    <3>1. PICK j : Become(w, j) /\ StartedJob(j)
      BY <1>0, <2>1, StartEffect
    <3>2. j.step \notin {"list_keys", "copy_records"}
      BY <3>1 DEF StartedJob
    <3> QED BY <1>2, <1>5, <3>1, <3>2
  <2>2. CASE Advances(w) /\ ~ Finish(w)
    <3>1. PICK j : Become(w, j) /\ AdvancedJob(job[w], j)
      BY <1>0, <2>2, AdvanceEffect
    <3>2. CASE j.step = "list_keys"
      <4>1. job[w].step = "put_snapshot"
        BY <3>1, <3>2 DEF AdvancedJob
      <4>2. PutSnapshot(w)
        BY <2>2, <4>1 DEF Advances, PutHead, ReadTrajectory, PutTrajectory, ReadRow, ListKeys,
             CopyRecords, PutRow, ReadBase, PutBranch, PutBranchAgain, At
      <4> QED BY <1>3, <4>2
    <3>3. CASE j.step # "list_keys"
      BY <1>2, <1>5, <3>1, <3>3 DEF AdvancedJob, Copying
    <3> QED BY <3>2, <3>3
  <2>3. CASE ReadBranch(w)
    BY <1>2, <1>5, <2>0, <2>3 DEF ReadBranch, Job
  <2>4. CASE PutEvent(w)
    <3> PICK e : Become(w, [job[w] EXCEPT !.step = "put_head", !.ev = e])
      BY <2>4 DEF PutEvent
    <3> DEFINE j == [job[w] EXCEPT !.step = "put_head", !.ev = e]
    <3>1. j.step \notin {"list_keys", "copy_records"}
      BY <2>0 DEF Job
    <3> QED BY <1>2, <1>5, <3>1
  <2>5. CASE PutEventAgain(w) \/ Abort(w)
    BY <2>5, <2>a DEF PutEventAgain, Abort
  <2> QED BY <2>a, <2>1, <2>2, <2>3, <2>4, <2>5
<1> QED BY <1>1, <1>3, <1>4, <1>5, WhoWrites

LEMMA InitHistory == Init => HistoryInv
<1>1. Init => JobEvents
  BY IdleJobEvent DEF Init, JobEvents
<1>2. Init => CopiersOK
  BY DEF Init, CopiersOK, Copying, IdleJob
<1> QED BY <1>1, <1>2, InitTyped DEF HistoryInv

LEMMA NextHistory == HistoryInv /\ [Next]_vars => HistoryInv'
  BY NextTyped, NextJobEvents, NextCopiersOK DEF HistoryInv

\* No step of any request, in any interleaving and cut short anywhere, changes
\* or removes what is stored of an event, a snapshot or its records, or removes
\* a branch: the second put of create_version_snapshot's event and the rows
\* written back whole take nothing from the history.
THEOREM HistoryIsKept == Spec => HistoryKept
<1>1. HistoryInv /\ [Next]_vars => [KeepsHistory]_vars
  BY StepKeepsHistory
<1> QED BY <1>1, InitHistory, NextHistory, PTL DEF Spec, HistoryKept

(***************************************************************************)
(* References.  The ids a request holds are stored before any row can name *)
(* them, and a row a request puts back whole has a head of its own branch. *)
(***************************************************************************)

\* The ids of a branch row are stored, and its head is its base or was
\* appended on the branch.
Placed(row, b, events) ==
  /\ row.base # None => events[row.base] # None
  /\ row.head # None => events[row.head] # None
  /\ row.head = row.base \/ (row.head # None /\ events[row.head].branch = b)

OnMain(e, events) == e # None => events[e] # None /\ events[e].branch = Main

JobRef(j, events) ==
  /\ Placed(j.row, j.b, events)
  /\ j.base # None => events[j.base] # None
  /\ OnMain(j.thead, events)
  /\ \A e \in j.parents : events[e] # None

JobRefs == \A w \in Workers : JobRef(job[w], event)

RefInv == HistoryInv /\ Referential /\ HeadOnBranch /\ JobRefs

\* What was stored and on a branch stays so.
LEMMA RefStays ==
  ASSUME HistoryInv, KeepsHistory
  PROVE  /\ \A e \in EventIds : event[e] # None => event'[e] # None /\ event'[e].branch = event[e].branch
         /\ \A row \in Row, b \in Branches : Placed(row, b, event) => Placed(row, b, event')
         /\ \A e \in EventIds \cup {None} : OnMain(e, event) => OnMain(e, event')
         /\ \A j \in Job : JobRef(j, event) => JobRef(j, event')
<1>1. \A e \in EventIds : event[e] # None => event'[e] # None /\ event'[e].branch = event[e].branch
  BY DEF KeepsHistory, Stored
<1>2. \A row \in Row, b \in Branches : Placed(row, b, event) => Placed(row, b, event')
  BY <1>1 DEF Placed, Row
<1>3. \A e \in EventIds \cup {None} : OnMain(e, event) => OnMain(e, event')
  BY <1>1 DEF OnMain
<1>4. ASSUME NEW j \in Job, JobRef(j, event) PROVE JobRef(j, event')
  BY <1>1, <1>2, <1>3, <1>4 DEF JobRef, Job
<1> QED BY <1>1, <1>2, <1>3, <1>4

\* A step that replaces one job keeps the others' references.
LEMMA JobRefStep ==
  ASSUME HistoryInv, JobRefs, KeepsHistory, NEW w \in Workers, NEW j, Become(w, j), JobRef(j, event')
  PROVE  JobRefs'
<1>0. TypeOK
  BY DEF HistoryInv, TypeInv
<1>1. ASSUME NEW v \in Workers PROVE JobRef(job'[v], event')
  <2>1. CASE v = w
    BY <1>0, <2>1 DEF TypeOK, Become
  <2>2. CASE v # w
    BY <1>0, <2>2, RefStays DEF TypeOK, Become, JobRefs
  <2> QED BY <2>1, <2>2
<1> QED BY <1>1 DEF JobRefs

LEMMA IdleJobRef == \A events : JobRef(IdleJob, events)
  BY DEF JobRef, Placed, OnMain, IdleJob, EmptyRow

LEMMA InitRef == Init => RefInv
<1> SUFFICES ASSUME Init PROVE RefInv
  OBVIOUS
<1>1. Referential /\ HeadOnBranch
  BY DEF Init, Referential, HeadOnBranch, Stored, Existing, Taken, StoredOrNone, EmptyRow
<1>2. JobRefs
  BY IdleJobRef DEF Init, JobRefs
<1> QED BY <1>1, <1>2, InitHistory DEF RefInv

LEMMA RefFacts ==
  ASSUME RefInv
  PROVE  /\ HistoryInv /\ TypeInv /\ TypeOK
         /\ \A b \in Branches : branch[b] # None => Placed(branch[b], b, event)
         /\ OnMain(trajHead, event)
         /\ \A s \in Snaps : snapshot[s] # None /\ snapshot[s].event # None => event[snapshot[s].event] # None
         /\ \A w \in Workers : /\ job[w] \in Job /\ JobOK(job[w], branch)
                              /\ JobEvent(job[w], event) /\ JobRef(job[w], event)
<1>1. HistoryInv /\ TypeInv /\ TypeOK
  BY DEF RefInv, HistoryInv, TypeInv
<1>2. \A b \in Branches : branch[b] # None => Placed(branch[b], b, event)
  BY ConstantsOK DEF RefInv, Referential, HeadOnBranch, Placed, StoredOrNone, Stored, Existing
<1>3. OnMain(trajHead, event)
  BY DEF RefInv, Referential, HeadOnBranch, OnMain, StoredOrNone, Stored
<1>4. \A s \in Snaps : snapshot[s] # None /\ snapshot[s].event # None => event[snapshot[s].event] # None
  BY DEF RefInv, Referential, StoredOrNone, Stored, Taken
<1>5. \A w \in Workers : /\ job[w] \in Job /\ JobOK(job[w], branch)
                         /\ JobEvent(job[w], event) /\ JobRef(job[w], event)
  BY <1>1 DEF RefInv, HistoryInv, TypeInv, TypeOK, JobEvents, JobRefs, JobsOK
<1> QED BY <1>1, <1>2, <1>3, <1>4, <1>5

LEMMA NextJobRefs == RefInv /\ [Next]_vars => JobRefs'
<1> SUFFICES ASSUME RefInv, [Next]_vars PROVE JobRefs'
  OBVIOUS
<1> USE ConstantsOK, NoneIsNoRow
<1>0. HistoryInv /\ TypeInv /\ TypeOK /\ JobRefs /\ KeepsHistory
  BY RefFacts, StepKeepsHistory DEF RefInv
<1>1. CASE UNCHANGED vars
  BY <1>0, <1>1 DEF vars, JobRefs
<1>2. CASE Next
  <2> PICK w \in Workers :
        Starts(w) \/ Advances(w) \/ ReadBranch(w) \/ PutEvent(w) \/ PutEventAgain(w) \/ Abort(w)
    BY <1>2, StepKinds
  <2>0. job[w] \in Job /\ JobEvent(job[w], event) /\ JobRef(job[w], event) /\ JobOK(job[w], branch)
    BY RefFacts
  <2>a. Finish(w) => JobRefs'
    BY <1>0, JobRefStep, IdleJobRef DEF Finish
  <2>1. CASE Starts(w)
    <3>1. PICK j : Become(w, j) /\ StartedJob(j)
      BY <1>0, <2>1, StartEffect
    <3>2. event' = event
      BY <1>0, <2>1, StartEffect DEF Rows
    <3>3. j \in Job
      BY <1>0, <3>1, NextTyped DEF Become, TypeInv, TypeOK
    <3>4. Placed(j.row, j.b, event)
      BY <3>1, <3>3, RefFacts DEF StartedJob, Placed, EmptyRow, Job
    <3>5. \A e \in j.parents : event[e] # None
      BY <3>1, <3>3, <3>4 DEF StartedJob, HeadOf, Placed, Stored
    <3>6. j.base # None => event[j.base] # None
      BY <3>1, <3>3, RefFacts DEF StartedJob, Stored, Taken
    <3>7. JobRef(j, event')
      BY <3>1, <3>2, <3>4, <3>5, <3>6 DEF StartedJob, JobRef, OnMain
    <3> QED BY <1>0, <3>1, <3>7, JobRefStep
  <2>2. CASE Advances(w) /\ ~ Finish(w)
    <3>1. PICK j : Become(w, j) /\ AdvancedJob(job[w], j)
      BY <1>0, <2>2, AdvanceEffect
    <3>2. event' = event
      BY <1>0, <2>2, AdvanceEffect
    <3>3. Placed(j.row, j.b, event)
      BY <2>0, <3>1, RefFacts DEF AdvancedJob, JobRef, Job
    <3>4. OnMain(j.thead, event)
      BY <2>0, <3>1, RefFacts DEF AdvancedJob, JobRef, JobEvent, OnMain
    <3>5. j.base # None => event[j.base] # None
      <4>1. CASE j.base = job[w].base
        BY <2>0, <4>1 DEF JobRef
      <4>2. CASE j.base # job[w].base
        <5>1. branch[job[w].src] # None /\ j.base = branch[job[w].src].head
          BY <3>1, <4>2 DEF AdvancedJob
        <5> QED BY <2>0, <5>1, RefFacts DEF Job, Placed
      <4> QED BY <4>1, <4>2
    <3>6. JobRef(j, event')
      BY <2>0, <3>1, <3>2, <3>3, <3>4, <3>5 DEF AdvancedJob, JobRef
    <3> QED BY <1>0, <3>1, <3>6, JobRefStep
  <2>3. CASE ReadBranch(w)
    <3> DEFINE j == [job[w] EXCEPT !.step = "put_event", !.row = branch[job[w].b],
                                   !.parents = HeadOf(branch[job[w].b])]
    <3>1. branch[job[w].b] # None
      BY <2>0, <2>3 DEF ReadBranch, At, JobOK
    <3>2. Placed(branch[job[w].b], job[w].b, event)
      BY <2>0, <3>1, RefFacts DEF Job
    <3>3. \A e \in HeadOf(branch[job[w].b]) : event[e] # None
      BY <3>2 DEF HeadOf, Placed
    <3>4. /\ j.row = branch[job[w].b] /\ j.b = job[w].b /\ j.base = job[w].base
          /\ j.thead = job[w].thead /\ j.parents = HeadOf(branch[job[w].b])
      BY <2>0 DEF Job
    <3>5. JobRef(j, event')
      BY <2>0, <2>3, <3>2, <3>3, <3>4 DEF ReadBranch, JobRef
    <3> QED BY <1>0, <2>3, <3>5, JobRefStep DEF ReadBranch
  <2>4. CASE PutEvent(w)
    <3> PICK e \in EventIds : Become(w, [job[w] EXCEPT !.step = "put_head", !.ev = e])
      BY <2>4 DEF PutEvent
    <3> DEFINE j == [job[w] EXCEPT !.step = "put_head", !.ev = e]
    <3>1. JobRef(job[w], event')
      BY <1>0, <2>0, RefStays
    <3>2. JobRef(j, event')
      BY <2>0, <3>1 DEF JobRef, Job
    <3> QED BY <1>0, <3>2, JobRefStep
  <2>5. CASE PutEventAgain(w) \/ Abort(w)
    BY <2>5, <2>a DEF PutEventAgain, Abort
  <2> QED BY <2>a, <2>1, <2>2, <2>3, <2>4, <2>5
<1> QED BY <1>1, <1>2

\* The one way an event becomes stored.
LEMMA NewEvent ==
  ASSUME TypeOK, JobEvents, [Next]_vars, NEW e \in EventIds, event[e] = None, event'[e] # None
  PROVE  \E w \in Workers : /\ PutEvent(w)
                           /\ event'[e].branch = job[w].b
                           /\ event'[e].parents = job[w].parents
<1>1. ASSUME NEW w \in Workers, PutEventAgain(w) PROVE FALSE
  <2>1. job[w].ev = None \/ event[job[w].ev] # None
    BY DEF JobEvents, JobEvent
  <2> QED BY <1>1, <2>1, ConstantsOK DEF PutEventAgain, TypeOK
<1>2. PICK w \in Workers : PutEvent(w)
  BY <1>1, WhoWrites
<1>3. job[w] \in Job
  BY DEF TypeOK
<1>4. PICK x \in EventIds \ Stored :
        event' = [event EXCEPT ![x] = [branch  |-> job[w].b,
                                       parents |-> job[w].parents,
                                       snap    |-> None]]
  BY <1>2 DEF PutEvent
<1>5. x = e
  BY <1>4 DEF TypeOK
<1> QED BY <1>2, <1>4, <1>5 DEF TypeOK

\* A branch row is put whole: with a new head, with a new snapshot, or new.
LEMMA NewRows ==
  ASSUME RefInv, [Next]_vars, NEW b \in Branches, branch'[b] # None
  PROVE  Placed(branch'[b], b, event')
<1> USE ConstantsOK
<1>0. HistoryInv /\ TypeOK /\ KeepsHistory
  BY RefFacts, StepKeepsHistory
<1>1. CASE branch'[b] = branch[b]
  <2>1. branch[b] \in Row /\ Placed(branch[b], b, event)
    BY <1>0, <1>1, RefFacts DEF TypeOK
  <2> QED BY <1>0, <1>1, <2>1, RefStays
<1>2. ASSUME NEW w \in Workers, PutHead(w) \/ PutRow(w) \/ PutBranch(w) \/ PutBranchAgain(w),
             branch'[b] # branch[b]
      PROVE  Placed(branch'[b], b, event')
  <2>0. /\ job[w] \in Job /\ JobOK(job[w], branch)
        /\ JobEvent(job[w], event) /\ JobRef(job[w], event) /\ JobRef(job[w], event')
    BY <1>0, RefFacts, RefStays
  <2>1. event' = event /\ b = job[w].b
    BY <1>0, <1>2 DEF PutHead, PutRow, PutBranch, PutBranchAgain, TypeOK
  <2>2. CASE PutHead(w)
    <3>1. branch'[b] = [job[w].row EXCEPT !.head = job[w].ev]
      BY <1>0, <2>1, <2>2 DEF PutHead, TypeOK
    <3>2. job[w].ev # None /\ event[job[w].ev] # None /\ event[job[w].ev].branch = b
      BY <2>0, <2>1, <2>2 DEF PutHead, At, JobOK, JobEvent
    <3> QED BY <2>0, <2>1, <3>1, <3>2 DEF JobRef, Placed, Job, Row
  <2>3. CASE PutRow(w)
    <3>1. branch'[b] = [job[w].row EXCEPT !.snap = job[w].s]
      BY <1>0, <2>1, <2>3 DEF PutRow, TypeOK
    <3> QED BY <2>0, <2>1, <3>1 DEF JobRef, Placed, Job, Row
  <2>4. CASE PutBranch(w) \/ PutBranchAgain(w)
    <3>1. branch'[b] = NewRow(job[w])
      BY <1>0, <2>1, <2>4 DEF PutBranch, PutBranchAgain, TypeOK
    <3> QED BY <2>0, <2>1, <3>1 DEF JobRef, Placed, NewRow
  <2> QED BY <1>2, <2>2, <2>3, <2>4
<1> QED BY <1>1, <1>2, WhoWrites

LEMMA NextRef == RefInv /\ [Next]_vars => RefInv'
<1> SUFFICES ASSUME RefInv, [Next]_vars PROVE RefInv'
  OBVIOUS
<1> USE ConstantsOK, NoneIsNoRow
<1>0. HistoryInv /\ TypeInv /\ TypeOK /\ JobEvents /\ KeepsHistory /\ HistoryInv' /\ TypeOK'
  BY RefFacts, StepKeepsHistory, NextHistory DEF HistoryInv, TypeInv
<1>1. JobRefs'
  BY NextJobRefs
<1>2. \A b \in Existing' : Placed(branch'[b], b, event')
  BY NewRows DEF Existing
<1>3. ASSUME NEW e \in Stored' PROVE event'[e].parents \subseteq Stored'
  <2>1. CASE e \in Stored
    <3>1. event'[e].parents = event[e].parents /\ event[e].parents \subseteq Stored
      BY <1>0, <2>1 DEF KeepsHistory, RefInv, Referential
    <3> QED BY <1>0, <3>1 DEF KeepsHistory, Stored
  <2>2. CASE e \notin Stored
    <3>1. PICK w \in Workers : event'[e].parents = job[w].parents
      BY <1>0, <1>3, <2>2, NewEvent DEF Stored
    <3>2. job[w] \in Job /\ JobRef(job[w], event')
      BY <1>0, RefFacts, RefStays
    <3> QED BY <3>1, <3>2 DEF JobRef, Job, Stored
  <2> QED BY <2>1, <2>2
<1>4. OnMain(trajHead', event')
  <2>1. CASE trajHead' = trajHead
    BY <1>0, <2>1, RefFacts, RefStays DEF TypeOK
  <2>2. ASSUME NEW w \in Workers, PutTrajectory(w) PROVE OnMain(trajHead', event')
    BY <1>0, <2>2, RefFacts DEF PutTrajectory, JobRef
  <2> QED BY <2>1, <2>2, WhoWrites
<1>5. ASSUME NEW s \in Taken' PROVE snapshot'[s].event \in Stored' \cup {None}
  <2>1. CASE s \in Taken
    <3>1. snapshot'[s] = snapshot[s] /\ snapshot[s] \in Snapshot
      BY <1>0, <2>1 DEF KeepsHistory, TypeOK, Taken
    <3> QED BY <1>0, <2>1, <3>1, RefFacts, RefStays DEF Taken, Snapshot, Stored
  <2>2. CASE s \notin Taken
    <3>1. PICK w \in Workers : PutSnapshot(w)
      BY <1>5, <2>2, WhoWrites DEF Taken
    <3>2. snapshot'[s].event = job[w].row.head
      BY <1>0, <1>5, <2>2, <3>1 DEF PutSnapshot, TypeOK, Taken
    <3>3. job[w] \in Job /\ JobRef(job[w], event')
      BY <1>0, RefFacts, RefStays
    <3> QED BY <3>2, <3>3 DEF JobRef, Placed, Job, Row, Stored
  <2> QED BY <2>1, <2>2
<1>6. ASSUME NEW s \in Snaps, NEW b \in Branches, record'[s] # None, record'[s].rows[b] # None
      PROVE  record'[s].rows[b].head \in Stored' \cup {None}
  <2>1. CASE record'[s] = record[s]
    <3>1. record[s].rows[b].head \in Stored \cup {None}
      BY <1>6, <2>1 DEF RefInv, Referential, StoredOrNone
    <3> QED BY <1>0, <2>1, <3>1, RefStays DEF Stored
  <2>2. CASE record'[s] # record[s]
    <3>1. PICK w \in Workers : CopyRecords(w)
      BY <2>2, WhoWrites
    <3>2. record'[s].rows[b] = branch[b] /\ event' = event /\ branch[b] # None
      BY <1>0, <1>6, <2>2, <3>1 DEF CopyRecords, TypeOK
    <3>3. Placed(branch[b], b, event) /\ branch[b] \in Row
      BY <1>0, <3>2, RefFacts DEF TypeOK
    <3> QED BY <3>2, <3>3 DEF Placed, Row, Stored
  <2> QED BY <2>1, <2>2
<1>7. Referential'
  <2>1. \A b \in Existing' : branch'[b] \in Row
    BY <1>0 DEF TypeOK, Existing
  <2>2. \A b \in Existing' : /\ branch'[b].base \in Stored' \cup {None}
                            /\ branch'[b].head \in Stored' \cup {None}
    BY <1>2, <2>1 DEF Placed, Row, Stored
  <2>3. trajHead' \in Stored' \cup {None}
    BY <1>0, <1>4 DEF OnMain, TypeOK, Stored
  <2> QED BY <1>3, <1>5, <1>6, <2>2, <2>3 DEF Referential, StoredOrNone
<1>8. HeadOnBranch'
  <2>1. \A b \in Existing' : branch'[b] \in Row
    BY <1>0 DEF TypeOK, Existing
  <2> QED BY <1>0, <1>2, <1>4, <2>1 DEF HeadOnBranch, Placed, OnMain, Row, Stored
<1> QED BY <1>0, <1>1, <1>7, <1>8 DEF RefInv

\* Whatever requests interleave and wherever they are cut short, a stored row
\* never names an event that is not stored.
THEOREM ReferencesStored == Spec => []Referential
<1>1. RefInv => Referential
  BY DEF RefInv
<1> QED BY <1>1, InitRef, NextRef, PTL DEF Spec

\* However requests overwrite each other's rows, a branch's head is its base or
\* an event appended on it, and the trajectory's head is on the default branch.
THEOREM HeadsOnTheirBranch == Spec => []HeadOnBranch
<1>1. RefInv => HeadOnBranch
  BY DEF RefInv
<1> QED BY <1>1, InitRef, NextRef, PTL DEF Spec

\* A new event only has stored parents, so it closes no cycle.
LEMMA NextAcyclic == RefInv /\ Acyclic /\ [Next]_vars => Acyclic'
<1> SUFFICES ASSUME RefInv, Acyclic, [Next]_vars, NEW S \in SUBSET Stored', S # {}
             PROVE  \E e \in S : event'[e].parents \cap S = {}
  BY DEF Acyclic
<1>0. TypeOK /\ JobEvents /\ KeepsHistory /\ \A e \in Stored : event[e].parents \subseteq Stored
  BY RefFacts, StepKeepsHistory DEF RefInv, HistoryInv, Referential
<1> DEFINE Old == S \cap Stored
<1>1. \A e \in Old : event'[e].parents = event[e].parents
  BY <1>0 DEF KeepsHistory
<1>2. CASE Old # {}
  <2>1. PICK e \in Old : event[e].parents \cap Old = {}
    BY <1>2 DEF Acyclic
  <2> QED BY <1>0, <1>1, <2>1
<1>3. CASE Old = {}
  <2>1. PICK e \in S : TRUE
    OBVIOUS
  <2>2. PICK w \in Workers : PutEvent(w) /\ event'[e].parents = job[w].parents
    BY <1>0, <1>3, <2>1, NewEvent DEF Stored
  <2>3. job[w].parents \subseteq Stored
    BY RefFacts DEF JobRef, Job, Stored
  <2> QED BY <1>3, <2>1, <2>2, <2>3
<1> QED BY <1>2, <1>3

\* The events are a DAG, for any number of requests, any parents that clients
\* choose among the stored events, and any interleaving.
THEOREM EventsAcyclic == Spec => []Acyclic
<1>1. Init => Acyclic
  BY DEF Init, Acyclic, Stored
<1> QED BY <1>1, InitRef, NextRef, NextAcyclic, PTL DEF Spec

(***************************************************************************)
(* Snapshots.  The keys a snapshot lists are all the stored events at one  *)
(* point, hence closed under parents; a branch created from a snapshot     *)
(* carries the snapshot's event as its base from the request on.           *)
(***************************************************************************)

\* A row made from a snapshot starts at the snapshot's event, if it has one.
FromSnapshot(row, snaps) ==
  row.from # None => /\ snaps[row.from] # None
                     /\ snaps[row.from].event # None => row.base = snaps[row.from].event

JobSnap(j, events, snaps) ==
  /\ FromSnapshot(j.row, snaps)
  /\ j.step \in {"read_base", "put_branch", "put_branch_again"} /\ j.s # None =>
       /\ snaps[j.s] # None
       /\ j.step = "read_base" => snaps[j.s].event = None
       /\ snaps[j.s].event # None => j.base = snaps[j.s].event
  /\ j.step = "copy_records" =>
       /\ snaps[j.s].event \in j.keys \cup {None}
       /\ \A e \in j.keys : events[e] # None /\ events[e].parents \subseteq j.keys

JobSnaps == \A w \in Workers : JobSnap(job[w], event, snapshot)

RowsFrom == \A b \in Existing : FromSnapshot(branch[b], snapshot)

RecordsStored == \A s \in Snaps : record[s] # None => record[s].events \subseteq Stored

SnapInv == RefInv /\ SnapshotComplete /\ RecordsStored /\ RowsFrom /\ JobSnaps

LEMMA SnapFacts ==
  ASSUME SnapInv
  PROVE  /\ RefInv /\ HistoryInv /\ TypeInv /\ TypeOK /\ CopiersOK
         /\ \A w \in Workers : job[w] \in Job /\ JobOK(job[w], branch) /\ JobSnap(job[w], event, snapshot)
         /\ \A b \in Branches : branch[b] # None => FromSnapshot(branch[b], snapshot)
  BY DEF SnapInv, RefInv, HistoryInv, TypeInv, TypeOK, JobsOK, JobSnaps, RowsFrom, Existing

\* What was stored of events and snapshots stays, so jobs and rows stay right.
LEMMA SnapStays ==
  ASSUME TypeOK, KeepsHistory
  PROVE  /\ \A row \in Row : FromSnapshot(row, snapshot) => FromSnapshot(row, snapshot')
         /\ \A j \in Job :
              /\ j.step = "copy_records" => j.s \in Snaps /\ snapshot[j.s] # None
              /\ JobSnap(j, event, snapshot)
              => JobSnap(j, event', snapshot')
<1>1. \A s \in Snaps : snapshot[s] # None => snapshot'[s] = snapshot[s]
  BY DEF KeepsHistory, Taken
<1>2. \A row \in Row : FromSnapshot(row, snapshot) => FromSnapshot(row, snapshot')
  BY <1>1 DEF FromSnapshot, Row
<1>3. ASSUME NEW j \in Job, JobSnap(j, event, snapshot),
             j.step = "copy_records" => j.s \in Snaps /\ snapshot[j.s] # None
      PROVE  JobSnap(j, event', snapshot')
  <2>1. FromSnapshot(j.row, snapshot')
    BY <1>2, <1>3 DEF JobSnap, Job
  <2>2. j.step \in {"read_base", "put_branch", "put_branch_again"} /\ j.s # None =>
          /\ snapshot'[j.s] # None
          /\ j.step = "read_base" => snapshot'[j.s].event = None
          /\ snapshot'[j.s].event # None => j.base = snapshot'[j.s].event
    BY <1>1, <1>3 DEF JobSnap, Job
  <2>3. j.step = "copy_records" =>
          /\ snapshot'[j.s].event \in j.keys \cup {None}
          /\ \A e \in j.keys : event'[e] # None /\ event'[e].parents \subseteq j.keys
    BY <1>1, <1>3 DEF JobSnap, Job, KeepsHistory, Stored
  <2> QED BY <2>1, <2>2, <2>3 DEF JobSnap
<1> QED BY <1>2, <1>3

LEMMA JobSnapStep ==
  ASSUME SnapInv, [Next]_vars, NEW w \in Workers, NEW j, Become(w, j), JobSnap(j, event, snapshot),
         j.step = "copy_records" => j.s \in Snaps /\ snapshot[j.s] # None
  PROVE  JobSnaps'
<1>0. TypeOK /\ TypeOK' /\ KeepsHistory /\ CopiersOK
  BY SnapFacts, StepKeepsHistory, NextTyped DEF TypeInv
<1>1. ASSUME NEW v \in Workers PROVE JobSnap(job'[v], event', snapshot')
  <2>1. job'[v] \in Job
    BY <1>0 DEF TypeOK
  <2>2. CASE v = w
    BY <1>0, <2>1, <2>2, SnapStays DEF TypeOK, Become
  <2>3. CASE v # w
    <3>1. job'[v] = job[v] /\ JobSnap(job[v], event, snapshot)
      BY <1>0, <2>3, SnapFacts DEF TypeOK, Become
    <3>2. job[v].step = "copy_records" => job[v].s \in Snaps /\ snapshot[job[v].s] # None
      BY <1>0 DEF CopiersOK, Copying
    <3> QED BY <1>0, <2>1, <3>1, <3>2, SnapStays
  <2> QED BY <2>2, <2>3
<1> QED BY <1>1 DEF JobSnaps

LEMMA IdleJobSnap == \A events, snaps : JobSnap(IdleJob, events, snaps)
  BY DEF JobSnap, FromSnapshot, IdleJob, EmptyRow

LEMMA InitSnap == Init => SnapInv
<1> SUFFICES ASSUME Init PROVE SnapInv
  OBVIOUS
<1>1. SnapshotComplete /\ RecordsStored /\ RowsFrom
  BY DEF Init, SnapshotComplete, RecordsStored, RowsFrom, FromSnapshot, Existing, EmptyRow
<1>2. JobSnaps
  BY IdleJobSnap DEF Init, JobSnaps
<1> QED BY <1>1, <1>2, InitRef DEF SnapInv

LEMMA NextJobSnaps == SnapInv /\ [Next]_vars => JobSnaps'
<1> SUFFICES ASSUME SnapInv, [Next]_vars PROVE JobSnaps'
  OBVIOUS
<1> USE ConstantsOK, NoneIsNoRow
<1>0. RefInv /\ HistoryInv /\ TypeInv /\ TypeOK /\ CopiersOK
  BY SnapFacts
<1>1. CASE UNCHANGED vars
  BY <1>1 DEF vars, SnapInv, JobSnaps
<1>2. CASE Next
  <2> PICK w \in Workers :
        Starts(w) \/ Advances(w) \/ ReadBranch(w) \/ PutEvent(w) \/ PutEventAgain(w) \/ Abort(w)
    BY <1>2, StepKinds
  <2>0. job[w] \in Job /\ JobOK(job[w], branch) /\ JobSnap(job[w], event, snapshot)
    BY SnapFacts
  <2>a. Finish(w) => JobSnaps'
    BY JobSnapStep, IdleJobSnap DEF Finish, IdleJob
  <2>1. CASE Starts(w)
    <3>1. PICK j : Become(w, j) /\ StartedJob(j)
      BY <1>0, <2>1, StartEffect
    <3>2. j \in Job
      BY <1>0, <3>1, NextTyped DEF Become, TypeInv, TypeOK
    <3>3. FromSnapshot(j.row, snapshot)
      BY <3>1, <3>2, SnapFacts DEF StartedJob, FromSnapshot, EmptyRow, Job
    <3>4. JobSnap(j, event, snapshot) /\ j.step # "copy_records"
      BY <3>1, <3>3 DEF StartedJob, JobSnap, Taken
    <3> QED BY <3>1, <3>4, JobSnapStep
  <2>2. CASE Advances(w) /\ ~ Finish(w)
    <3>1. PICK j : Become(w, j) /\ AdvancedJob(job[w], j)
      BY <1>0, <2>2, AdvanceEffect
    <3>2. FromSnapshot(j.row, snapshot)
      BY <2>0, <3>1, SnapFacts DEF AdvancedJob, JobSnap, Job
    <3>3. j.step \in {"read_base", "put_branch", "put_branch_again"} /\ j.s # None =>
            /\ snapshot[j.s] # None
            /\ j.step = "read_base" => snapshot[j.s].event = None
            /\ snapshot[j.s].event # None => j.base = snapshot[j.s].event
      BY <2>0, <3>1 DEF AdvancedJob, JobSnap
    <3>4. j.step = "copy_records" =>
            /\ j.s \in Snaps /\ snapshot[j.s] # None
            /\ snapshot[j.s].event \in j.keys \cup {None}
            /\ \A e \in j.keys : event[e] # None /\ event[e].parents \subseteq j.keys
      <4> SUFFICES ASSUME j.step = "copy_records"
                   PROVE  /\ j.s \in Snaps /\ snapshot[j.s] # None
                          /\ snapshot[j.s].event \in Stored \cup {None}
                          /\ \A e \in Stored : event[e].parents \subseteq Stored
        BY <3>1 DEF AdvancedJob, Stored
      <4>1. job[w].step = "list_keys" /\ j.s = job[w].s
        BY <3>1 DEF AdvancedJob
      <4>2. j.s \in Snaps /\ snapshot[j.s] # None
        BY <1>0, <4>1 DEF CopiersOK, Copying
      <4> QED BY <1>0, <4>2, RefFacts DEF RefInv, Referential, Taken, StoredOrNone
    <3>5. JobSnap(j, event, snapshot)
      BY <3>2, <3>3, <3>4 DEF JobSnap
    <3> QED BY <3>1, <3>4, <3>5, JobSnapStep
  <2>3. CASE ReadBranch(w)
    <3> DEFINE j == [job[w] EXCEPT !.step = "put_event", !.row = branch[job[w].b],
                                   !.parents = HeadOf(branch[job[w].b])]
    <3>1. branch[job[w].b] # None
      BY <2>0, <2>3 DEF ReadBranch, At, JobOK
    <3>2. FromSnapshot(branch[job[w].b], snapshot)
      BY <2>0, <3>1, SnapFacts DEF Job
    <3>3. j.row = branch[job[w].b] /\ j.step = "put_event"
      BY <2>0 DEF Job
    <3>4. JobSnap(j, event, snapshot)
      BY <3>2, <3>3 DEF JobSnap
    <3> QED BY <2>3, <3>3, <3>4, JobSnapStep DEF ReadBranch
  <2>4. CASE PutEvent(w)
    <3> PICK e \in EventIds : Become(w, [job[w] EXCEPT !.step = "put_head", !.ev = e])
      BY <2>4 DEF PutEvent
    <3> DEFINE j == [job[w] EXCEPT !.step = "put_head", !.ev = e]
    <3>1. j.row = job[w].row /\ j.step = "put_head"
      BY <2>0 DEF Job
    <3>2. JobSnap(j, event, snapshot)
      BY <2>0, <3>1 DEF JobSnap
    <3> QED BY <3>1, <3>2, JobSnapStep
  <2>5. CASE PutEventAgain(w) \/ Abort(w)
    BY <2>5, <2>a DEF PutEventAgain, Abort
  <2> QED BY <2>a, <2>1, <2>2, <2>3, <2>4, <2>5
<1> QED BY <1>1, <1>2

LEMMA NextRowsFrom == SnapInv /\ [Next]_vars => RowsFrom'
<1> SUFFICES ASSUME SnapInv, [Next]_vars, NEW b \in Branches, branch'[b] # None
             PROVE  FromSnapshot(branch'[b], snapshot')
  BY DEF RowsFrom, Existing
<1> USE ConstantsOK
<1>0. TypeOK /\ TypeOK' /\ KeepsHistory
  BY SnapFacts, StepKeepsHistory, NextTyped DEF TypeInv
<1>1. branch'[b] \in Row
  BY <1>0 DEF TypeOK
<1>2. CASE branch'[b] = branch[b]
  BY <1>0, <1>1, <1>2, SnapFacts, SnapStays
<1>3. ASSUME NEW w \in Workers, PutHead(w) \/ PutRow(w) \/ PutBranch(w) \/ PutBranchAgain(w),
             branch'[b] # branch[b]
      PROVE  FromSnapshot(branch'[b], snapshot')
  <2>0. job[w] \in Job /\ JobSnap(job[w], event, snapshot) /\ snapshot' = snapshot
    BY <1>3, SnapFacts DEF PutHead, PutRow, PutBranch, PutBranchAgain
  <2>1. CASE PutHead(w)
    <3>1. branch'[b] = [job[w].row EXCEPT !.head = job[w].ev]
      BY <1>0, <1>3, <2>1 DEF PutHead, TypeOK
    <3> QED BY <2>0, <3>1 DEF JobSnap, FromSnapshot, Job, Row
  <2>2. CASE PutRow(w)
    <3>1. branch'[b] = [job[w].row EXCEPT !.snap = job[w].s]
      BY <1>0, <1>3, <2>2 DEF PutRow, TypeOK
    <3> QED BY <2>0, <3>1 DEF JobSnap, FromSnapshot, Job, Row
  <2>3. CASE PutBranch(w) \/ PutBranchAgain(w)
    <3>1. branch'[b] = NewRow(job[w]) /\ job[w].step \in {"put_branch", "put_branch_again"}
      BY <1>0, <1>3, <2>3 DEF PutBranch, PutBranchAgain, TypeOK, At
    <3> QED BY <2>0, <3>1 DEF JobSnap, FromSnapshot, NewRow
  <2> QED BY <1>3, <2>1, <2>2, <2>3
<1> QED BY <1>2, <1>3, WhoWrites

LEMMA NextSnapshotComplete == SnapInv /\ [Next]_vars => SnapshotComplete' /\ RecordsStored'
<1> SUFFICES ASSUME SnapInv, [Next]_vars, NEW s \in Snaps, record'[s] # None
             PROVE  /\ snapshot'[s].event \in record'[s].events \cup {None}
                    /\ record'[s].events \subseteq Stored'
                    /\ \A e \in record'[s].events : event'[e].parents \subseteq record'[s].events
  BY DEF SnapshotComplete, RecordsStored
<1> USE ConstantsOK
<1>0. TypeOK /\ CopiersOK /\ KeepsHistory /\ SnapshotComplete /\ RecordsStored
  BY SnapFacts, StepKeepsHistory DEF SnapInv
<1>a. Stored \subseteq Stored'
  BY <1>0 DEF KeepsHistory, Stored
<1>1. CASE record[s] # None
  <2>1. record'[s] = record[s] /\ snapshot'[s] = snapshot[s]
    BY <1>0, <1>1 DEF KeepsHistory, CopiersOK, Taken
  <2>2. /\ snapshot[s].event \in record[s].events \cup {None}
        /\ record[s].events \subseteq Stored
        /\ \A e \in record[s].events : event[e].parents \subseteq record[s].events
    BY <1>0, <1>1 DEF SnapshotComplete, RecordsStored
  <2>3. \A e \in record[s].events : event'[e].parents = event[e].parents
    BY <1>0, <2>2 DEF KeepsHistory
  <2> QED BY <1>a, <2>1, <2>2, <2>3
<1>2. CASE record[s] = None
  <2>1. PICK w \in Workers : CopyRecords(w)
    BY <1>2, WhoWrites
  <2>2. /\ job[w] \in Job /\ job[w].step = "copy_records" /\ JobSnap(job[w], event, snapshot)
        /\ event' = event /\ snapshot' = snapshot
    BY <2>1, SnapFacts DEF CopyRecords, At
  <2>3. s = job[w].s /\ record'[s].events = job[w].keys
    BY <1>0, <1>2, <2>1 DEF CopyRecords, TypeOK
  <2> QED BY <2>2, <2>3 DEF JobSnap, Job, Stored
<1> QED BY <1>1, <1>2

LEMMA NextSnap == SnapInv /\ [Next]_vars => SnapInv'
  BY SnapFacts, NextRef, NextJobSnaps, NextRowsFrom, NextSnapshotComplete DEF SnapInv

\* Concurrent appends never tear a snapshot: its copied events hold the
\* snapshot's event and every ancestor of it.
THEOREM SnapshotsComplete == Spec => []SnapshotComplete
<1>1. SnapInv => SnapshotComplete
  BY DEF SnapInv
<1> QED BY <1>1, InitSnap, NextSnap, PTL DEF Spec

\* A repair branch or a rollback starts at its snapshot's event, however late
\* its row is put and however often it is put back.
THEOREM BranchesStartAtSnapshot == Spec => []StartsAtSnapshot
<1>1. SnapInv => StartsAtSnapshot
  BY DEF SnapInv, RowsFrom, FromSnapshot, StartsAtSnapshot
<1> QED BY <1>1, InitSnap, NextSnap, PTL DEF Spec
=============================================================================
