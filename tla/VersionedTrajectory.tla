------------------------ MODULE VersionedTrajectory ------------------------
(***************************************************************************)
(* One trajectory of ContextDB (contextdb/service.py) and the operations   *)
(* that change its history: append_event, create_branch, snapshot,         *)
(* rollback, and the audited create_version_* operations built from them.  *)
(*                                                                         *)
(* The service takes no lock.  Every store.put_object is one committed     *)
(* SQLite transaction and every get_object one read, so an operation is a  *)
(* sequence of such steps that interleaves with the operations of other    *)
(* HTTP threads and of the MCP process, and that a crash cuts short.  A    *)
(* worker's job holds its place in the sequence and the rows it has read:  *)
(* branches and events are always written back whole.                      *)
(***************************************************************************)

CONSTANTS
  EventIds,       \* ids new_id("evt") can still produce; bounds the run
  Branches,       \* branch names
  Snaps,          \* ids new_id("snap") can still produce; bounds the run
  Workers,        \* concurrent requests
  None,           \* a column that is NULL, a row that does not exist
  Main,           \* the trajectory's default branch
  Ops,            \* the operations clients call
  Writers,        \* Writers[b]: the workers whose clients write branch b
  ClientParents   \* whether clients of append_event name parent_event_ids

ASSUME ConstantsOK ==
  /\ Main \in Branches
  /\ None \notin EventIds \cup Branches \cup Snaps
  /\ Writers \in [Branches -> SUBSET Workers]
  /\ ClientParents \in BOOLEAN

VARIABLES
  event,      \* event[e]: the stored event e, or None
  branch,     \* branch[b]: the stored branch row, or None
  trajHead,   \* head_event_id of the trajectory row
  snapshot,   \* snapshot[s]: the stored snapshot row, or None
  record,     \* record[s]: what snapshot_objects stored for s, or None
  job,        \* job[w]: the request worker w is executing
  acked       \* history: events whose operation has returned to its client

vars == <<event, branch, trajHead, snapshot, record, job, acked>>

-----------------------------------------------------------------------------
(* Rows *)

Event == [branch : Branches, parents : SUBSET EventIds, snap : Snaps \cup {None}]

\* "from" stands for metadata.created_from_snapshot and metadata.rollback_from.
Row == [base : EventIds \cup {None}, head : EventIds \cup {None},
        snap : Snaps \cup {None}, from : Snaps \cup {None}]

Snapshot == [branch : Branches, event : EventIds \cup {None}]

Record == [events : SUBSET EventIds, rows : [Branches -> Row \cup {None}]]

ASSUME NoneIsNoRow == None \notin Event \cup Row \cup Snapshot \cup Record

\* What BranchLog keeps of a row and of an event is not None either.
ASSUME NoneIsNoTip ==
  /\ \A S \in SUBSET EventIds : S # None
  /\ \A base, head \in EventIds \cup {None} : [base |-> base, head |-> head] # None

Steps == {"idle", "read_branch", "put_event", "put_head", "read_traj", "put_traj",
          "read_row", "put_snapshot", "list_keys", "copy_records", "put_row",
          "put_event_again", "read_base", "put_branch", "put_branch_again"}

OpNames == {"none", "append", "branch", "snapshot", "rollback",
            "version_snapshot", "version_branch", "version_rollback"}

EmptyRow == [base |-> None, head |-> None, snap |-> None, from |-> None]

Job == [op : OpNames, step : Steps, b : Branches, src : Branches, base : EventIds \cup {None},
        row : Row, parents : SUBSET EventIds, ev : EventIds \cup {None},
        thead : EventIds \cup {None}, s : Snaps \cup {None},
        keys : SUBSET EventIds, names : SUBSET Branches]

IdleJob == [op |-> "none", step |-> "idle", b |-> Main, src |-> Main, base |-> None,
            row |-> EmptyRow, parents |-> {}, ev |-> None, thead |-> None, s |-> None,
            keys |-> {}, names |-> {}]

Stored   == {e \in EventIds : event[e] # None}
Existing == {b \in Branches : branch[b] # None}
Taken    == {s \in Snaps : snapshot[s] # None}

Idle(w)     == job[w].step = "idle"
At(w, step) == job[w].step = step

Become(w, j) == job' = [job EXCEPT ![w] = j]
Finish(w)    == Become(w, IdleJob)

-----------------------------------------------------------------------------
(* append_event: read the branch row, put the event, put the row with the   *)
(* new head, read the trajectory row, put it back.                          *)

\* The default parents: the head the branch row showed, if it has one.
HeadOf(row) == {row.head} \ {None}

ParentChoices(row) ==
  {HeadOf(row)} \cup (IF ClientParents THEN SUBSET Stored ELSE {})

BeginAppend(w, b) ==
  /\ Idle(w)
  /\ "append" \in Ops
  /\ b \in Existing
  /\ w \in Writers[b]
  /\ \E P \in ParentChoices(branch[b]) :
       Become(w, [IdleJob EXCEPT !.op = "append", !.step = "put_event", !.b = b,
                                 !.row = branch[b], !.parents = P])
  /\ UNCHANGED <<event, branch, trajHead, snapshot, record, acked>>

\* Mutant: the first event of a new branch is appended without its parent.
ReadBranchAsRoot(w) ==
  /\ At(w, "read_branch")
  /\ Become(w, [job[w] EXCEPT !.step = "put_event", !.row = branch[job[w].b]])
  /\ UNCHANGED <<event, branch, trajHead, snapshot, record, acked>>

\* append_event called by create_version_branch and create_version_rollback.
ReadBranch(w) ==
  /\ At(w, "read_branch")
  /\ LET row == branch[job[w].b] IN
       Become(w, [job[w] EXCEPT !.step = "put_event", !.row = row, !.parents = HeadOf(row)])
  /\ UNCHANGED <<event, branch, trajHead, snapshot, record, acked>>

\* Mutant: the event's transaction is never committed.
PutEventUncommitted(w) ==
  /\ At(w, "put_event")
  /\ \E e \in EventIds \ Stored : Become(w, [job[w] EXCEPT !.step = "put_head", !.ev = e])
  /\ UNCHANGED <<event, branch, trajHead, snapshot, record, acked>>

PutEvent(w) ==
  /\ At(w, "put_event")
  /\ \E e \in EventIds \ Stored :
       /\ event' = [event EXCEPT ![e] = [branch  |-> job[w].b,
                                         parents |-> job[w].parents,
                                         snap    |-> None]]
       /\ Become(w, [job[w] EXCEPT !.step = "put_head", !.ev = e])
  /\ UNCHANGED <<branch, trajHead, snapshot, record, acked>>

PutHead(w) ==
  /\ At(w, "put_head")
  /\ branch' = [branch EXCEPT ![job[w].b] = [job[w].row EXCEPT !.head = job[w].ev]]
  /\ Become(w, [job[w] EXCEPT !.step = "read_traj"])
  /\ UNCHANGED <<event, trajHead, snapshot, record, acked>>

\* Mutant: an append on any branch moves the trajectory's head.
ReadTrajectoryAnyBranch(w) ==
  /\ At(w, "read_traj")
  /\ Become(w, [job[w] EXCEPT !.step = "put_traj", !.thead = job[w].ev])
  /\ UNCHANGED <<event, branch, trajHead, snapshot, record, acked>>

ReadTrajectory(w) ==
  /\ At(w, "read_traj")
  /\ Become(w, [job[w] EXCEPT !.step = "put_traj",
                              !.thead = IF job[w].b = Main THEN job[w].ev ELSE trajHead])
  /\ UNCHANGED <<event, branch, trajHead, snapshot, record, acked>>

PutTrajectory(w) ==
  /\ At(w, "put_traj")
  /\ trajHead' = job[w].thead
  /\ IF job[w].op = "version_snapshot"
     THEN /\ Become(w, [job[w] EXCEPT !.step = "read_row"])
          /\ acked' = acked
     ELSE /\ Finish(w)
          /\ acked' = acked \cup {job[w].ev}
  /\ UNCHANGED <<event, branch, snapshot, record>>

-----------------------------------------------------------------------------
(* snapshot: read the branch row, put the snapshot row, list the keys, put  *)
(* the row again (the same columns), copy the listed objects, put the       *)
(* branch row read at the start with its snapshot_id set.                   *)

\* Mutant: the branch is not looked up before it is snapshotted.
BeginSnapshotUnchecked(w, b) ==
  /\ Idle(w)
  /\ "snapshot" \in Ops
  /\ w \in Writers[b]
  /\ Become(w, [IdleJob EXCEPT !.op = "snapshot", !.step = "put_snapshot", !.b = b,
                               !.row = branch[b]])
  /\ UNCHANGED <<event, branch, trajHead, snapshot, record, acked>>

BeginSnapshot(w, b) ==
  /\ Idle(w)
  /\ "snapshot" \in Ops
  /\ b \in Existing
  /\ w \in Writers[b]
  /\ Become(w, [IdleJob EXCEPT !.op = "snapshot", !.step = "put_snapshot", !.b = b,
                               !.row = branch[b]])
  /\ UNCHANGED <<event, branch, trajHead, snapshot, record, acked>>

\* create_version_snapshot appends its system_event before it snapshots.
BeginVersionSnapshot(w, b) ==
  /\ Idle(w)
  /\ "version_snapshot" \in Ops
  /\ b \in Existing
  /\ w \in Writers[b]
  /\ Become(w, [IdleJob EXCEPT !.op = "version_snapshot", !.step = "put_event", !.b = b,
                               !.row = branch[b], !.parents = HeadOf(branch[b])])
  /\ UNCHANGED <<event, branch, trajHead, snapshot, record, acked>>

\* Mutant: create_version_snapshot goes on with the row it read before its append.
ReuseRow(w) ==
  /\ At(w, "read_row")
  /\ Become(w, [job[w] EXCEPT !.step = "put_snapshot"])
  /\ UNCHANGED <<event, branch, trajHead, snapshot, record, acked>>

ReadRow(w) ==
  /\ At(w, "read_row")
  /\ Become(w, [job[w] EXCEPT !.step = "put_snapshot", !.row = branch[job[w].b]])
  /\ UNCHANGED <<event, branch, trajHead, snapshot, record, acked>>

PutSnapshot(w) ==
  /\ At(w, "put_snapshot")
  /\ \E s \in Snaps \ Taken :
       /\ snapshot' = [snapshot EXCEPT ![s] = [branch |-> job[w].b, event |-> job[w].row.head]]
       /\ Become(w, [job[w] EXCEPT !.step = "list_keys", !.s = s])
  /\ UNCHANGED <<event, branch, trajHead, record, acked>>

\* Mutant: only the events appended on the branch itself are listed.
ListKeysOfBranch(w) ==
  /\ At(w, "list_keys")
  /\ Become(w, [job[w] EXCEPT !.step = "copy_records", !.names = Existing,
                              !.keys = {e \in Stored : event[e].branch = job[w].b}])
  /\ UNCHANGED <<event, branch, trajHead, snapshot, record, acked>>

ListKeys(w) ==
  /\ At(w, "list_keys")
  /\ Become(w, [job[w] EXCEPT !.step = "copy_records", !.keys = Stored, !.names = Existing])
  /\ UNCHANGED <<event, branch, trajHead, snapshot, record, acked>>

\* store.snapshot_objects holds the store lock while it reads the listed
\* objects, so their current values are copied at one point in time.
CopyRecords(w) ==
  /\ At(w, "copy_records")
  /\ record' = [record EXCEPT ![job[w].s] =
       [events |-> job[w].keys,
        rows   |-> [b \in Branches |-> IF b \in job[w].names THEN branch[b] ELSE None]]]
  /\ Become(w, [job[w] EXCEPT !.step = "put_row"])
  /\ UNCHANGED <<event, branch, trajHead, snapshot, acked>>

PutRow(w) ==
  /\ At(w, "put_row")
  /\ branch' = [branch EXCEPT ![job[w].b] = [job[w].row EXCEPT !.snap = job[w].s]]
  /\ IF job[w].op = "version_snapshot"
     THEN Become(w, [job[w] EXCEPT !.step = "put_event_again"])
     ELSE Finish(w)
  /\ UNCHANGED <<event, trajHead, snapshot, record, acked>>

\* Mutant: the event is rebuilt with the branch's head as its parent.
PutEventRebuilt(w) ==
  /\ At(w, "put_event_again")
  /\ event' = [event EXCEPT ![job[w].ev] = [branch  |-> job[w].b,
                                            parents |-> HeadOf(branch[job[w].b]),
                                            snap    |-> job[w].s]]
  /\ acked' = acked \cup {job[w].ev}
  /\ Finish(w)
  /\ UNCHANGED <<branch, trajHead, snapshot, record>>

\* Mutant: the second put of the event drops its edges.
PutEventWithoutEdges(w) ==
  /\ At(w, "put_event_again")
  /\ event' = [event EXCEPT ![job[w].ev] = [branch  |-> job[w].b,
                                            parents |-> {},
                                            snap    |-> job[w].s]]
  /\ acked' = acked \cup {job[w].ev}
  /\ Finish(w)
  /\ UNCHANGED <<branch, trajHead, snapshot, record>>

\* create_version_snapshot puts its event again, now with the snapshot_id.
PutEventAgain(w) ==
  /\ At(w, "put_event_again")
  /\ event' = [event EXCEPT ![job[w].ev] = [branch  |-> job[w].b,
                                            parents |-> job[w].parents,
                                            snap    |-> job[w].s]]
  /\ acked' = acked \cup {job[w].ev}
  /\ Finish(w)
  /\ UNCHANGED <<branch, trajHead, snapshot, record>>

-----------------------------------------------------------------------------
(* create_branch and rollback: check that the name is free, find the base,  *)
(* put the new row; nothing holds the name between the check and the put.   *)

\* An absent base_event_id means the head of from_branch: read it next.
NewBranchJob(op, n, src, base, s) ==
  [IdleJob EXCEPT !.op = op, !.b = n, !.src = src, !.base = base, !.s = s,
                  !.step = IF base = None THEN "read_base" ELSE "put_branch"]

\* Mutant: the name of the new branch is not checked.
BeginBranchUnchecked(w, n, src) ==
  /\ Idle(w)
  /\ w \in Writers[n]
  /\ src \in Existing
  /\ \E op \in Ops \cap {"branch", "version_branch"}, base \in Stored \cup {None} :
       Become(w, NewBranchJob(op, n, src, base, None))
  /\ UNCHANGED <<event, branch, trajHead, snapshot, record, acked>>

BeginBranch(w, n, src) ==
  /\ Idle(w)
  /\ n \notin Existing
  /\ w \in Writers[n]
  /\ src \in Existing
  /\ \E op \in Ops \cap {"branch", "version_branch"}, base \in Stored \cup {None} :
       Become(w, NewBranchJob(op, n, src, base, None))
  /\ UNCHANGED <<event, branch, trajHead, snapshot, record, acked>>

\* Mutant: the snapshot's event is ignored and from_branch's head taken instead.
BeginBranchFromHead(w, n, s) ==
  /\ Idle(w)
  /\ "version_branch" \in Ops
  /\ n \notin Existing
  /\ w \in Writers[n]
  /\ s \in Taken
  /\ Become(w, NewBranchJob("version_branch", n, snapshot[s].branch, None, s))
  /\ UNCHANGED <<event, branch, trajHead, snapshot, record, acked>>

\* create_version_branch with a snapshot_id: base and from_branch are the snapshot's.
BeginBranchFromSnapshot(w, n, s) ==
  /\ Idle(w)
  /\ "version_branch" \in Ops
  /\ n \notin Existing
  /\ w \in Writers[n]
  /\ s \in Taken
  /\ Become(w, NewBranchJob("version_branch", n, snapshot[s].branch, snapshot[s].event, s))
  /\ UNCHANGED <<event, branch, trajHead, snapshot, record, acked>>

BeginRollback(w, n, s) ==
  /\ Idle(w)
  /\ s \in Taken
  /\ n \notin Existing
  /\ w \in Writers[n]
  /\ \E op \in Ops \cap {"rollback", "version_rollback"} :
       Become(w, [IdleJob EXCEPT !.op = op, !.step = "put_branch", !.b = n,
                                 !.base = snapshot[s].event, !.s = s])
  /\ UNCHANGED <<event, branch, trajHead, snapshot, record, acked>>

ReadBase(w) ==
  /\ At(w, "read_base")
  /\ Become(w, [job[w] EXCEPT !.step = "put_branch", !.base = branch[job[w].src].head])
  /\ UNCHANGED <<event, branch, trajHead, snapshot, record, acked>>

NewRow(j) ==
  [base |-> j.base, head |-> j.base, from |-> j.s,
   snap |-> IF j.op \in {"rollback", "version_rollback"} THEN j.s ELSE None]

PutBranch(w) ==
  /\ At(w, "put_branch")
  /\ branch' = [branch EXCEPT ![job[w].b] = NewRow(job[w])]
  /\ CASE job[w].op = "version_branch"   -> Become(w, [job[w] EXCEPT !.step = "read_branch"])
       [] job[w].op = "version_rollback" -> Become(w, [job[w] EXCEPT !.step = "put_branch_again"])
       [] OTHER                          -> Finish(w)
  /\ UNCHANGED <<event, trajHead, snapshot, record, acked>>

\* create_version_rollback puts the row it got from rollback again, with more metadata.
PutBranchAgain(w) ==
  /\ At(w, "put_branch_again")
  /\ branch' = [branch EXCEPT ![job[w].b] = NewRow(job[w])]
  /\ Become(w, [job[w] EXCEPT !.step = "read_branch"])
  /\ UNCHANGED <<event, trajHead, snapshot, record, acked>>

-----------------------------------------------------------------------------
(* The process that runs the request dies, or a put raises (a locked        *)
(* database): what is committed stays, the rest of the request never runs.  *)
Abort(w) ==
  /\ ~Idle(w)
  /\ Finish(w)
  /\ UNCHANGED <<event, branch, trajHead, snapshot, record, acked>>

\* create_trajectory stored the trajectory row and an empty main branch.
Init ==
  /\ event = [e \in EventIds |-> None]
  /\ branch = [b \in Branches |-> IF b = Main THEN EmptyRow ELSE None]
  /\ trajHead = None
  /\ snapshot = [s \in Snaps |-> None]
  /\ record = [s \in Snaps |-> None]
  /\ job = [w \in Workers |-> IdleJob]
  /\ acked = {}

AppendSteps(w) ==
  \/ \E b \in Branches : BeginAppend(w, b)
  \/ ReadBranch(w) \/ PutEvent(w) \/ PutHead(w) \/ ReadTrajectory(w) \/ PutTrajectory(w)

SnapshotSteps(w) ==
  \/ \E b \in Branches : BeginSnapshot(w, b) \/ BeginVersionSnapshot(w, b)
  \/ ReadRow(w) \/ PutSnapshot(w) \/ ListKeys(w) \/ CopyRecords(w) \/ PutRow(w)
  \/ PutEventAgain(w)

BranchSteps(w) ==
  \/ \E n, src \in Branches : BeginBranch(w, n, src)
  \/ \E n \in Branches, s \in Snaps : BeginBranchFromSnapshot(w, n, s) \/ BeginRollback(w, n, s)
  \/ ReadBase(w) \/ PutBranch(w) \/ PutBranchAgain(w)

Next ==
  \E w \in Workers : AppendSteps(w) \/ SnapshotSteps(w) \/ BranchSteps(w) \/ Abort(w)

Spec == Init /\ [][Next]_vars

-----------------------------------------------------------------------------
(* Ancestry.  A set of events is closed when it holds its members' parents; *)
(* the history of an event is the least closed set that holds it, which is  *)
(* what list_events and _reachable_event_ids walk along event_edges.        *)

ClosedSet(S) == \A e \in S : event[e] # None => event[e].parents \subseteq S

\* Event a is d or one of d's ancestors; None is everyone's ancestor.
AncestorOrEq(a, d) ==
  \/ a = None
  \/ /\ d # None
     /\ \A S \in SUBSET EventIds : (d \in S /\ ClosedSet(S)) => a \in S

-----------------------------------------------------------------------------
(* Properties *)

\* Every row, snapshot and request has the shape the code gives it.
TypeOK ==
  /\ event \in [EventIds -> Event \cup {None}]
  /\ branch \in [Branches -> Row \cup {None}]
  /\ trajHead \in EventIds \cup {None}
  /\ snapshot \in [Snaps -> Snapshot \cup {None}]
  /\ record \in [Snaps -> Record \cup {None}]
  /\ job \in [Workers -> Job]
  /\ acked \in SUBSET EventIds

StoredOrNone(e) == e = None \/ e \in Stored

\* No reader ever follows a dangling id, at any point of any interleaving and
\* after any crash: the heads and bases of branches (recorded ones too), the
\* trajectory's head, the events of snapshots and the parents of events are
\* stored.  append_event puts the event before any row that names it.
Referential ==
  /\ \A e \in Stored : event[e].parents \subseteq Stored
  /\ \A b \in Existing : StoredOrNone(branch[b].base) /\ StoredOrNone(branch[b].head)
  /\ StoredOrNone(trajHead)
  /\ \A s \in Taken : StoredOrNone(snapshot[s].event)
  /\ \A s \in Snaps, b \in Branches :
       record[s] # None /\ record[s].rows[b] # None => StoredOrNone(record[s].rows[b].head)

\* The events form a DAG, although some are put twice and clients choose
\* parents: every non-empty set of stored events has one without a parent in
\* the set, so the walks of _reachable_event_ids and list_events descend.
Acyclic ==
  \A S \in SUBSET Stored : S # {} => \E e \in S : event[e].parents \cap S = {}

\* A branch head is the branch's base or an event appended on that branch, and
\* the trajectory's head was appended on the default branch, however requests
\* overwrite each other's rows.
HeadOnBranch ==
  /\ \A b \in Existing : \/ branch[b].head = branch[b].base
                         \/ branch[b].head \in Stored /\ event[branch[b].head].branch = b
  /\ trajHead # None => event[trajHead].branch = Main

\* Concurrent appends do not tear a snapshot's history: once its objects are
\* copied they include its event and every ancestor of it.
SnapshotComplete ==
  \A s \in Snaps : record[s] # None =>
    /\ snapshot[s].event # None => snapshot[s].event \in record[s].events
    /\ \A e \in record[s].events : event[e].parents \subseteq record[s].events

\* A branch created from a snapshot (repair branch or rollback) starts at the
\* snapshot's event, whatever was appended since.  (A snapshot of an empty
\* branch has no event; create_version_branch then takes from_branch's head.)
StartsAtSnapshot ==
  \A b \in Existing : LET s == branch[b].from IN
    s # None /\ snapshot[s].event # None => branch[b].base = snapshot[s].event

\* Unless clients name parents themselves, a branch never leaves its base: the
\* base stays in the history of the head, also when appends race.
BaseBelowHead ==
  \A b \in Existing : AncestorOrEq(branch[b].base, branch[b].head)

\* What is stored stays: no step deletes an event or changes its branch or its
\* parents, removes a branch, or changes a snapshot or its records.
KeepsHistory ==
  /\ \A e \in Stored : /\ event'[e] # None
                       /\ event'[e].branch = event[e].branch
                       /\ event'[e].parents = event[e].parents
  /\ \A b \in Existing : branch'[b] # None
  /\ \A s \in Taken : snapshot'[s] = snapshot[s]
  /\ \A s \in Snaps : record[s] # None => record'[s] = record[s]

HistoryKept == [][KeepsHistory]_vars

\* With one writer per branch, an event whose append was acknowledged stays in
\* the history of its branch: no later append, snapshot, rollback, branch
\* creation or crash takes it off.
AckedOnBranch ==
  \A e \in acked : AncestorOrEq(e, branch[event[e].branch].head)

\* With one writer per branch, the trajectory's head never leaves the history
\* of the default branch.  (It may lag: an append on another branch can put
\* back the head it read.)
TrajHeadOnMain == AncestorOrEq(trajHead, branch[Main].head)

\* With one writer per branch, the branch row a snapshot recorded has the head
\* the snapshot names.
RecordMatchesSnapshot ==
  \A s \in Snaps : record[s] # None =>
    record[s].rows[snapshot[s].branch].head = snapshot[s].event

-----------------------------------------------------------------------------
(* The abstract trajectory this implements when each branch has one writer  *)
(* and parents are the default ones.                                        *)

TipOf(row) == IF row = None THEN None ELSE [base |-> row.base, head |-> row.head]

ParentsOfStored == [e \in EventIds |-> IF event[e] = None THEN None ELSE event[e].parents]

Tips == [b \in Branches |-> TipOf(branch[b])]

Log == INSTANCE BranchLog WITH log <- ParentsOfStored, tip <- Tips

\* Every step records an event, advances one tip to a child of the event it was
\* at, forks, or changes neither the log nor a tip: no put takes a tip back.
RefinesBranchLog == Log!Spec

=============================================================================
