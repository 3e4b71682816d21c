-------------------------- MODULE HookSessionProofs --------------------------
(* Theorems about HookSession, for any constants. *)
EXTENDS HookSession, TLAPS

(***************************************************************************)
(* Any number of requests at once.  A request carries its copy of the      *)
(* session record through steps of other requests and puts it back, so     *)
(* each copy must be as sound as the stored record.  Events, branches and  *)
(* snapshots are never removed: a copy that was sound stays so, whatever   *)
(* is stored meanwhile.                                                    *)
(***************************************************************************)

StoredCall(e, t, events) ==
  e \in EventIds /\ events[e] # None /\ events[e].kind = "call" /\ events[e].traj = t

SnapOf(s, t, snaps) == s # None => snaps[s] # None /\ snaps[s].traj = t

\* Advice to repair from snapshot s of trajectory t has its reason.
Advised(s, t, events, snaps) ==
  s # None => \E e \in EventIds : /\ events[e] # None
                                  /\ events[e].kind = "result" /\ events[e].status = "failed"
                                  /\ events[e].traj = t /\ events[e].branch = snaps[s].branch

PendingOK(p, t, events) ==
  p # None => StoredCall(p.event, t, events) /\ events[p.event].branch = p.branch

\* A session record, or a copy of it, names what is there.
RecordOK(r, events, rows, snaps) ==
  /\ r \in Session
  /\ r.active \in rows[r.traj]
  /\ \A c \in CallIds : PendingOK(r.pending[c], r.traj, events)
  /\ SnapOf(r.snap, r.traj, snaps) /\ SnapOf(r.advice, r.traj, snaps)
  /\ Advised(r.advice, r.traj, events, snaps)

\* The result a request has recorded is that of the call it works on.
ResultOf(j, events) ==
  /\ j.res # None /\ events[j.res] # None
  /\ events[j.res].kind = "result" /\ events[j.res].link = j.call
  /\ events[j.res].status = j.status
  /\ events[j.res].traj = j.sess.traj /\ events[j.res].branch = j.b

JobOK(j, events, rows, snaps) ==
  /\ j \in Job /\ j.status # "pending"
  /\ j.op \in {"call", "result"} => j.id # None
  /\ j.mutating => j.op = "call"
  /\ j.step \notin {"idle", "create"} => j.sess # None /\ RecordOK(j.sess, events, rows, snaps)
  /\ j.step \in {"create", "put_new"} => j.op \in {"call", "result", "touch"}
  /\ j.step = "check_call" => j.op = "application"
  /\ j.step \in {"check_call", "record_result", "update_call"} /\ j.call # None =>
       StoredCall(j.call, j.sess.traj, events)
  /\ j.step \in {"record_result", "update_call"} => j.call # None /\ events[j.call].branch = j.b
  /\ j.step = "update_call" => ResultOf(j, events)
  /\ j.step = "record_call" /\ j.mutating =>
       j.sess.snap # None /\ snaps[j.sess.snap] = [traj |-> j.sess.traj, branch |-> j.b]

\* A request delivers its native call as the Agent made it.
Faithful(j, calls) == j.op = "call" => j.mutating = calls[j.id].mutating

LinksStored == \A e \in Stored : event[e].link # None => event[event[e].link] # None

EventInv == event \in [EventIds -> Event \cup {None}] /\ LinksStored /\ OutcomeMatchesResult

NativeInv ==
  /\ native \in [CallIds -> [state : NativeStates, call : EventIds \cup {None},
                             status : {"ok", "failed"}, mutating : BOOLEAN, lost : BOOLEAN]]
  /\ \A c \in CallIds : native[c].call # None => event[native[c].call] # None
  /\ SnapshotBeforeCall

SessionInv ==
  /\ session # None => RecordOK(session, event, branches, snapshot)
  /\ branches \in [Trajs -> SUBSET Branches]
  /\ snapshot \in [Snaps -> Snapshot \cup {None}]
  /\ chosen \in Branches

JobsInv ==
  /\ job \in [Workers -> Job]
  /\ \A w \in Workers : JobOK(job[w], event, branches, snapshot) /\ Faithful(job[w], native)

HookInv == EventInv /\ NativeInv /\ SessionInv /\ JobsInv

LEMMA TypesFollow == HookInv => TypeOK
  BY DEF HookInv, EventInv, NativeInv, SessionInv, JobsInv, RecordOK, TypeOK

\* What no step takes away.
Keeps ==
  /\ \A e \in EventIds : event[e] # None =>
       /\ event'[e] # None
       /\ event'[e].kind = event[e].kind /\ event'[e].traj = event[e].traj
       /\ event'[e].branch = event[e].branch /\ event'[e].id = event[e].id
       /\ event'[e].before = event[e].before
       /\ event[e].kind = "result" => event'[e] = event[e]
  /\ \A t \in Trajs : branches[t] \subseteq branches'[t]
  /\ \A s \in Snaps : snapshot[s] # None => snapshot'[s] = snapshot[s]

LEMMA RecordStays ==
  ASSUME Keeps, NEW r, RecordOK(r, event, branches, snapshot)
  PROVE  RecordOK(r, event', branches', snapshot')
<1>0. /\ r \in Session /\ r.traj \in Trajs /\ r.snap \in Snaps \cup {None}
      /\ r.advice \in Snaps \cup {None} /\ \A c \in CallIds : r.pending[c] \in Pending \cup {None}
  BY DEF RecordOK, Session
<1>1. r.active \in branches'[r.traj]
  BY <1>0 DEF RecordOK, Keeps
<1>2. \A c \in CallIds : PendingOK(r.pending[c], r.traj, event')
  BY <1>0 DEF RecordOK, Keeps, PendingOK, StoredCall, Pending
<1>3. SnapOf(r.snap, r.traj, snapshot') /\ SnapOf(r.advice, r.traj, snapshot')
  BY <1>0 DEF RecordOK, Keeps, SnapOf
<1>4. Advised(r.advice, r.traj, event', snapshot')
  <2> SUFFICES ASSUME r.advice # None PROVE Advised(r.advice, r.traj, event', snapshot')
    BY DEF Advised
  <2>1. snapshot'[r.advice] = snapshot[r.advice]
    BY <1>0 DEF RecordOK, Keeps, SnapOf
  <2> QED BY <2>1 DEF RecordOK, Advised, Keeps
<1> QED BY <1>0, <1>1, <1>2, <1>3, <1>4 DEF RecordOK

LEMMA JobStays ==
  ASSUME Keeps, NEW j, JobOK(j, event, branches, snapshot)
  PROVE  JobOK(j, event', branches', snapshot')
<1>0. /\ j \in Job /\ j.call \in EventIds \cup {None} /\ j.res \in EventIds \cup {None}
      /\ j.sess \in Session \cup {None}
  BY DEF JobOK, Job
<1>1. j.step \notin {"idle", "create"} => RecordOK(j.sess, event', branches', snapshot')
  BY RecordStays DEF JobOK
<1>2. j.step \in {"check_call", "record_result", "update_call"} /\ j.call # None =>
        /\ StoredCall(j.call, j.sess.traj, event')
        /\ event'[j.call].branch = event[j.call].branch
  BY <1>0 DEF JobOK, StoredCall, Keeps
<1>3. j.step = "update_call" => ResultOf(j, event')
  BY <1>0 DEF JobOK, ResultOf, Keeps
<1>4. j.step = "record_call" /\ j.mutating => snapshot'[j.sess.snap] = snapshot[j.sess.snap]
  BY <1>0 DEF JobOK, RecordOK, SnapOf, Keeps, Session
<1> QED BY <1>0, <1>1, <1>2, <1>3, <1>4 DEF JobOK

LEMMA IdleJobOK == JobOK(IdleJob, event, branches, snapshot) /\ Faithful(IdleJob, native)
<1>1. IdleJob \in Job
  BY SessionConstants DEF IdleJob, Job, OpNames, Steps, Statuses
<1> QED BY <1>1 DEF IdleJob, JobOK, Faithful

\* The jobs after a step of w, whose request became j.
LEMMA JobsKept ==
  ASSUME HookInv, Keeps, NEW w \in Workers, NEW j, Become(w, j),
         JobOK(j, event', branches', snapshot'), Faithful(j, native'),
         \A c \in CallIds : native'[c].mutating = native[c].mutating
  PROVE  JobsInv'
<1>1. j \in Job
  BY DEF JobOK
<1>2. job' \in [Workers -> Job] /\ job'[w] = j /\ \A v \in Workers \ {w} : job'[v] = job[v]
  BY <1>1 DEF HookInv, JobsInv, Become
<1> SUFFICES ASSUME NEW v \in Workers, v # w
             PROVE  JobOK(job[v], event', branches', snapshot') /\ Faithful(job[v], native')
  BY <1>2 DEF JobsInv
<1>3. JobOK(job[v], event, branches, snapshot) /\ Faithful(job[v], native)
  BY DEF HookInv, JobsInv
<1>4. JobOK(job[v], event', branches', snapshot')
  BY <1>3, JobStays
<1>5. job[v].op = "call" => job[v].id \in CallIds
  BY <1>3 DEF JobOK, Job
<1> QED BY <1>3, <1>4, <1>5 DEF Faithful

LEMMA KeepsSame ==
  ASSUME event' = event, branches' = branches, snapshot' = snapshot PROVE Keeps
  BY DEF Keeps

\* A step that changes nothing but the request of w.
LEMMA OnlyJob ==
  ASSUME HookInv, UNCHANGED <<session, event, branches, snapshot, native, chosen>>,
         NEW w \in Workers, NEW j, Become(w, j),
         JobOK(j, event, branches, snapshot), Faithful(j, native)
  PROVE  HookInv'
<1>1. Keeps
  BY KeepsSame
<1>2. JobsInv'
  BY <1>1, JobsKept
<1>3. EventInv' /\ NativeInv' /\ SessionInv'
  BY DEF HookInv, EventInv, OutcomeMatchesResult, LinksStored, Stored, NativeInv, SnapshotBeforeCall,
         SessionInv
<1> QED BY <1>2, <1>3 DEF HookInv

LEMMA InitHook == Init => HookInv
<1> SUFFICES ASSUME Init PROVE HookInv
  OBVIOUS
<1>1. EventInv
  BY DEF Init, EventInv, OutcomeMatchesResult, LinksStored, Stored
<1>2. NativeInv
  BY DEF Init, NativeInv, NativeStates, SnapshotBeforeCall
<1>3. SessionInv
  BY SessionConstants DEF Init, SessionInv
<1>4. JobsInv
  <2>1. \A w \in Workers : job[w] = IdleJob
    BY DEF Init
  <2>2. IdleJob \in Job
    BY IdleJobOK DEF JobOK
  <2> QED BY <2>1, <2>2, IdleJobOK DEF JobsInv, Init
<1> QED BY <1>1, <1>2, <1>3, <1>4 DEF HookInv

-----------------------------------------------------------------------------
(* The requests on a sound record: what a request starts with. *)

\* Without the pending entry of c, a sound record is sound.
LEMMA WithoutPending ==
  ASSUME NEW r, RecordOK(r, event, branches, snapshot), NEW c \in CallIds
  PROVE  RecordOK([r EXCEPT !.pending[c] = None], event, branches, snapshot)
<1> DEFINE q == [r EXCEPT !.pending[c] = None]
<1>1. r \in Session
  BY DEF RecordOK
<1>2. /\ q \in Session /\ q.traj = r.traj /\ q.active = r.active
      /\ q.snap = r.snap /\ q.advice = r.advice
      /\ q.pending = [r.pending EXCEPT ![c] = None]
  BY <1>1 DEF Session
<1>3. \A d \in CallIds : q.pending[d] = None \/ q.pending[d] = r.pending[d]
  BY <1>1, <1>2 DEF Session
<1> HIDE DEF q
<1>4. \A d \in CallIds : PendingOK(q.pending[d], q.traj, event)
  BY <1>2, <1>3 DEF RecordOK, PendingOK
<1>5. RecordOK(q, event, branches, snapshot)
  BY <1>2, <1>4 DEF RecordOK
<1> QED BY <1>5 DEF q

\* A request as the client sent it.
Sent(j) ==
  /\ j \in Job /\ j.status # "pending"
  /\ j.op \in {"call", "result", "touch"}
  /\ j.op \in {"call", "result"} => j.id # None
  /\ j.mutating => j.op = "call"

LEMMA LoadedOK ==
  ASSUME NEW j, Sent(j), Faithful(j, native), NEW r, RecordOK(r, event, branches, snapshot)
  PROVE  JobOK(Loaded(j, r), event, branches, snapshot) /\ Faithful(Loaded(j, r), native)
<1>1. r \in Session /\ r # None /\ r.active \in Branches
  BY NoneIsNoRecord DEF RecordOK, Session
<1>2. CASE j.op = "call"
  <2> DEFINE k == CallJob(j, r)
  <2>1. /\ k \in Job /\ k.op = "call" /\ k.id = j.id /\ k.status = j.status
        /\ k.mutating = j.mutating /\ k.sess = r
        /\ k.step = IF j.mutating THEN "snapshot" ELSE "record_call"
    BY <1>1, <1>2 DEF Sent, CallJob, Job, Steps
  <2>2. Loaded(j, r) = k
    BY <1>2 DEF Loaded
  <2> HIDE DEF k
  <2>3. JobOK(k, event, branches, snapshot)
    BY <1>1, <1>2, <2>1 DEF JobOK, Sent
  <2>4. Faithful(k, native)
    BY <1>2, <2>1 DEF Faithful
  <2> QED BY <2>2, <2>3, <2>4
<1>3. CASE j.op = "result"
  <2>0. j.id \in CallIds /\ ~j.mutating
    BY <1>3 DEF Sent, Job
  <2>1. Loaded(j, r) = ResultJob(j, r)
    BY <1>3 DEF Loaded
  <2>2. CASE r.pending[j.id] = None
    <3> DEFINE k == [j EXCEPT !.sess = r, !.b = r.active, !.step = "record_call"]
    <3>1. /\ k \in Job /\ k.op = "result" /\ k.id = j.id /\ k.status = j.status
          /\ k.mutating = j.mutating /\ k.sess = r /\ k.step = "record_call"
      BY <1>1, <1>3 DEF Sent, Job, Steps
    <3>2. Loaded(j, r) = k
      BY <2>1, <2>2 DEF ResultJob
    <3> HIDE DEF k
    <3>3. JobOK(k, event, branches, snapshot) /\ Faithful(k, native)
      BY <1>1, <1>3, <2>0, <3>1 DEF JobOK, Faithful, Sent
    <3> QED BY <3>2, <3>3
  <2>3. CASE r.pending[j.id] # None
    <3> DEFINE p == r.pending[j.id]
               q == [r EXCEPT !.pending[j.id] = None]
               k == [j EXCEPT !.sess = q, !.b = p.branch, !.call = p.event,
                              !.step = "record_result"]
    <3>1. p \in Pending
      BY <1>1, <2>0, <2>3 DEF Session
    <3>2. RecordOK(q, event, branches, snapshot)
      BY <2>0, WithoutPending
    <3>3. q \in Session /\ q # None /\ q.traj = r.traj
      BY <1>1, <3>2, NoneIsNoRecord DEF RecordOK, Session
    <3>4. StoredCall(p.event, r.traj, event) /\ event[p.event].branch = p.branch
      BY <2>0, <2>3 DEF RecordOK, PendingOK
    <3>5. Loaded(j, r) = k
      BY <2>1, <2>3 DEF ResultJob
    <3> HIDE DEF p, q
    <3>6. /\ k \in Job /\ k.op = "result" /\ k.id = j.id /\ k.status = j.status
          /\ k.mutating = j.mutating /\ k.sess = q /\ k.step = "record_result"
          /\ k.call = p.event /\ k.b = p.branch
      BY <1>3, <3>1, <3>3 DEF Sent, Job, Steps, Pending
    <3>7. p.event # None
      BY <3>1, SessionConstants DEF Pending
    <3> HIDE DEF k
    <3>8. JobOK(k, event, branches, snapshot) /\ Faithful(k, native)
      BY <1>3, <2>0, <3>2, <3>3, <3>4, <3>6, <3>7 DEF JobOK, Faithful, Sent
    <3> QED BY <3>5, <3>8
  <2> QED BY <2>2, <2>3
<1>4. CASE j.op = "touch"
  BY <1>4, IdleJobOK DEF Loaded
<1> QED BY <1>2, <1>3, <1>4 DEF Sent

\* A request on the stored record, or on a copy without a pending entry.
LEMMA StartOK ==
  ASSUME HookInv, NEW w \in Workers, NEW j, Sent(j), Faithful(j, native), Start(w, j)
  PROVE  HookInv'
<1>1. CASE session = None
  <2> DEFINE k == [j EXCEPT !.step = "create"]
  <2>1. /\ k \in Job /\ k.op = j.op /\ k.id = j.id /\ k.status = j.status
        /\ k.mutating = j.mutating /\ k.step = "create"
    BY DEF Sent, Job, Steps
  <2>2. Become(w, k) /\ UNCHANGED <<session, event, branches, snapshot, native, chosen>>
    BY <1>1 DEF Start
  <2> HIDE DEF k
  <2>3. JobOK(k, event, branches, snapshot) /\ Faithful(k, native)
    BY <2>1 DEF JobOK, Faithful, Sent
  <2> QED BY <2>2, <2>3, OnlyJob
<1>2. CASE session # None
  <2>1. RecordOK(session, event, branches, snapshot)
    BY <1>2 DEF HookInv, SessionInv
  <2>2. Become(w, Loaded(j, session))
        /\ UNCHANGED <<session, event, branches, snapshot, native, chosen>>
    BY <1>2 DEF Start
  <2>3. JobOK(Loaded(j, session), event, branches, snapshot)
        /\ Faithful(Loaded(j, session), native)
    BY <2>1, LoadedOK
  <2> QED BY <2>2, <2>3, OnlyJob
<1> QED BY <1>1, <1>2

LEMMA BeginCallOK ==
  ASSUME HookInv, NEW w \in Workers, NEW c \in CallIds, BeginCall(w, c) PROVE HookInv'
<1> DEFINE j == [IdleJob EXCEPT !.op = "call", !.id = c, !.mutating = native[c].mutating]
<1>1. native[c].mutating \in BOOLEAN /\ IdleJob \in Job /\ c # None
  BY IdleJobOK, SessionConstants DEF HookInv, NativeInv, JobOK
<1>2. /\ j \in Job /\ j.op = "call" /\ j.id = c /\ j.mutating = native[c].mutating
      /\ j.status = "ok"
  BY <1>1 DEF Job, OpNames, IdleJob
<1>3. Start(w, j)
  BY DEF BeginCall
<1> HIDE DEF j
<1> QED BY <1>1, <1>2, <1>3, StartOK DEF Sent, Faithful

LEMMA BeginResultOK ==
  ASSUME HookInv, NEW w \in Workers, NEW c \in CallIds, BeginResult(w, c) PROVE HookInv'
<1> DEFINE j == [IdleJob EXCEPT !.op = "result", !.id = c, !.status = native[c].status]
<1>1. native[c].status \in {"ok", "failed"} /\ IdleJob \in Job /\ c # None
  BY IdleJobOK, SessionConstants DEF HookInv, NativeInv, JobOK
<1>2. /\ j \in Job /\ j.op = "result" /\ j.id = c /\ ~j.mutating
      /\ j.status = native[c].status
  BY <1>1 DEF Job, OpNames, IdleJob, Statuses
<1>3. Start(w, j)
  BY DEF BeginResult
<1> HIDE DEF j
<1> QED BY <1>1, <1>2, <1>3, StartOK DEF Sent, Faithful

LEMMA BeginFirstOK ==
  ASSUME HookInv, NEW w \in Workers, BeginFirst(w) PROVE HookInv'
<1> DEFINE j == [IdleJob EXCEPT !.op = "touch"]
<1>1. j \in Job /\ j.op = "touch" /\ ~j.mutating /\ j.status = "ok"
  BY IdleJobOK DEF Job, OpNames, IdleJob, JobOK
<1>2. Start(w, j)
  BY DEF BeginFirst
<1> HIDE DEF j
<1> QED BY <1>1, <1>2, StartOK DEF Sent, Faithful

\* A tool's request, before its first step, with a sound record.
Asked(j) ==
  /\ j \in Job /\ j.status # "pending" /\ j.op \notin {"call", "result"} /\ ~j.mutating
  /\ j.step \in {"put_session", "snapshot", "put_branch", "check_call"}
  /\ j.step = "check_call" =>
       /\ j.op = "application" /\ j.sess # None
       /\ j.call # None => StoredCall(j.call, j.sess.traj, event)

LEMMA AskedOK ==
  ASSUME NEW j, Asked(j), j.sess # None, RecordOK(j.sess, event, branches, snapshot)
  PROVE  JobOK(j, event, branches, snapshot) /\ Faithful(j, native)
  BY DEF Asked, JobOK, Faithful

LEMMA AgentStartOK ==
  ASSUME HookInv, NEW w \in Workers, NEW j, Asked(j), j.step # "check_call", AgentStart(w, j)
  PROVE  HookInv'
<1> DEFINE k == [j EXCEPT !.sess = session]
<1>1. RecordOK(session, event, branches, snapshot) /\ session \in Session /\ session # None
  BY DEF AgentStart, HookInv, SessionInv, RecordOK
<1>2. /\ k \in Job /\ k.op = j.op /\ k.status = j.status /\ k.mutating = j.mutating
      /\ k.step = j.step /\ k.sess = session
  BY <1>1 DEF Asked, Job
<1>3. Become(w, k) /\ UNCHANGED <<session, event, branches, snapshot, native, chosen>>
  BY DEF AgentStart
<1> HIDE DEF k
<1>4. JobOK(k, event, branches, snapshot) /\ Faithful(k, native)
  BY <1>1, <1>2, AskedOK DEF Asked
<1> QED BY <1>3, <1>4, OnlyJob

LEMMA TouchingOK ==
  ASSUME HookInv, NEW w \in Workers, AgentStart(w, Touching) PROVE HookInv'
<1>1. Asked(Touching) /\ Touching.step # "check_call"
  BY IdleJobOK DEF Asked, Touching, IdleJob, Job, OpNames, Steps, JobOK
<1> QED BY <1>1, AgentStartOK

LEMMA BeginSnapshotOK ==
  ASSUME HookInv, NEW w \in Workers, BeginSnapshot(w) PROVE HookInv'
<1> DEFINE j == [IdleJob EXCEPT !.op = "snapshot", !.step = "snapshot", !.b = session.active]
<1>1. session.active \in Branches
  BY DEF BeginSnapshot, HookInv, SessionInv, RecordOK, Session
<1>2. Asked(j) /\ j.step # "check_call"
  BY <1>1, IdleJobOK DEF Asked, IdleJob, Job, OpNames, Steps, JobOK
<1>3. AgentStart(w, j)
  BY DEF BeginSnapshot
<1> HIDE DEF j
<1> QED BY <1>2, <1>3, AgentStartOK

LEMMA BeginRepairOK ==
  ASSUME HookInv, NEW w \in Workers, BeginRepair(w) PROVE HookInv'
<1>1. session.snap \in Snaps \cup {None} /\ session.advice \in Snaps \cup {None}
  BY DEF BeginRepair, HookInv, SessionInv, RecordOK, Session
<1>2. PICK s \in Snaps, n \in Branches :
        AgentStart(w, [IdleJob EXCEPT !.op = "repair", !.step = "put_branch", !.s = s, !.n = n])
  BY <1>1 DEF BeginRepair, SnapshotsOf, Taken, FreeNames
<1> DEFINE j == [IdleJob EXCEPT !.op = "repair", !.step = "put_branch", !.s = s, !.n = n]
<1>3. Asked(j) /\ j.step # "check_call"
  BY IdleJobOK DEF Asked, IdleJob, Job, OpNames, Steps, JobOK
<1> HIDE DEF j
<1> QED BY <1>2, <1>3, AgentStartOK DEF j

LEMMA BeginRollbackOK ==
  ASSUME HookInv, NEW w \in Workers, BeginRollback(w) PROVE HookInv'
<1>1. PICK s \in Snaps, n \in Branches :
        AgentStart(w, [IdleJob EXCEPT !.op = "rollback", !.step = "put_branch", !.s = s, !.n = n])
  BY DEF BeginRollback, SnapshotsOf, Taken, FreeNames
<1> DEFINE j == [IdleJob EXCEPT !.op = "rollback", !.step = "put_branch", !.s = s, !.n = n]
<1>2. Asked(j) /\ j.step # "check_call"
  BY IdleJobOK DEF Asked, IdleJob, Job, OpNames, Steps, JobOK
<1> HIDE DEF j
<1> QED BY <1>1, <1>2, AgentStartOK DEF j

LEMMA BeginApplicationOK ==
  ASSUME HookInv, NEW w \in Workers, BeginApplication(w) PROVE HookInv'
<1>1. RecordOK(session, event, branches, snapshot) /\ session \in Session /\ session # None
  BY DEF BeginApplication, HookInv, SessionInv, RecordOK
<1>2. PICK c \in CallIds \cup {None}, e \in MatchingCalls(session.traj),
          status \in {"ok", "failed"} :
        LET p == IF c = None THEN None ELSE session.pending[c] IN
        Become(w, [IdleJob EXCEPT
            !.op = "application", !.step = "check_call", !.status = status,
            !.sess = IF c = None THEN session ELSE [session EXCEPT !.pending[c] = None],
            !.b = session.active,
            !.call = IF e # None \/ p = None THEN e ELSE p.event])
  BY DEF BeginApplication
<1> DEFINE p == IF c = None THEN None ELSE session.pending[c]
           r == IF c = None THEN session ELSE [session EXCEPT !.pending[c] = None]
           call == IF e # None \/ p = None THEN e ELSE p.event
           j == [IdleJob EXCEPT !.op = "application", !.step = "check_call", !.status = status,
                                !.sess = r, !.b = session.active, !.call = call]
<1>3. RecordOK(r, event, branches, snapshot)
  <2>1. CASE c = None
    BY <1>1, <2>1
  <2>2. CASE c # None
    BY <1>1, <2>2, WithoutPending
  <2> QED BY <2>1, <2>2
<1>4. r \in Session /\ r # None /\ r.traj = session.traj
  BY <1>1, <1>3, NoneIsNoRecord DEF RecordOK, Session
<1>5. e # None => StoredCall(e, session.traj, event)
  BY DEF MatchingCalls, CallsOf, Stored, StoredCall
<1>6. p # None => StoredCall(p.event, session.traj, event)
  BY <1>1 DEF RecordOK, PendingOK
<1>7. call # None => StoredCall(call, session.traj, event)
  BY <1>5, <1>6
<1>8. call \in EventIds \cup {None} /\ session.active \in Branches
  BY <1>1, <1>7 DEF StoredCall, Session
<1>9. Become(w, j)
  BY <1>2
<1> HIDE DEF r, call, p
<1>10. /\ j \in Job /\ j.op = "application" /\ j.status = status /\ ~j.mutating
       /\ j.step = "check_call" /\ j.sess = r /\ j.call = call
  BY <1>4, <1>8, IdleJobOK DEF IdleJob, Job, OpNames, Steps, Statuses, JobOK
<1> HIDE DEF j
<1>11. Asked(j)
  BY <1>4, <1>7, <1>10 DEF Asked
<1>12. JobOK(j, event, branches, snapshot) /\ Faithful(j, native)
  BY <1>3, <1>4, <1>10, <1>11, AskedOK
<1> QED BY <1>9, <1>12, OnlyJob DEF BeginApplication

-----------------------------------------------------------------------------
(* The steps of a request. *)

LEMMA CheckCallOK ==
  ASSUME HookInv, NEW w \in Workers, CheckCall(w) PROVE HookInv'
<1> DEFINE e == job[w].call
           k == [job[w] EXCEPT !.step = "record_result", !.b = event[e].branch]
           n == [job[w] EXCEPT !.step = "record_call", !.call = None]
<1>1. /\ job[w] \in Job /\ JobOK(job[w], event, branches, snapshot) /\ job[w].step = "check_call"
      /\ Faithful(job[w], native)
  BY DEF HookInv, JobsInv, CheckCall, At
<1>2. ~job[w].mutating \/ job[w].op = "call"
  BY <1>1 DEF JobOK
<1>3. CASE e # None /\ event[e].status \in {"pending", job[w].status}
  <2>1. StoredCall(e, job[w].sess.traj, event) /\ event[e] \in Event
    BY <1>1, <1>3 DEF JobOK, StoredCall, HookInv, EventInv
  <2>2. event[e].branch \in Branches
    BY <2>1 DEF Event
  <2>3. /\ k \in Job /\ k.op = job[w].op /\ k.id = job[w].id /\ k.status = job[w].status
        /\ k.mutating = job[w].mutating /\ k.sess = job[w].sess /\ k.call = e
        /\ k.step = "record_result" /\ k.b = event[e].branch
    BY <1>1, <2>2 DEF Job, Steps
  <2>4. Become(w, k)
    BY <1>3 DEF CheckCall
  <2> HIDE DEF e, k
  <2>5. JobOK(k, event, branches, snapshot) /\ Faithful(k, native)
    BY <1>1, <1>3, <2>1, <2>3 DEF JobOK, Faithful, e
  <2> QED BY <2>4, <2>5, OnlyJob DEF CheckCall
<1>4. CASE ~(e # None /\ event[e].status \in {"pending", job[w].status})
  <2>1. /\ n \in Job /\ n.op = job[w].op /\ n.id = job[w].id /\ n.status = job[w].status
        /\ n.mutating = job[w].mutating /\ n.sess = job[w].sess /\ n.step = "record_call"
    BY <1>1 DEF Job, Steps
  <2>2. Become(w, n)
    BY <1>4 DEF CheckCall
  <2> HIDE DEF e, n
  <2>3. JobOK(n, event, branches, snapshot) /\ Faithful(n, native)
    BY <1>1, <1>4, <2>1 DEF JobOK, Faithful, e
  <2> QED BY <2>2, <2>3, OnlyJob DEF CheckCall
<1> QED BY <1>3, <1>4

\* What every step of a request starts from.
LEMMA JobAt ==
  ASSUME HookInv, NEW w \in Workers
  PROVE  /\ job[w] \in Job /\ JobOK(job[w], event, branches, snapshot)
         /\ Faithful(job[w], native) /\ job[w].status \in {"ok", "failed"}
         /\ job[w].step \notin {"idle", "create"} =>
              job[w].sess # None /\ RecordOK(job[w].sess, event, branches, snapshot)
              /\ job[w].sess \in Session
  BY DEF HookInv, JobsInv, JobOK, RecordOK, Job, Statuses

\* The stored record stays sound when the step does not put one.
LEMMA SessionStays ==
  ASSUME HookInv, Keeps, session' = session, chosen' = chosen,
         branches' \in [Trajs -> SUBSET Branches], snapshot' \in [Snaps -> Snapshot \cup {None}]
  PROVE  SessionInv'
<1>1. session # None => RecordOK(session, event', branches', snapshot')
  BY RecordStays DEF HookInv, SessionInv
<1> QED BY <1>1 DEF HookInv, SessionInv

LEMMA CreateTrajectoryOK ==
  ASSUME HookInv, NEW w \in Workers, CreateTrajectory(w) PROVE HookInv'
<1>1. PICK t \in Trajs :
        /\ branches[t] = {} /\ branches' = [branches EXCEPT ![t] = {Main}]
        /\ Become(w, [job[w] EXCEPT !.sess = FreshSession(t), !.step = "put_new"])
  BY DEF CreateTrajectory
<1> DEFINE r == FreshSession(t)
           k == [job[w] EXCEPT !.sess = r, !.step = "put_new"]
<1>2. branches' \in [Trajs -> SUBSET Branches] /\ branches'[t] = {Main}
  BY <1>1, SessionConstants DEF HookInv, SessionInv
<1>3. Keeps
  BY <1>1, <1>2 DEF Keeps, CreateTrajectory, HookInv, SessionInv
<1>4. /\ r \in Session /\ r.traj = t /\ r.active = Main /\ r.snap = None /\ r.advice = None
      /\ \A c \in CallIds : r.pending[c] = None
  BY SessionConstants DEF FreshSession, Session
<1>5. r # None
  BY <1>4, NoneIsNoRecord
<1> HIDE DEF r
<1>6. RecordOK(r, event', branches', snapshot')
  BY <1>2, <1>4 DEF RecordOK, PendingOK, SnapOf, Advised
<1>7. /\ k \in Job /\ k.op = job[w].op /\ k.id = job[w].id /\ k.status = job[w].status
      /\ k.mutating = job[w].mutating /\ k.sess = r /\ k.step = "put_new"
  BY <1>4, JobAt DEF Job, Steps
<1>8. Become(w, k)
  BY <1>1 DEF r
<1> HIDE DEF k
<1>9. JobOK(k, event', branches', snapshot') /\ Faithful(k, native')
  BY <1>5, <1>6, <1>7, JobAt DEF JobOK, Faithful, CreateTrajectory, At
<1>10. JobsInv'
  BY <1>3, <1>8, <1>9, JobsKept DEF CreateTrajectory
<1>11. EventInv' /\ NativeInv'
  BY DEF CreateTrajectory, HookInv, EventInv, OutcomeMatchesResult, LinksStored, Stored, NativeInv,
         SnapshotBeforeCall
<1>12. SessionInv'
  BY <1>2, <1>3, SessionStays DEF CreateTrajectory, HookInv, SessionInv
<1> QED BY <1>10, <1>11, <1>12 DEF HookInv

LEMMA PutNewSessionOK ==
  ASSUME HookInv, NEW w \in Workers, PutNewSession(w) PROVE HookInv'
<1> DEFINE r == job[w].sess
           k == Loaded(job[w], r)
<1>1. RecordOK(r, event, branches, snapshot) /\ job[w].step = "put_new"
  BY JobAt DEF PutNewSession, At
<1>2. Sent(job[w]) /\ Faithful(job[w], native)
  BY <1>1, JobAt DEF Sent, JobOK
<1>3. JobOK(k, event, branches, snapshot) /\ Faithful(k, native)
  BY <1>1, <1>2, LoadedOK
<1>4. /\ Become(w, k) /\ session' = r
      /\ UNCHANGED <<event, branches, snapshot, native, chosen>>
  BY DEF PutNewSession
<1> HIDE DEF r, k
<1>5. JobsInv'
  BY <1>3, <1>4, KeepsSame, JobsKept
<1>6. EventInv' /\ NativeInv'
  BY <1>4 DEF HookInv, EventInv, OutcomeMatchesResult, LinksStored, Stored, NativeInv, SnapshotBeforeCall
<1>7. SessionInv'
  BY <1>1, <1>4 DEF HookInv, SessionInv
<1> QED BY <1>5, <1>6, <1>7 DEF HookInv

LEMMA TakeSnapshotOK ==
  ASSUME HookInv, NEW w \in Workers, TakeSnapshot(w) PROVE HookInv'
<1> DEFINE r == job[w].sess
           new(s) == [traj |-> r.traj, branch |-> job[w].b]
           q(s) == [r EXCEPT !.snap = s]
           k(s) == [job[w] EXCEPT !.sess.snap = s,
                       !.step = IF job[w].op = "call" THEN "record_call" ELSE "put_session"]
<1>1. PICK s \in Snaps :
        /\ snapshot[s] = None
        /\ snapshot' = [snapshot EXCEPT ![s] = new(s)]
        /\ Become(w, k(s))
  BY DEF TakeSnapshot, Taken
<1>2. /\ RecordOK(r, event, branches, snapshot) /\ r \in Session /\ r # None
      /\ job[w] \in Job /\ job[w].step = "snapshot"
  BY JobAt DEF TakeSnapshot, At
<1>3. new(s) \in Snapshot /\ new(s) # None
  BY <1>2, NoneIsNoRecord DEF Session, Job, Snapshot
<1>4. snapshot' \in [Snaps -> Snapshot \cup {None}] /\ snapshot'[s] = new(s)
  BY <1>1, <1>3 DEF HookInv, SessionInv
<1>5. Keeps
  BY <1>1, <1>4 DEF Keeps, TakeSnapshot, HookInv, SessionInv
<1>6. /\ q(s) \in Session /\ q(s).traj = r.traj /\ q(s).active = r.active /\ q(s).snap = s
      /\ q(s).pending = r.pending /\ q(s).advice = r.advice
  BY <1>2 DEF Session
<1>7. q(s) # None
  BY <1>6, NoneIsNoRecord
<1>8. RecordOK(r, event', branches', snapshot')
  BY <1>2, <1>5, RecordStays
<1>9. RecordOK(q(s), event', branches', snapshot')
  <2> HIDE DEF q
  <2> QED BY <1>3, <1>4, <1>6, <1>8 DEF RecordOK, SnapOf
<1>10. /\ k(s) \in Job /\ k(s).op = job[w].op /\ k(s).id = job[w].id
       /\ k(s).status = job[w].status /\ k(s).mutating = job[w].mutating /\ k(s).b = job[w].b
       /\ k(s).sess = q(s)
       /\ k(s).step = IF job[w].op = "call" THEN "record_call" ELSE "put_session"
  BY <1>2, <1>6 DEF Job, Steps
<1>11. s # None
  BY SessionConstants
<1>12. JobOK(k(s), event', branches', snapshot') /\ Faithful(k(s), native')
  <2> HIDE DEF k, q
  <2> QED BY <1>4, <1>6, <1>7, <1>9, <1>10, <1>11, JobAt DEF JobOK, Faithful, TakeSnapshot
<1>13. JobsInv'
  <2> HIDE DEF k
  <2> QED BY <1>1, <1>5, <1>12, JobsKept DEF TakeSnapshot
<1>14. EventInv'
  BY DEF TakeSnapshot, HookInv, EventInv, OutcomeMatchesResult, LinksStored, Stored
<1>15. SessionInv'
  BY <1>4, <1>5, SessionStays DEF TakeSnapshot, HookInv, SessionInv
<1>16. NativeInv'
  <2> HIDE DEF new, k
  <2>1. native \in [CallIds -> [state : NativeStates, call : EventIds \cup {None},
                             status : {"ok", "failed"}, mutating : BOOLEAN, lost : BOOLEAN]]
    BY DEF HookInv, NativeInv
  <2>2. SnapshotBeforeCall'
    <3> SUFFICES ASSUME NEW c \in CallIds, native[c].call # None, native[c].mutating
                 PROVE  LET e == native[c].call IN
                        /\ event[e].before # None
                        /\ snapshot'[event[e].before]
                             = [traj |-> event[e].traj, branch |-> event[e].branch]
      BY DEF SnapshotBeforeCall, TakeSnapshot
    <3> DEFINE e == native[c].call
    <3>1. event[e] \in Event /\ event[e].before # None
          /\ snapshot[event[e].before] = [traj |-> event[e].traj, branch |-> event[e].branch]
      BY <2>1 DEF HookInv, EventInv, NativeInv, SnapshotBeforeCall
    <3>2. [traj |-> event[e].traj, branch |-> event[e].branch] \in Snapshot
      BY <3>1 DEF Event, Snapshot
    <3>3. event[e].before \in Snaps /\ snapshot[event[e].before] # None
      BY <3>1, <3>2, NoneIsNoRecord DEF Event
    <3> QED BY <3>1, <3>3, <1>5 DEF Keeps
  <2> QED BY <2>2 DEF TakeSnapshot, HookInv, NativeInv
<1> QED BY <1>13, <1>14, <1>15, <1>16 DEF HookInv

\* Recording an event leaves the others alone.
LEMMA Recorded ==
  ASSUME EventInv, NEW e \in EventIds, event[e] = None, NEW v \in Event,
         event' = [event EXCEPT ![e] = v],
         v.kind = "call" => v.status = "pending" /\ v.link = None,
         v.link # None => event[v.link] # None
  PROVE  /\ EventInv'
         /\ event'[e] = v
         /\ \A f \in EventIds : event[f] # None => event'[f] = event[f]
<1>1. v # None
  BY NoneIsNoRecord
<1>2. event' \in [EventIds -> Event \cup {None}] /\ event'[e] = v
      /\ \A f \in EventIds \ {e} : event'[f] = event[f]
  BY DEF EventInv
<1>3. \A f \in EventIds : event[f] # None => event'[f] = event[f]
  BY <1>2
<1>4. ASSUME NEW f \in EventIds, event'[f] # None
      PROVE  /\ event'[f].link # None => event'[event'[f].link] # None
             /\ f # e => /\ event[f] # None /\ event'[f] = event[f] /\ event[f] \in Event
                         /\ event[f].link # None =>
                              event[event[f].link] # None
                              /\ event'[event[f].link] = event[event[f].link]
  <2>1. CASE f = e
    <3>1. v.link \in EventIds \cup {None}
      BY DEF Event
    <3> QED BY <1>2, <1>3, <2>1, <3>1
  <2>2. CASE f # e
    <3>1. event[f] # None /\ event'[f] = event[f] /\ event[f] \in Event
      BY <1>2, <1>4, <2>2 DEF EventInv
    <3>2. event[f].link \in EventIds \cup {None}
      BY <3>1 DEF Event
    <3>3. event[f].link # None => event[event[f].link] # None
      BY <3>1 DEF EventInv, LinksStored, Stored
    <3> QED BY <1>3, <2>2, <3>1, <3>2, <3>3
  <2> QED BY <2>1, <2>2
<1>5. LinksStored'
  BY <1>4 DEF LinksStored, Stored
<1>6. OutcomeMatchesResult'
  <2> SUFFICES ASSUME NEW f \in EventIds, event'[f] # None, event'[f].kind = "call"
               PROVE  /\ event'[f].status = "pending" <=> event'[f].link = None
                      /\ event'[f].link # None =>
                           LET r == event'[event'[f].link] IN
                           /\ r.kind = "result" /\ r.link = f /\ r.status = event'[f].status
                           /\ r.traj = event'[f].traj /\ r.branch = event'[f].branch
    BY DEF OutcomeMatchesResult, Stored
  <2>1. CASE f = e
    BY <1>2, <2>1
  <2>2. CASE f # e
    BY <1>4, <2>2 DEF EventInv, OutcomeMatchesResult, Stored
  <2> QED BY <2>1, <2>2
<1> QED BY <1>2, <1>3, <1>5, <1>6 DEF EventInv

\* The calls' snapshots and events stay on record.
LEMMA NativeStays ==
  ASSUME HookInv, Keeps,
         native' \in [CallIds -> [state : NativeStates, call : EventIds \cup {None},
                                  status : {"ok", "failed"}, mutating : BOOLEAN,
                                  lost : BOOLEAN]],
         \A c \in CallIds :
           /\ native'[c].mutating = native[c].mutating
           /\ \/ native'[c].call = native[c].call
              \/ /\ native'[c].call # None => event'[native'[c].call] # None
                 /\ native'[c].call # None /\ native'[c].mutating =>
                      LET e == native'[c].call IN
                      /\ event'[e].before # None
                      /\ snapshot'[event'[e].before]
                           = [traj |-> event'[e].traj, branch |-> event'[e].branch]
  PROVE  NativeInv'
<1> SUFFICES ASSUME NEW c \in CallIds, native'[c].call = native[c].call, native[c].call # None,
                    native'[c].mutating = native[c].mutating
             PROVE  LET e == native[c].call IN
                    /\ event'[e] # None
                    /\ native[c].mutating =>
                         /\ event'[e].before # None
                         /\ snapshot'[event'[e].before]
                              = [traj |-> event'[e].traj, branch |-> event'[e].branch]
  BY DEF NativeInv, SnapshotBeforeCall
<1> DEFINE e == native[c].call
<1>1. e \in EventIds /\ event[e] # None
  BY DEF HookInv, NativeInv
<1>2. event[e] \in Event
  BY <1>1 DEF HookInv, EventInv
<1>3. /\ event'[e] # None /\ event'[e].traj = event[e].traj
      /\ event'[e].branch = event[e].branch /\ event'[e].before = event[e].before
  BY <1>1 DEF Keeps
<1>4. CASE native[c].mutating
  <2>1. /\ event[e].before # None
        /\ snapshot[event[e].before] = [traj |-> event[e].traj, branch |-> event[e].branch]
    BY <1>4 DEF HookInv, NativeInv, SnapshotBeforeCall
  <2>2. [traj |-> event[e].traj, branch |-> event[e].branch] \in Snapshot
    BY <1>2 DEF Event, Snapshot
  <2>3. event[e].before \in Snaps /\ snapshot[event[e].before] # None
    BY <1>2, <2>1, <2>2, NoneIsNoRecord DEF Event
  <2>4. snapshot'[event[e].before] = snapshot[event[e].before]
    BY <2>3 DEF Keeps
  <2> QED BY <1>3, <2>1, <2>4
<1>5. CASE ~native[c].mutating
  BY <1>3, <1>5
<1> QED BY <1>4, <1>5

LEMMA RecordCallOK ==
  ASSUME HookInv, NEW w \in Workers, RecordCall(w) PROVE HookInv'
<1> DEFINE r == job[w].sess
           before == IF job[w].mutating THEN r.snap ELSE None
           v == NewCall(job[w], before)
           implicit(e) == [job[w] EXCEPT !.call = e, !.step = "record_result"]
           p(e) == [event |-> e, branch |-> job[w].b]
           pending(e) == [job[w] EXCEPT !.sess.pending[job[w].id] = p(e),
                                        !.call = e, !.step = "put_session"]
<1>1. PICK e \in EventIds :
        /\ event[e] = None /\ event' = [event EXCEPT ![e] = v]
        /\ IF job[w].op = "call"
           THEN Become(w, pending(e)) /\ native' = [native EXCEPT ![job[w].id].call = e]
           ELSE Become(w, implicit(e)) /\ native' = native
  BY DEF RecordCall, Stored
<1>2. /\ RecordOK(r, event, branches, snapshot) /\ r \in Session /\ r # None
      /\ job[w] \in Job /\ job[w].step = "record_call"
      /\ JobOK(job[w], event, branches, snapshot) /\ Faithful(job[w], native)
      /\ job[w].status # "pending"
  BY JobAt DEF RecordCall, At, JobOK
<1>3. before \in Snaps \cup {None}
  BY <1>2 DEF Session
<1> HIDE DEF before
<1>4. /\ v \in Event /\ v.kind = "call" /\ v.traj = r.traj /\ v.branch = job[w].b
      /\ v.status = "pending" /\ v.link = None /\ v.before = before /\ v.id = job[w].id
  BY <1>2, <1>3 DEF NewCall, Event, Session, Job, Statuses
<1> HIDE DEF v
<1>5. EventInv' /\ event'[e] = v /\ \A f \in EventIds : event[f] # None => event'[f] = event[f]
  BY <1>1, <1>4, Recorded DEF HookInv
<1>6. Keeps
  BY <1>5 DEF Keeps, RecordCall
<1>7. SessionInv'
  BY <1>6, SessionStays DEF RecordCall, HookInv, SessionInv
<1>8. RecordOK(r, event', branches', snapshot')
  BY <1>2, <1>6, RecordStays
<1>9. event'[e] # None /\ e # None
  BY <1>4, <1>5, NoneIsNoRecord, SessionConstants
<1>10. CASE job[w].op = "call"
  <2> DEFINE c == job[w].id
             q == [r EXCEPT !.pending[c] = p(e)]
             k == pending(e)
  <2>1. c \in CallIds /\ job[w].mutating = native[c].mutating
    BY <1>2, <1>10 DEF JobOK, Job, Faithful
  <2>2. p(e) \in Pending /\ p(e).event = e /\ p(e).branch = job[w].b
    BY <1>2 DEF Pending, Job
  <2> HIDE DEF p
  <2>3. /\ q \in Session /\ q.traj = r.traj /\ q.active = r.active /\ q.snap = r.snap
        /\ q.advice = r.advice /\ q.pending[c] = p(e)
        /\ \A d \in CallIds \ {c} : q.pending[d] = r.pending[d]
    BY <1>2, <2>1, <2>2 DEF Session
  <2>4. q # None
    BY <2>3, NoneIsNoRecord
  <2>5. k \in Job /\ k.op = "call" /\ k.id = c /\ k.status = job[w].status
        /\ k.mutating = job[w].mutating /\ k.sess = q /\ k.step = "put_session"
    BY <1>2, <1>10, <2>3 DEF Job, Steps
  <2>6. Become(w, k) /\ native' = [native EXCEPT ![c].call = e]
    BY <1>1, <1>10
  <2> HIDE DEF q, k, c
  <2>7. StoredCall(e, r.traj, event') /\ event'[e].branch = job[w].b
    BY <1>4, <1>5, <1>9 DEF StoredCall
  <2>8. \A d \in CallIds : PendingOK(q.pending[d], q.traj, event')
    <3> SUFFICES ASSUME NEW d \in CallIds PROVE PendingOK(q.pending[d], q.traj, event')
      OBVIOUS
    <3>1. CASE d = c
      BY <2>2, <2>3, <2>7, <3>1 DEF PendingOK
    <3>2. CASE d # c
      BY <1>8, <2>3, <3>2 DEF RecordOK
    <3> QED BY <3>1, <3>2
  <2>9. RecordOK(q, event', branches', snapshot')
    BY <1>8, <2>3, <2>8 DEF RecordOK
  <2>10. /\ native' \in [CallIds -> [state : NativeStates, call : EventIds \cup {None},
                                     status : {"ok", "failed"}, mutating : BOOLEAN,
                                     lost : BOOLEAN]]
         /\ native'[c].call = e
         /\ \A d \in CallIds : native'[d].mutating = native[d].mutating
         /\ \A d \in CallIds \ {c} : native'[d] = native[d]
    BY <2>1, <2>6 DEF HookInv, NativeInv
  <2>11. JobOK(k, event', branches', snapshot') /\ Faithful(k, native')
    BY <1>2, <2>1, <2>4, <2>5, <2>9, <2>10, SessionConstants DEF JobOK, Faithful
  <2>12. JobsInv'
    BY <1>6, <2>6, <2>10, <2>11, JobsKept
  <2>13. native[c].mutating =>
           /\ event'[e].before # None
           /\ snapshot'[event'[e].before] = [traj |-> event'[e].traj, branch |-> event'[e].branch]
    <3> SUFFICES ASSUME native[c].mutating
                 PROVE  /\ event'[e].before # None
                        /\ snapshot'[event'[e].before]
                             = [traj |-> event'[e].traj, branch |-> event'[e].branch]
      OBVIOUS
    <3>1. r.snap # None /\ snapshot[r.snap] = [traj |-> r.traj, branch |-> job[w].b]
      BY <1>2, <2>1 DEF JobOK
    <3>2. event'[e].before = r.snap
      BY <1>4, <1>5, <2>1 DEF before
    <3> QED BY <1>4, <1>5, <3>1, <3>2 DEF RecordCall
  <2>14. NativeInv'
    BY <1>6, <1>9, <2>10, <2>13, NativeStays
  <2> QED BY <1>5, <1>7, <2>12, <2>14 DEF HookInv
<1>11. CASE job[w].op # "call"
  <2> DEFINE k == implicit(e)
  <2>1. k \in Job /\ k.op = job[w].op /\ k.id = job[w].id /\ k.status = job[w].status
        /\ k.mutating = job[w].mutating /\ k.sess = r /\ k.step = "record_result"
        /\ k.call = e /\ k.b = job[w].b
    BY <1>2, <1>11 DEF Job, Steps
  <2>2. Become(w, k) /\ native' = native
    BY <1>1, <1>11
  <2> HIDE DEF k
  <2>3. StoredCall(e, r.traj, event') /\ event'[e].branch = job[w].b
    BY <1>4, <1>5, <1>9 DEF StoredCall
  <2>4. JobOK(k, event', branches', snapshot') /\ Faithful(k, native')
    BY <1>2, <1>8, <1>9, <1>11, <2>1, <2>3 DEF JobOK, Faithful
  <2>5. JobsInv'
    BY <1>6, <2>2, <2>4, JobsKept
  <2>6. NativeInv'
    BY <1>6, <2>2, NativeStays DEF HookInv, NativeInv
  <2> QED BY <1>5, <1>7, <2>5, <2>6 DEF HookInv
<1> QED BY <1>10, <1>11

LEMMA RecordResultOK ==
  ASSUME HookInv, NEW w \in Workers, RecordResult(w) PROVE HookInv'
<1> DEFINE r == job[w].sess
           v == [kind |-> "result", traj |-> r.traj, branch |-> job[w].b,
                 status |-> job[w].status, link |-> job[w].call, id |-> job[w].id,
                 before |-> None]
           k(e) == [job[w] EXCEPT !.res = e, !.step = "update_call"]
<1>1. PICK e \in EventIds :
        event[e] = None /\ event' = [event EXCEPT ![e] = v] /\ Become(w, k(e))
  BY DEF RecordResult, Stored
<1>2. /\ RecordOK(r, event, branches, snapshot) /\ r \in Session /\ r # None
      /\ job[w] \in Job /\ job[w].step = "record_result"
      /\ JobOK(job[w], event, branches, snapshot) /\ Faithful(job[w], native)
      /\ job[w].status # "pending"
  BY JobAt DEF RecordResult, At, JobOK
<1>3. /\ job[w].call # None /\ StoredCall(job[w].call, r.traj, event)
      /\ event[job[w].call].branch = job[w].b
  BY <1>2 DEF JobOK
<1>4. /\ v \in Event /\ v.kind = "result" /\ v.traj = r.traj /\ v.branch = job[w].b
      /\ v.status = job[w].status /\ v.link = job[w].call
  BY <1>2 DEF Event, Session, Job
<1> HIDE DEF v
<1>5. EventInv' /\ event'[e] = v /\ \A f \in EventIds : event[f] # None => event'[f] = event[f]
  BY <1>1, <1>3, <1>4, Recorded DEF HookInv, StoredCall
<1>6. Keeps
  BY <1>5 DEF Keeps, RecordResult
<1>7. SessionInv'
  BY <1>6, SessionStays DEF RecordResult, HookInv, SessionInv
<1>8. RecordOK(r, event', branches', snapshot')
  BY <1>2, <1>6, RecordStays
<1>9. event'[e] # None /\ e # None
  BY <1>4, <1>5, NoneIsNoRecord, SessionConstants
<1>10. /\ k(e) \in Job /\ k(e).op = job[w].op /\ k(e).id = job[w].id
       /\ k(e).status = job[w].status /\ k(e).mutating = job[w].mutating /\ k(e).sess = r
       /\ k(e).step = "update_call" /\ k(e).call = job[w].call /\ k(e).b = job[w].b
       /\ k(e).res = e
  BY <1>2 DEF Job, Steps
<1> HIDE DEF k
<1>11. ResultOf(k(e), event')
  BY <1>4, <1>5, <1>9, <1>10 DEF ResultOf
<1>12. StoredCall(job[w].call, r.traj, event') /\ event'[job[w].call].branch = job[w].b
  BY <1>3, <1>5 DEF StoredCall
<1>13. JobOK(k(e), event', branches', snapshot') /\ Faithful(k(e), native')
  BY <1>2, <1>3, <1>8, <1>10, <1>11, <1>12 DEF JobOK, Faithful, RecordResult
<1>14. JobsInv'
  BY <1>1, <1>6, <1>13, JobsKept DEF RecordResult
<1>15. NativeInv'
  BY <1>6, NativeStays DEF HookInv, NativeInv, RecordResult
<1> QED BY <1>5, <1>7, <1>14, <1>15 DEF HookInv

\* The outcome goes to the call alone, and the result is another event.
LEMMA Updated ==
  ASSUME HookInv, NEW w \in Workers, UpdateCall(w)
  PROVE  LET e == job[w].call
             x == job[w].res
         IN
         /\ e # None /\ StoredCall(e, job[w].sess.traj, event) /\ event[e].branch = job[w].b
         /\ ResultOf(job[w], event)
         /\ e \in EventIds /\ event[e] \in Event /\ event[e].kind = "call"
         /\ x \in EventIds /\ event[x] # None /\ event[x].kind = "result"
         /\ event' \in [EventIds -> Event \cup {None}]
         /\ \A f \in EventIds \ {e} : event'[f] = event[f]
         /\ event'[e] \in Event
         /\ event'[e].kind = "call" /\ event'[e].traj = event[e].traj
         /\ event'[e].branch = event[e].branch /\ event'[e].id = event[e].id
         /\ event'[e].before = event[e].before
         /\ event'[e].status = job[w].status /\ event'[e].link = x
         /\ event'[e] # None /\ e # x /\ event'[x] = event[x]
<1> DEFINE r == job[w].sess
           e == job[w].call
           x == job[w].res
<1>1. event' = [event EXCEPT ![e].status = job[w].status, ![e].link = x]
  BY DEF UpdateCall
<1>2. /\ job[w] \in Job /\ job[w].step = "update_call"
      /\ JobOK(job[w], event, branches, snapshot)
  BY JobAt DEF UpdateCall, At
<1>3. /\ e # None /\ StoredCall(e, r.traj, event) /\ event[e].branch = job[w].b
      /\ ResultOf(job[w], event)
  BY <1>2 DEF JobOK
<1>4. e \in EventIds /\ event[e] \in Event /\ x \in EventIds /\ event[x] # None
      /\ event[x].kind = "result" /\ event[e].kind = "call"
  BY <1>2, <1>3 DEF StoredCall, ResultOf, Job, HookInv, EventInv
<1>5. job[w].status \in Statuses
  BY <1>2 DEF Job
<1>6. /\ event' \in [EventIds -> Event \cup {None}]
      /\ \A f \in EventIds \ {e} : event'[f] = event[f]
      /\ event'[e] \in Event
      /\ event'[e].kind = "call" /\ event'[e].traj = event[e].traj
      /\ event'[e].branch = event[e].branch /\ event'[e].id = event[e].id
      /\ event'[e].before = event[e].before
      /\ event'[e].status = job[w].status /\ event'[e].link = x
  <2> DEFINE u == [event[e] EXCEPT !.status = job[w].status, !.link = x]
  <2>1. /\ u \in Event
        /\ u.kind = "call" /\ u.traj = event[e].traj /\ u.branch = event[e].branch
        /\ u.id = event[e].id /\ u.before = event[e].before
        /\ u.status = job[w].status /\ u.link = x
    BY <1>4, <1>5 DEF Event
  <2>2. event \in [EventIds -> Event \cup {None}]
    BY DEF HookInv, EventInv
  <2>3. event' = [event EXCEPT ![e] = u]
    BY <1>1, <1>4, <2>2
  <2> HIDE DEF u
  <2> QED BY <1>4, <2>1, <2>2, <2>3
<1>7. event'[e] # None /\ e # x /\ event'[x] = event[x]
  BY <1>4, <1>6, NoneIsNoRecord
<1> QED BY <1>3, <1>4, <1>6, <1>7

LEMMA UpdateCallOK ==
  ASSUME HookInv, NEW w \in Workers, UpdateCall(w) PROVE HookInv'
<1> DEFINE r == job[w].sess
           e == job[w].call
           x == job[w].res
           a == Advice(job[w])
           q == [r EXCEPT !.advice = a]
           k == [job[w] EXCEPT !.sess.advice = a, !.step = "put_session"]
<1>1. /\ event' = [event EXCEPT ![e].status = job[w].status, ![e].link = x]
      /\ Become(w, k)
  BY DEF UpdateCall
<1>2. /\ RecordOK(r, event, branches, snapshot) /\ r \in Session /\ r # None
      /\ job[w] \in Job /\ job[w].step = "update_call"
      /\ JobOK(job[w], event, branches, snapshot) /\ Faithful(job[w], native)
      /\ job[w].status # "pending"
  BY JobAt DEF UpdateCall, At, JobOK
<1>3. /\ e # None /\ StoredCall(e, r.traj, event) /\ event[e].branch = job[w].b
      /\ ResultOf(job[w], event)
  BY Updated
<1>4. /\ e \in EventIds /\ event[e] \in Event /\ event[e].kind = "call"
      /\ x \in EventIds /\ event[x] # None /\ event[x].kind = "result"
  BY Updated
<1>6. /\ event' \in [EventIds -> Event \cup {None}]
      /\ \A f \in EventIds \ {e} : event'[f] = event[f]
      /\ event'[e] \in Event
      /\ event'[e].kind = "call" /\ event'[e].traj = event[e].traj
      /\ event'[e].branch = event[e].branch /\ event'[e].id = event[e].id
      /\ event'[e].before = event[e].before
      /\ event'[e].status = job[w].status /\ event'[e].link = x
  BY Updated
<1>7. event'[e] # None /\ e # x /\ event'[x] = event[x]
  BY Updated
<1>8. Keeps
  <2>1. ASSUME NEW f \in EventIds, event[f] # None
        PROVE  /\ event'[f] # None
               /\ event'[f].kind = event[f].kind /\ event'[f].traj = event[f].traj
               /\ event'[f].branch = event[f].branch /\ event'[f].id = event[f].id
               /\ event'[f].before = event[f].before
               /\ event[f].kind = "result" => event'[f] = event[f]
    BY <1>4, <1>6, <1>7, <2>1
  <2> QED BY <2>1 DEF Keeps, UpdateCall
<1>9. ASSUME NEW f \in EventIds, event'[f] # None, event'[f].link # None
      PROVE  /\ event'[event'[f].link] # None
             /\ f # e /\ event[f].kind = "call" => event[event[f].link].kind = "result"
                           /\ event'[event[f].link] = event[event[f].link]
  <2>1. CASE f = e
    BY <1>4, <1>6, <1>7, <2>1
  <2>2. CASE f # e
    <3>1. event'[f] = event[f] /\ event[f] \in Event /\ event[f] # None
      BY <1>6, <1>9, <2>2 DEF HookInv, EventInv
    <3>2. event[f].link \in EventIds /\ event[event[f].link] # None
      BY <1>9, <3>1 DEF HookInv, EventInv, LinksStored, Stored, Event
    <3>3. event[f].kind = "call" => event[event[f].link].kind = "result"
      BY <1>9, <3>1 DEF HookInv, EventInv, OutcomeMatchesResult, Stored
    <3>4. event'[event[f].link] # None
      BY <3>2, <1>6, <1>7
    <3>5. event[event[f].link].kind = "result" => event'[event[f].link] = event[event[f].link]
      BY <3>2, <1>8 DEF Keeps
    <3> QED BY <3>1, <3>3, <3>4, <3>5
  <2> QED BY <2>1, <2>2
<1>10. EventInv'
  <2>1. LinksStored'
    BY <1>9 DEF LinksStored, Stored
  <2>2. OutcomeMatchesResult'
    <3> SUFFICES ASSUME NEW f \in EventIds, event'[f] # None, event'[f].kind = "call"
                 PROVE  /\ event'[f].status = "pending" <=> event'[f].link = None
                        /\ event'[f].link # None =>
                             LET s == event'[event'[f].link] IN
                             /\ s.kind = "result" /\ s.link = f /\ s.status = event'[f].status
                             /\ s.traj = event'[f].traj /\ s.branch = event'[f].branch
      BY DEF OutcomeMatchesResult, Stored
    <3>1. CASE f = e
      <4>1. /\ event[x].link = e /\ event[x].status = job[w].status
            /\ event[x].traj = event[e].traj /\ event[x].branch = event[e].branch
        BY <1>3 DEF ResultOf, StoredCall
      <4> QED BY <1>2, <1>4, <1>6, <1>7, <3>1, <4>1, SessionConstants
    <3>2. CASE f # e
      <4>1. event'[f] = event[f] /\ event[f] # None
        BY <1>6, <3>2
      <4>2. /\ event[f].status = "pending" <=> event[f].link = None
            /\ event[f].link # None =>
                 LET s == event[event[f].link] IN
                 /\ s.kind = "result" /\ s.link = f /\ s.status = event[f].status
                 /\ s.traj = event[f].traj /\ s.branch = event[f].branch
        BY <4>1 DEF HookInv, EventInv, OutcomeMatchesResult, Stored
      <4>3. event[f].link # None => event'[event[f].link] = event[event[f].link]
        BY <1>9, <3>2, <4>1
      <4> QED BY <4>1, <4>2, <4>3
    <3> QED BY <3>1, <3>2
  <2> QED BY <1>6, <2>1, <2>2 DEF EventInv
<1>11. SessionInv'
  BY <1>8, SessionStays DEF UpdateCall, HookInv, SessionInv
<1>12. RecordOK(r, event', branches', snapshot')
  BY <1>2, <1>8, RecordStays
<1>13. SnapOf(a, r.traj, snapshot') /\ Advised(a, r.traj, event', snapshot')
       /\ a \in Snaps \cup {None}
  <2>1. CASE a = r.advice
    BY <1>2, <1>12, <2>1 DEF RecordOK, Session
  <2>2. CASE a # r.advice
    <3>1. /\ job[w].status = "failed" /\ r.snap # None /\ a = r.snap
          /\ snapshot[a].branch = job[w].b
      BY <2>2 DEF Advice
    <3>2. /\ event'[x] # None /\ event'[x].kind = "result" /\ event'[x].status = "failed"
          /\ event'[x].traj = r.traj /\ event'[x].branch = snapshot'[a].branch
      BY <1>3, <1>4, <1>7, <3>1 DEF ResultOf, UpdateCall
    <3> QED BY <1>2, <1>4, <1>12, <3>1, <3>2 DEF RecordOK, Session, Advised
  <2> QED BY <2>1, <2>2
<1> HIDE DEF a
<1>14. /\ q \in Session /\ q.traj = r.traj /\ q.active = r.active /\ q.snap = r.snap
       /\ q.advice = a /\ q.pending = r.pending
  BY <1>2, <1>13 DEF Session
<1>15. q # None
  BY <1>14, NoneIsNoRecord
<1>16. k \in Job /\ k.op = job[w].op /\ k.id = job[w].id /\ k.status = job[w].status
       /\ k.mutating = job[w].mutating /\ k.sess = q /\ k.step = "put_session"
  BY <1>2, <1>14 DEF Job, Steps
<1> HIDE DEF q, k
<1>17. RecordOK(q, event', branches', snapshot')
  BY <1>12, <1>13, <1>14 DEF RecordOK
<1>18. JobOK(k, event', branches', snapshot') /\ Faithful(k, native')
  BY <1>2, <1>15, <1>16, <1>17 DEF JobOK, Faithful, UpdateCall
<1>19. JobsInv'
  BY <1>1, <1>8, <1>18, JobsKept DEF UpdateCall
<1>20. NativeInv'
  BY <1>8, NativeStays DEF HookInv, NativeInv, UpdateCall
<1> QED BY <1>10, <1>11, <1>19, <1>20 DEF HookInv

LEMMA PutBranchOK ==
  ASSUME HookInv, NEW w \in Workers, PutBranch(w) PROVE HookInv'
<1> DEFINE r == job[w].sess
           n == job[w].n
           q == [r EXCEPT !.active = n, !.advice = None]
           k == [job[w] EXCEPT !.sess.active = n, !.sess.advice = None, !.step = "put_session"]
<1>1. /\ RecordOK(r, event, branches, snapshot) /\ r \in Session /\ r # None
      /\ job[w] \in Job /\ job[w].step = "put_branch"
      /\ JobOK(job[w], event, branches, snapshot) /\ Faithful(job[w], native)
  BY JobAt DEF PutBranch, At
<1>2. CASE n \in branches[r.traj]
  <2>1. Become(w, IdleJob) /\ UNCHANGED <<session, event, branches, snapshot, native, chosen>>
    BY <1>2 DEF PutBranch
  <2> QED BY <2>1, IdleJobOK, OnlyJob
<1>3. CASE n \notin branches[r.traj]
  <2>1. /\ Become(w, k)
        /\ branches' = [branches EXCEPT ![r.traj] = branches[r.traj] \cup {n}]
    BY <1>3 DEF PutBranch
  <2>2. r.traj \in Trajs /\ n \in Branches
    BY <1>1 DEF Session, Job
  <2>3. branches' \in [Trajs -> SUBSET Branches] /\ n \in branches'[r.traj]
        /\ \A t \in Trajs : branches[t] \subseteq branches'[t]
    BY <2>1, <2>2 DEF HookInv, SessionInv
  <2>4. Keeps
    BY <2>3 DEF Keeps, PutBranch
  <2>5. RecordOK(r, event', branches', snapshot')
    BY <1>1, <2>4, RecordStays
  <2>6. /\ q \in Session /\ q.traj = r.traj /\ q.active = n /\ q.snap = r.snap
        /\ q.advice = None /\ q.pending = r.pending
    BY <1>1, <2>2 DEF Session
  <2>7. q # None
    BY <2>6, NoneIsNoRecord
  <2>8. k \in Job /\ k.op = job[w].op /\ k.id = job[w].id /\ k.status = job[w].status
        /\ k.mutating = job[w].mutating /\ k.sess = q /\ k.step = "put_session"
    BY <1>1, <2>6 DEF Job, Steps
  <2> HIDE DEF q, k, n
  <2>9. RecordOK(q, event', branches', snapshot')
    BY <2>3, <2>5, <2>6 DEF RecordOK, SnapOf, Advised
  <2>10. JobOK(k, event', branches', snapshot') /\ Faithful(k, native')
    BY <1>1, <2>7, <2>8, <2>9 DEF JobOK, Faithful, PutBranch
  <2>11. JobsInv'
    BY <2>1, <2>4, <2>10, JobsKept DEF PutBranch
  <2>12. SessionInv'
    BY <2>3, <2>4, SessionStays DEF PutBranch, HookInv, SessionInv
  <2>13. EventInv' /\ NativeInv'
    BY DEF PutBranch, HookInv, EventInv, OutcomeMatchesResult, LinksStored, Stored, NativeInv,
           SnapshotBeforeCall
  <2> QED BY <2>11, <2>12, <2>13 DEF HookInv
<1> QED BY <1>2, <1>3

\* The answer, if it comes, moves a native call on and leaves the call itself alone.
LEMMA AnsweredCalls ==
  ASSUME HookInv, NEW w \in Workers, Closed(job[w])
  PROVE  /\ native' \in [CallIds -> [state : NativeStates, call : EventIds \cup {None},
                                     status : {"ok", "failed"}, mutating : BOOLEAN,
                                     lost : BOOLEAN]]
         /\ \A c \in CallIds : native'[c].mutating = native[c].mutating
                               /\ native'[c].call = native[c].call
<1>1. JobOK(job[w], event, branches, snapshot) /\ job[w] \in Job
  BY JobAt
<1>2. native \in [CallIds -> [state : NativeStates, call : EventIds \cup {None},
                              status : {"ok", "failed"}, mutating : BOOLEAN,
                              lost : BOOLEAN]]
  BY DEF HookInv, NativeInv
<1>3. CASE native' = native
  BY <1>2, <1>3
<1>4. CASE job[w].op = "call" /\ native' = [native EXCEPT ![job[w].id].state = "called"]
  <2>1. job[w].id \in CallIds
    BY <1>1, <1>4 DEF JobOK, Job
  <2> QED BY <1>2, <1>4, <2>1 DEF NativeStates
<1>5. CASE job[w].op = "result" /\ native' = [native EXCEPT ![job[w].id].state = "done"]
  <2>1. job[w].id \in CallIds
    BY <1>1, <1>5 DEF JobOK, Job
  <2> QED BY <1>2, <1>5, <2>1 DEF NativeStates
<1> QED BY <1>3, <1>4, <1>5 DEF Closed, Answered

LEMMA PutSessionOK ==
  ASSUME HookInv, NEW w \in Workers, PutSession(w) PROVE HookInv'
<1> DEFINE r == job[w].sess
<1>1. /\ RecordOK(r, event, branches, snapshot) /\ r \in Session /\ r # None
      /\ job[w] \in Job
  BY JobAt DEF PutSession, At
<1>2. /\ session' = r /\ Closed(job[w]) /\ UNCHANGED <<event, branches, snapshot>>
  BY DEF PutSession
<1>3. PICK j \in AfterPut(job[w]) : Become(w, j)
  BY DEF PutSession
<1>4. JobOK(j, event, branches, snapshot) /\ Faithful(j, native')
  <2>1. CASE j = IdleJob
    BY <2>1, IdleJobOK DEF IdleJob, Faithful
  <2>2. CASE j # IdleJob
    <3> DEFINE k == [Touching EXCEPT !.sess = r]
    <3>1. j = k
      BY <1>3, <2>2 DEF AfterPut
    <3>2. /\ k \in Job /\ k.op = "touch" /\ k.status = "ok" /\ k.mutating = FALSE
          /\ k.step = "put_session" /\ k.sess = r
      BY <1>1, IdleJobOK DEF Touching, IdleJob, Job, OpNames, Steps, JobOK
    <3> HIDE DEF k
    <3>3. JobOK(k, event, branches, snapshot) /\ Faithful(k, native')
      BY <1>1, <3>2 DEF JobOK, Faithful
    <3> QED BY <3>1, <3>3
  <2> QED BY <2>1, <2>2
<1> HIDE DEF r
<1>5. Keeps
  BY <1>2, KeepsSame
<1>6. /\ native' \in [CallIds -> [state : NativeStates, call : EventIds \cup {None},
                                  status : {"ok", "failed"}, mutating : BOOLEAN,
                                  lost : BOOLEAN]]
      /\ \A c \in CallIds : native'[c].mutating = native[c].mutating
                            /\ native'[c].call = native[c].call
  BY <1>2, AnsweredCalls
<1>7. JobsInv'
  BY <1>2, <1>3, <1>4, <1>5, <1>6, JobsKept
<1>8. NativeInv'
  BY <1>5, <1>6, NativeStays
<1>9. EventInv'
  BY <1>2 DEF HookInv, EventInv, OutcomeMatchesResult, LinksStored, Stored
<1>10. SessionInv'
  <2>1. chosen' \in Branches
    BY <1>1, <1>2 DEF Closed, Job, HookInv, SessionInv
  <2> QED BY <1>1, <1>2, <2>1 DEF HookInv, SessionInv
<1> QED BY <1>7, <1>8, <1>9, <1>10 DEF HookInv

LEMMA AbortOK ==
  ASSUME HookInv, NEW w \in Workers, Abort(w) PROVE HookInv'
  BY IdleJobOK, OnlyJob DEF Abort

\* Steps of no request.
LEMMA JobsStay ==
  ASSUME HookInv, Keeps, job' = job,
         \A c \in CallIds : native'[c].mutating = native[c].mutating
  PROVE  JobsInv'
<1> SUFFICES ASSUME NEW v \in Workers
             PROVE  JobOK(job[v], event', branches', snapshot') /\ Faithful(job[v], native')
  BY DEF HookInv, JobsInv
<1>1. JobOK(job[v], event, branches, snapshot) /\ Faithful(job[v], native)
  BY DEF HookInv, JobsInv
<1>2. job[v].op = "call" => job[v].id \in CallIds
  BY <1>1 DEF JobOK, Job
<1> QED BY <1>1, <1>2, JobStays DEF Faithful

LEMMA GoOnOK ==
  ASSUME HookInv, NEW c \in CallIds, GoOn(c) PROVE HookInv'
<1>1. Keeps
  BY KeepsSame DEF GoOn
<1>2. /\ native' \in [CallIds -> [state : NativeStates, call : EventIds \cup {None},
                                  status : {"ok", "failed"}, mutating : BOOLEAN,
                                  lost : BOOLEAN]]
      /\ \A d \in CallIds : native'[d].mutating = native[d].mutating
                            /\ native'[d].call = native[d].call
  BY DEF GoOn, HookInv, NativeInv, NativeStates
<1>3. JobsInv' /\ NativeInv'
  BY <1>1, <1>2, JobsStay, NativeStays DEF GoOn
<1>4. EventInv' /\ SessionInv'
  BY DEF GoOn, HookInv, EventInv, OutcomeMatchesResult, LinksStored, Stored, SessionInv
<1> QED BY <1>3, <1>4 DEF HookInv

LEMMA CreateBranchOK ==
  ASSUME HookInv, NEW t \in Trajs, NEW n \in Branches, CreateBranch(t, n) PROVE HookInv'
<1>1. branches' \in [Trajs -> SUBSET Branches] /\ \A u \in Trajs : branches[u] \subseteq branches'[u]
  BY DEF CreateBranch, HookInv, SessionInv
<1>2. Keeps
  BY <1>1 DEF Keeps, CreateBranch
<1>3. JobsInv'
  BY <1>2, JobsStay DEF CreateBranch
<1>4. SessionInv'
  BY <1>1, <1>2, SessionStays DEF CreateBranch, HookInv, SessionInv
<1>5. EventInv' /\ NativeInv'
  BY DEF CreateBranch, HookInv, EventInv, OutcomeMatchesResult, LinksStored, Stored, NativeInv,
         SnapshotBeforeCall
<1> QED BY <1>3, <1>4, <1>5 DEF HookInv

LEMMA NextHook == HookInv /\ [Next]_vars => HookInv'
<1> SUFFICES ASSUME HookInv, [Next]_vars PROVE HookInv'
  OBVIOUS
<1>1. ASSUME NEW w \in Workers, AgentTool(w) PROVE HookInv'
  BY <1>1, BeginFirstOK, TouchingOK, BeginSnapshotOK, BeginRepairOK, BeginRollbackOK,
     BeginApplicationOK
     DEF AgentTool, BeginDelivery, BeginDecision, BeginVersionDecision
<1>2. ASSUME NEW w \in Workers, Request(w) PROVE HookInv'
  BY <1>1, <1>2, BeginCallOK, BeginResultOK, CreateTrajectoryOK, PutNewSessionOK, CheckCallOK,
     TakeSnapshotOK, RecordCallOK, RecordResultOK, UpdateCallOK, PutBranchOK, PutSessionOK,
     AbortOK
     DEF Request
<1>3. CASE UNCHANGED vars
  BY <1>3 DEF vars, HookInv, EventInv, OutcomeMatchesResult, LinksStored, Stored, NativeInv,
              SnapshotBeforeCall, SessionInv, JobsInv
<1> QED BY <1>2, <1>3, GoOnOK, CreateBranchOK DEF Next

LEMMA HookInvariant == Spec => []HookInv
  BY InitHook, NextHook, PTL DEF Spec

\* The record, the events, the snapshots and every request in flight have the
\* shape the code gives them, however many requests are at work.
THEOREM TypeCorrect == Spec => []TypeOK
  BY HookInvariant, TypesFollow, PTL

\* However many requests race with stale copies of the record, and whichever of
\* them die, the stored record names only what is there: HookSessionBridge never
\* puts a copy whose branch, pending calls or snapshots are of another trajectory.
THEOREM StoredRecordIsSound == Spec => []SessionSound
<1>1. HookInv => SessionSound
  <2> SUFFICES ASSUME HookInv, session # None
               PROVE  /\ session.active \in branches[session.traj]
                      /\ \A c \in CallIds : LET p == session.pending[c] IN
                           p # None => p.event \in CallsOf(session.traj)
                                       /\ event[p.event].branch = p.branch
                      /\ {session.snap, session.advice}
                           \subseteq SnapshotsOf(session.traj) \cup {None}
    BY DEF SessionSound
  <2>1. RecordOK(session, event, branches, snapshot) /\ session \in Session
    BY DEF HookInv, SessionInv, RecordOK
  <2>2. {session.snap, session.advice} \subseteq SnapshotsOf(session.traj) \cup {None}
    BY <2>1 DEF RecordOK, SnapOf, SnapshotsOf, Taken, Session
  <2> QED BY <2>1, <2>2 DEF RecordOK, PendingOK, StoredCall, CallsOf, Stored
<1> QED BY <1>1, HookInvariant, PTL

\* A finished call has the outcome of the result it names, on its own branch
\* (update_tool_call_outcome), also when a native result and a skill
\* application finish the same call.
THEOREM OutcomesMatchResults == Spec => []OutcomeMatchesResult
<1>1. HookInv => OutcomeMatchesResult
  BY DEF HookInv, EventInv
<1> QED BY <1>1, HookInvariant, PTL

\* The automatic snapshot of a state-changing call is of the branch and the
\* trajectory the call is recorded on (_auto_snapshot_before_tool).
THEOREM SnapshotsComeFirst == Spec => []SnapshotBeforeCall
<1>1. HookInv => SnapshotBeforeCall
  BY DEF HookInv, NativeInv
<1> QED BY <1>1, HookInvariant, PTL

\* A repair is advised from a snapshot only if a result on that snapshot's
\* branch failed (_suggest_repair_branch), whichever copy of the record is last.
THEOREM AdviceHasItsFailure == Spec => []AdvisedFailureOnBranch
<1>1. HookInv => AdvisedFailureOnBranch
  <2> SUFFICES ASSUME HookInv, session # None, session.advice # None
               PROVE  \E e \in Stored :
                        /\ event[e].kind = "result" /\ event[e].status = "failed"
                        /\ event[e].traj = snapshot[session.advice].traj
                        /\ event[e].branch = snapshot[session.advice].branch
    BY DEF AdvisedFailureOnBranch
  <2>1. RecordOK(session, event, branches, snapshot)
    BY DEF HookInv, SessionInv
  <2> QED BY <2>1 DEF RecordOK, SnapOf, Advised, Stored
<1> QED BY <1>1, HookInvariant, PTL

-----------------------------------------------------------------------------
(***************************************************************************)
(* One request at a time: what the bridge promises an Agent whose clients  *)
(* wait for each answer.  A request's copy of the record is then the       *)
(* stored record, up to what the request itself has done.                  *)
(***************************************************************************)

OneRequestAtATime == \A v, w \in Workers : v = w

\* The steps of a request that works on a record that is stored.
Busy == {"snapshot", "record_call", "check_call", "record_result", "update_call", "put_branch",
         "put_session"}

Choices == {"repair", "rollback"}

\* A request's copy has the branch the Agent chose last, or chooses now.
Choosing(j, s, b) ==
  /\ j.step \in {"create", "put_new"} => s = None
  /\ j.step \in Busy => s # None
  /\ j.step \in Busy \cup {"put_new"} =>
       j.sess.active = IF j.op \in Choices /\ j.step = "put_session" THEN j.n ELSE b
  /\ j.step = "put_branch" => j.op \in Choices
  /\ j.op \in Choices => j.step \in {"put_branch", "put_session"}

\* A request delivers the next record of its native call.
Delivers(j, w, calls) ==
  /\ j.op \in {"call", "result"} => w \in Watchers
  /\ j.op = "call" => /\ calls[j.id].state = "new"
                      /\ j.step \notin {"check_call", "record_result", "update_call"}
  /\ j.op = "result" => /\ calls[j.id].state = "called" /\ j.status = calls[j.id].status
                        /\ j.step # "snapshot"
  /\ j.op \notin {"call", "result"} => j.id = None
  /\ j.step \in {"record_call", "record_result", "update_call"} =>
       j.op \in {"call", "result", "application"}

\* The client of c had an answer for its call.
Known(c, calls) == calls[c].state # "new" /\ ~calls[c].lost

\* The pending entry of c in a request's copy: the stored one, or the one the
\* request has added, or none, because the request finishes that call.
Entry(j, c, s, events, calls) ==
  LET p == j.sess.pending[c] IN
  \/ p = s.pending[c] /\ (p = None \/ j.op # "result" \/ j.id # c)
  \/ j.op = "call" /\ j.id = c /\ j.step = "put_session" /\ p # None
  \/ /\ p = None /\ s.pending[c] # None
     /\ j.op = "application" \/ (j.op = "result" /\ j.id = c)
     /\ Known(c, calls) =>
          \/ events[calls[c].call].link # None
          \/ /\ j.step \in {"check_call", "record_result", "update_call"}
             /\ j.call = calls[c].call

Copies(j, s, events, calls) ==
  /\ j.step = "put_new" => \A c \in CallIds : j.sess.pending[c] = None
  /\ j.step \in Busy => \A c \in CallIds : Entry(j, c, s, events, calls)
  /\ j.op = "call" /\ j.step = "put_session" =>
       LET p == j.sess.pending[j.id] IN
       p # None /\ calls[j.id].call # None /\ p.event = calls[j.id].call

\* A native result finishes a call of its own id; an application does not
\* change an outcome.
Finishes(j, events) ==
  /\ j.op = "result" /\ j.step \in {"record_result", "update_call", "put_session"} =>
       j.call # None /\ events[j.call].id = j.id
  /\ j.step = "update_call" => events[j.res].id = j.id
  /\ j.op = "application" /\ j.step \in {"record_result", "update_call"} =>
       events[j.call].status \in {"pending", j.status}
  /\ j.op = "result" /\ j.step = "put_session" =>
       /\ j.res # None /\ events[j.res] # None /\ events[j.res].kind = "result"
       /\ events[j.res].id = j.id /\ events[j.res].link = j.call
       /\ events[j.call].status = j.status

Turn(j, w, s, b, events, calls) ==
  /\ Choosing(j, s, b) /\ Delivers(j, w, calls)
  /\ Copies(j, s, events, calls) /\ Finishes(j, events)

\* The call recorded for a native call is its own, and so is its result,
\* unless a skill application gave it.
CallKnown(c) ==
  native[c].call # None =>
    LET call == event[native[c].call] IN
    /\ call.kind = "call" /\ call.id = c
    /\ call.link # None => \/ event[call.link].id = None
                           \/ event[call.link].id = c /\ call.status = native[c].status

\* A result of c is on record, with a call that has its outcome.
ResultKept(c) ==
  \E e \in EventIds : /\ event[e] # None /\ event[e].kind = "result" /\ event[e].id = c
                      /\ event[event[e].link].status = native[c].status

\* A call the client had an answer for is pending in the record, or settled; a
\* pending entry is of a call recorded for its id.
Tracked(c) ==
  /\ native[c].lost => native[c].state # "new"
  /\ session # None /\ session.pending[c] # None =>
       /\ native[c].state # "done" /\ event[session.pending[c].event].id = c
       /\ Known(c, native) => session.pending[c].event = native[c].call
  /\ Known(c, native) =>
       /\ native[c].call # None /\ session # None
       /\ session.pending[c] = None => event[native[c].call].link # None
  /\ native[c].state = "done" /\ native[c].lost => ResultKept(c)

ResultsNameCalls ==
  \A e \in EventIds : event[e] # None /\ event[e].kind = "result" /\ event[e].id # None =>
    event[e].link # None /\ event[event[e].link].id = event[e].id

SerialInv ==
  /\ ChoiceKept /\ (session = None => chosen = Main)
  /\ \A c \in CallIds : CallKnown(c) /\ Tracked(c)
  /\ ResultsNameCalls
  /\ \A w \in Workers : Turn(job[w], w, session, chosen, event, native)

\* The jobs after a step of w, when w is alone.
LEMMA Alone ==
  ASSUME OneRequestAtATime, HookInv, NEW w \in Workers, NEW k, Become(w, k),
         Turn(k, w, session', chosen', event', native')
  PROVE  \A v \in Workers : Turn(job'[v], v, session', chosen', event', native')
<1>1. job'[w] = k
  BY DEF Become, HookInv, JobsInv
<1> QED BY <1>1 DEF OneRequestAtATime

\* A step that leaves the events, the record and the native calls alone.
LEMMA QuietStep ==
  ASSUME OneRequestAtATime, HookInv, SerialInv, UNCHANGED <<session, event, native, chosen>>,
         NEW w \in Workers, NEW k, Become(w, k), Turn(k, w, session, chosen, event, native)
  PROVE  SerialInv'
<1>1. \A v \in Workers : Turn(job'[v], v, session', chosen', event', native')
  BY Alone
<1>2. ChoiceKept' /\ (session' = None => chosen' = Main)
  BY DEF SerialInv, ChoiceKept
<1>3. \A c \in CallIds : CallKnown(c)' /\ Tracked(c)'
  BY DEF SerialInv, CallKnown, Tracked, ResultKept
<1>4. ResultsNameCalls'
  BY DEF SerialInv, ResultsNameCalls
<1> QED BY <1>1, <1>2, <1>3, <1>4 DEF SerialInv

LEMMA IdleTurn ==
  ASSUME NEW w, NEW s, NEW b, NEW events, NEW calls PROVE Turn(IdleJob, w, s, b, events, calls)
  BY DEF Turn, Choosing, Delivers, Copies, Finishes, IdleJob, Busy, Choices

LEMMA InitSerial == Init => SerialInv
<1> SUFFICES ASSUME Init PROVE SerialInv
  OBVIOUS
<1>1. \A w \in Workers : job[w] = IdleJob
  BY DEF Init
<1>2. \A w \in Workers : Turn(job[w], w, session, chosen, event, native)
  BY <1>1, IdleTurn
<1>3. \A c \in CallIds : native[c].state = "new" /\ native[c].call = None /\ ~native[c].lost
  BY DEF Init
<1>4. \A c \in CallIds : CallKnown(c) /\ Tracked(c)
  BY <1>3 DEF Init, CallKnown, Tracked, Known
<1>5. ResultsNameCalls
  BY DEF Init, ResultsNameCalls
<1> QED BY <1>2, <1>4, <1>5 DEF Init, SerialInv, ChoiceKept

LEMMA TurnAt ==
  ASSUME SerialInv, NEW w \in Workers
  PROVE  /\ Turn(job[w], w, session, chosen, event, native)
         /\ Choosing(job[w], session, chosen) /\ Delivers(job[w], w, native)
         /\ Copies(job[w], session, event, native) /\ Finishes(job[w], event)
  BY DEF SerialInv, Turn

\* A request of a native call on a record with the Agent's last choice.
LEMMA LoadedTurn ==
  ASSUME NEW j, NEW w, Sent(j), Delivers(j, w, native), NEW r, NEW b,
         r \in Session, r.active = b,
         j.op = "result" /\ r.pending[j.id] # None =>
           /\ event[r.pending[j.id].event].id = j.id
           /\ Known(j.id, native) => r.pending[j.id].event = native[j.id].call
  PROVE  Turn(Loaded(j, r), w, r, b, event, native)
<1>0. r # None
  BY NoneIsNoRecord
<1>1. CASE j.op = "call"
  <2> DEFINE k == CallJob(j, r)
  <2>0. r.active \in Branches
    BY DEF Session
  <2>1. /\ k.op = "call" /\ k.id = j.id /\ k.status = j.status
        /\ k.mutating = j.mutating /\ k.sess = r
        /\ k.step \in {"snapshot", "record_call"}
    BY <1>1, <2>0 DEF Sent, CallJob, Job, Steps
  <2>2. Loaded(j, r) = k
    BY <1>1 DEF Loaded
  <2> HIDE DEF k
  <2>3. Choosing(k, r, b)
    BY <1>0, <2>1 DEF Choosing, Choices
  <2>4. Delivers(k, w, native)
    BY <1>1, <2>1 DEF Delivers
  <2>5. Copies(k, r, event, native)
    BY <2>1 DEF Copies, Entry
  <2>6. Finishes(k, event)
    BY <2>1 DEF Finishes
  <2> QED BY <2>2, <2>3, <2>4, <2>5, <2>6 DEF Turn
<1>2. CASE j.op = "result"
  <2>0. j.id \in CallIds /\ Loaded(j, r) = ResultJob(j, r)
    BY <1>2 DEF Sent, Job, Loaded
  <2>1. CASE r.pending[j.id] = None
    <3> DEFINE k == [j EXCEPT !.sess = r, !.b = r.active, !.step = "record_call"]
    <3>1. /\ k.op = "result" /\ k.id = j.id /\ k.status = j.status
          /\ k.sess = r /\ k.step = "record_call"
      BY <1>2 DEF Sent, Job
    <3>2. Loaded(j, r) = k
      BY <2>0, <2>1 DEF ResultJob
    <3> HIDE DEF k
    <3>3. Choosing(k, r, b)
      BY <1>0, <3>1 DEF Choosing, Choices
    <3>4. Delivers(k, w, native)
      BY <1>2, <3>1 DEF Delivers
    <3>5. Copies(k, r, event, native)
      BY <2>1, <3>1 DEF Copies, Entry
    <3>6. Finishes(k, event)
      BY <3>1 DEF Finishes
    <3> QED BY <3>2, <3>3, <3>4, <3>5, <3>6 DEF Turn
  <2>2. CASE r.pending[j.id] # None
    <3> DEFINE p == r.pending[j.id]
               q == [r EXCEPT !.pending[j.id] = None]
               k == [j EXCEPT !.sess = q, !.b = p.branch, !.call = p.event,
                              !.step = "record_result"]
    <3>1. p \in Pending
      BY <2>0, <2>2 DEF Session
    <3>2. /\ q.active = r.active /\ q.pending[j.id] = None
          /\ \A c \in CallIds \ {j.id} : q.pending[c] = r.pending[c]
      BY <2>0 DEF Session
    <3>3. Loaded(j, r) = k
      BY <2>0, <2>2 DEF ResultJob
    <3> HIDE DEF q
    <3>4. /\ k.op = "result" /\ k.id = j.id /\ k.status = j.status /\ k.sess = q
          /\ k.step = "record_result" /\ k.call = p.event
      BY <1>2 DEF Sent, Job
    <3>5. /\ p.event # None /\ event[p.event].id = j.id
          /\ Known(j.id, native) => p.event = native[j.id].call
      BY <1>2, <2>2, <3>1, SessionConstants DEF Pending
    <3> HIDE DEF k, p
    <3>6. Choosing(k, r, b)
      BY <1>0, <3>2, <3>4 DEF Choosing, Choices
    <3>7. Delivers(k, w, native)
      BY <1>2, <3>4 DEF Delivers
    <3>8. \A c \in CallIds : Entry(k, c, r, event, native)
      BY <2>2, <3>2, <3>4, <3>5 DEF Entry
    <3>9. Copies(k, r, event, native) /\ Finishes(k, event)
      BY <3>4, <3>5, <3>8 DEF Copies, Finishes
    <3> QED BY <3>3, <3>6, <3>7, <3>9 DEF Turn
  <2> QED BY <2>1, <2>2
<1>3. CASE j.op = "touch"
  BY <1>3, IdleTurn DEF Loaded
<1> QED BY <1>1, <1>2, <1>3 DEF Sent

LEMMA StartSerial ==
  ASSUME OneRequestAtATime, HookInv, SerialInv, NEW w \in Workers,
         NEW j, Sent(j), Delivers(j, w, native), j.sess = None, Start(w, j)
  PROVE  SerialInv'
<1>1. CASE session = None
  <2> DEFINE k == [j EXCEPT !.step = "create"]
  <2>1. /\ k.op = j.op /\ k.id = j.id /\ k.status = j.status /\ k.step = "create"
    BY DEF Sent, Job
  <2>2. Become(w, k) /\ UNCHANGED <<session, event, native, chosen>>
    BY <1>1 DEF Start
  <2> HIDE DEF k
  <2>3. Turn(k, w, session, chosen, event, native)
    BY <1>1, <2>1 DEF Turn, Choosing, Delivers, Copies, Finishes, Busy, Choices, Sent
  <2> QED BY <2>2, <2>3, QuietStep
<1>2. CASE session # None
  <2>1. session \in Session /\ session.active = chosen
    BY <1>2 DEF HookInv, SessionInv, RecordOK, SerialInv, ChoiceKept
  <2>2. Become(w, Loaded(j, session)) /\ UNCHANGED <<session, event, native, chosen>>
    BY <1>2 DEF Start
  <2>3. j.op = "result" /\ session.pending[j.id] # None =>
          /\ event[session.pending[j.id].event].id = j.id
          /\ Known(j.id, native) => session.pending[j.id].event = native[j.id].call
    BY <1>2 DEF Sent, Job, SerialInv, Tracked
  <2>4. Turn(Loaded(j, session), w, session, chosen, event, native)
    BY <2>1, <2>3, LoadedTurn
  <2> QED BY <2>2, <2>4, QuietStep
<1> QED BY <1>1, <1>2

LEMMA BeginCallSerial ==
  ASSUME OneRequestAtATime, HookInv, SerialInv, NEW w \in Workers, NEW c \in CallIds,
         BeginCall(w, c)
  PROVE  SerialInv'
<1> DEFINE j == [IdleJob EXCEPT !.op = "call", !.id = c, !.mutating = native[c].mutating]
<1>1. native[c].mutating \in BOOLEAN /\ IdleJob \in Job /\ c # None
  BY IdleJobOK, SessionConstants DEF HookInv, NativeInv, JobOK
<1>2. /\ j \in Job /\ j.op = "call" /\ j.id = c /\ j.status = "ok" /\ j.sess = None
      /\ j.step = "idle"
  BY <1>1 DEF Job, OpNames, IdleJob
<1>3. Start(w, j) /\ w \in Watchers /\ native[c].state = "new"
  BY DEF BeginCall
<1> HIDE DEF j
<1> QED BY <1>1, <1>2, <1>3, StartSerial DEF Sent, Delivers

LEMMA BeginResultSerial ==
  ASSUME OneRequestAtATime, HookInv, SerialInv, NEW w \in Workers, NEW c \in CallIds,
         BeginResult(w, c)
  PROVE  SerialInv'
<1> DEFINE j == [IdleJob EXCEPT !.op = "result", !.id = c, !.status = native[c].status]
<1>1. native[c].status \in {"ok", "failed"} /\ IdleJob \in Job /\ c # None
  BY IdleJobOK, SessionConstants DEF HookInv, NativeInv, JobOK
<1>2. /\ j \in Job /\ j.op = "result" /\ j.id = c /\ ~j.mutating /\ j.step = "idle"
      /\ j.status = native[c].status /\ j.sess = None
  BY <1>1 DEF Job, OpNames, IdleJob, Statuses
<1>3. Start(w, j) /\ w \in Watchers /\ native[c].state = "called"
  BY DEF BeginResult
<1> HIDE DEF j
<1> QED BY <1>1, <1>2, <1>3, StartSerial DEF Sent, Delivers

LEMMA BeginFirstSerial ==
  ASSUME OneRequestAtATime, HookInv, SerialInv, NEW w \in Workers, BeginFirst(w)
  PROVE  SerialInv'
<1> DEFINE j == [IdleJob EXCEPT !.op = "touch"]
<1>1. j \in Job /\ j.op = "touch" /\ ~j.mutating /\ j.status = "ok" /\ j.id = None
      /\ j.sess = None /\ j.step = "idle"
  BY IdleJobOK DEF Job, OpNames, IdleJob, JobOK
<1>2. Start(w, j)
  BY DEF BeginFirst
<1> HIDE DEF j
<1> QED BY <1>1, <1>2, StartSerial DEF Sent, Delivers

\* A tool that reads the record begins with the stored one.
LEMMA AgentSerial ==
  ASSUME OneRequestAtATime, HookInv, SerialInv, NEW w \in Workers, NEW j,
         j \in Job, j.id = None, j.step \in {"put_session", "snapshot", "put_branch"},
         j.op \in Choices <=> j.step = "put_branch",
         j.op \in Choices \cup {"touch", "snapshot"},
         AgentStart(w, j)
  PROVE  SerialInv'
<1> DEFINE k == [j EXCEPT !.sess = session]
<1>1. session # None /\ session \in Session /\ session.active = chosen
  BY DEF AgentStart, HookInv, SessionInv, RecordOK, SerialInv, ChoiceKept
<1>2. k.op = j.op /\ k.id = None /\ k.step = j.step /\ k.sess = session
  BY <1>1 DEF Job
<1>3. Become(w, k) /\ UNCHANGED <<session, event, native, chosen>>
  BY DEF AgentStart
<1> HIDE DEF k
<1>4. Choosing(k, session, chosen)
  BY <1>1, <1>2 DEF Choosing, Choices
<1>5. Delivers(k, w, native) /\ Finishes(k, event)
  BY <1>2 DEF Delivers, Finishes, Choices
<1>6. Copies(k, session, event, native)
  BY <1>2 DEF Copies, Entry, Choices
<1> QED BY <1>3, <1>4, <1>5, <1>6, QuietStep DEF Turn

LEMMA ToolSerial ==
  ASSUME OneRequestAtATime, HookInv, SerialInv, NEW w \in Workers,
         \/ BeginDelivery(w) \/ BeginDecision(w) \/ BeginVersionDecision(w)
         \/ BeginSnapshot(w) \/ BeginRepair(w) \/ BeginRollback(w)
  PROVE  SerialInv'
<1>0. IdleJob \in Job
  BY IdleJobOK DEF JobOK
<1>1. CASE BeginDelivery(w) \/ BeginDecision(w) \/ BeginVersionDecision(w)
  <2>1. /\ Touching \in Job /\ Touching.id = None /\ Touching.step = "put_session"
        /\ Touching.op = "touch"
    BY <1>0 DEF Touching, IdleJob, Job, OpNames, Steps
  <2>2. AgentStart(w, Touching)
    BY <1>1 DEF BeginDelivery, BeginDecision, BeginVersionDecision
  <2> QED BY <2>1, <2>2, AgentSerial DEF Choices
<1>2. CASE BeginSnapshot(w)
  <2> DEFINE j == [IdleJob EXCEPT !.op = "snapshot", !.step = "snapshot", !.b = session.active]
  <2>1. session.active \in Branches
    BY <1>2 DEF BeginSnapshot, HookInv, SessionInv, RecordOK, Session
  <2>2. j \in Job /\ j.id = None /\ j.step = "snapshot" /\ j.op = "snapshot"
    BY <1>0, <2>1 DEF IdleJob, Job, OpNames, Steps
  <2>3. AgentStart(w, j)
    BY <1>2 DEF BeginSnapshot
  <2> HIDE DEF j
  <2> QED BY <2>2, <2>3, AgentSerial DEF Choices
<1>3. CASE BeginRepair(w) \/ BeginRollback(w)
  <2>1. BeginRepair(w) => session.snap \in Snaps \cup {None} /\ session.advice \in Snaps \cup {None}
    BY DEF BeginRepair, HookInv, SessionInv, RecordOK, Session
  <2>2. PICK op \in Choices, s \in Snaps, n \in Branches :
          AgentStart(w, [IdleJob EXCEPT !.op = op, !.step = "put_branch", !.s = s, !.n = n])
    <3>1. CASE BeginRepair(w)
      BY <2>1, <3>1 DEF BeginRepair, SnapshotsOf, Taken, FreeNames, Choices
    <3>2. CASE BeginRollback(w)
      BY <3>2 DEF BeginRollback, SnapshotsOf, Taken, FreeNames, Choices
    <3> QED BY <1>3, <3>1, <3>2
  <2> DEFINE j == [IdleJob EXCEPT !.op = op, !.step = "put_branch", !.s = s, !.n = n]
  <2>3. j \in Job /\ j.id = None /\ j.step = "put_branch" /\ j.op = op
    BY <1>0 DEF IdleJob, Job, OpNames, Steps, Choices
  <2>4. AgentStart(w, j)
    BY <2>2
  <2> HIDE DEF j
  <2> QED BY <2>3, <2>4, AgentSerial DEF Choices
<1> QED BY <1>1, <1>2, <1>3

LEMMA BeginApplicationSerial ==
  ASSUME OneRequestAtATime, HookInv, SerialInv, NEW w \in Workers, BeginApplication(w)
  PROVE  SerialInv'
<1>1. session \in Session /\ session # None /\ session.active = chosen
  BY DEF BeginApplication, HookInv, SessionInv, RecordOK, SerialInv, ChoiceKept
<1>2. PICK c \in CallIds \cup {None}, e \in MatchingCalls(session.traj),
          status \in {"ok", "failed"} :
        LET p == IF c = None THEN None ELSE session.pending[c] IN
        /\ c = None \/ e = None
        /\ Become(w, [IdleJob EXCEPT
            !.op = "application", !.step = "check_call", !.status = status,
            !.sess = IF c = None THEN session ELSE [session EXCEPT !.pending[c] = None],
            !.b = session.active,
            !.call = IF e # None \/ p = None THEN e ELSE p.event])
  BY DEF BeginApplication
<1> DEFINE p == IF c = None THEN None ELSE session.pending[c]
           r == IF c = None THEN session ELSE [session EXCEPT !.pending[c] = None]
           call == IF e # None \/ p = None THEN e ELSE p.event
           k == [IdleJob EXCEPT !.op = "application", !.step = "check_call", !.status = status,
                                !.sess = r, !.b = session.active, !.call = call]
<1>3. Become(w, k) /\ UNCHANGED <<session, event, native, chosen>>
  BY <1>2 DEF BeginApplication
<1>4. /\ k.op = "application" /\ k.step = "check_call" /\ k.sess = r /\ k.call = call
      /\ k.id = None
  BY DEF IdleJob
<1>5. /\ r.active = chosen
      /\ \A d \in CallIds : r.pending[d] = IF d = c THEN None ELSE session.pending[d]
  BY <1>1, SessionConstants DEF Session
<1>6. ASSUME c # None, session.pending[c] # None, Known(c, native) PROVE call = native[c].call
  <2>1. c \in CallIds /\ e = None
    BY <1>2, <1>6
  <2> QED BY <1>1, <1>6, <2>1 DEF SerialInv, Tracked
<1> HIDE DEF r, call, k
<1>7. \A d \in CallIds : Entry(k, d, session, event, native)
  BY <1>4, <1>5, <1>6, SessionConstants DEF Entry
<1>8. Turn(k, w, session, chosen, event, native)
  BY <1>1, <1>4, <1>5, <1>7 DEF Turn, Choosing, Delivers, Copies, Finishes, Busy, Choices
<1> QED BY <1>3, <1>8, QuietStep

LEMMA CreateTrajectorySerial ==
  ASSUME OneRequestAtATime, HookInv, SerialInv, NEW w \in Workers, CreateTrajectory(w)
  PROVE  SerialInv'
<1>1. PICK t \in Trajs :
        Become(w, [job[w] EXCEPT !.sess = FreshSession(t), !.step = "put_new"])
  BY DEF CreateTrajectory
<1> DEFINE r == FreshSession(t)
           k == [job[w] EXCEPT !.sess = r, !.step = "put_new"]
<1>2. r.active = Main /\ \A c \in CallIds : r.pending[c] = None
  BY DEF FreshSession
<1>3. /\ k.op = job[w].op /\ k.id = job[w].id /\ k.status = job[w].status
      /\ k.sess = r /\ k.step = "put_new"
  BY JobAt DEF Job
<1>4. Become(w, k) /\ UNCHANGED <<session, event, native, chosen>>
  BY <1>1 DEF CreateTrajectory
<1> HIDE DEF r, k
<1>5. session = None /\ chosen = Main /\ job[w].step = "create" /\ job[w].op \notin Choices
  BY TurnAt DEF CreateTrajectory, At, Choosing, SerialInv
<1>6. Choosing(k, session, chosen)
  BY <1>2, <1>3, <1>5 DEF Choosing, Busy
<1>7. Delivers(k, w, native)
  BY <1>3, TurnAt DEF Delivers
<1>8. Copies(k, session, event, native) /\ Finishes(k, event)
  BY <1>2, <1>3 DEF Copies, Finishes, Busy
<1> QED BY <1>4, <1>6, <1>7, <1>8, QuietStep DEF Turn

LEMMA CheckCallSerial ==
  ASSUME OneRequestAtATime, HookInv, SerialInv, NEW w \in Workers, CheckCall(w)
  PROVE  SerialInv'
<1> DEFINE e == job[w].call
           j == job[w]
           k == [j EXCEPT !.step = "record_result", !.b = event[e].branch]
           n == [j EXCEPT !.step = "record_call", !.call = None]
<1>1. /\ j \in Job /\ j.step = "check_call" /\ Turn(j, w, session, chosen, event, native)
      /\ JobOK(j, event, branches, snapshot)
  BY TurnAt, JobAt DEF CheckCall, At
<1>2. /\ j.op \notin Choices \cup {"call"} /\ session # None /\ j.sess.active = chosen
      /\ Delivers(j, w, native) /\ \A c \in CallIds : Entry(j, c, session, event, native)
  BY <1>1 DEF Turn, Choosing, Delivers, Copies, Busy
<1>3. j.op = "application" /\ j.id = None
  BY <1>1, <1>2 DEF JobOK, Delivers
<1>4. CASE e # None /\ event[e].status \in {"pending", j.status}
  <2>1. /\ k.op = j.op /\ k.id = j.id /\ k.status = j.status /\ k.sess = j.sess
        /\ k.step = "record_result" /\ k.call = e
    BY <1>1 DEF Job
  <2>2. Become(w, k) /\ UNCHANGED <<session, event, native, chosen>>
    BY <1>4 DEF CheckCall
  <2> HIDE DEF k, e
  <2>3. \A c \in CallIds : Entry(k, c, session, event, native)
    BY <1>2, <1>3, <2>1 DEF Entry, e
  <2>4. Choosing(k, session, chosen) /\ Delivers(k, w, native)
    BY <1>2, <1>3, <2>1 DEF Choosing, Choices, Delivers
  <2>5. Copies(k, session, event, native) /\ Finishes(k, event)
    BY <1>3, <1>4, <2>1, <2>3 DEF Copies, Finishes
  <2> QED BY <2>2, <2>4, <2>5, QuietStep DEF Turn
<1>5. CASE ~(e # None /\ event[e].status \in {"pending", j.status})
  <2>1. /\ n.op = j.op /\ n.id = j.id /\ n.status = j.status /\ n.sess = j.sess
        /\ n.step = "record_call"
    BY <1>1 DEF Job
  <2>2. Become(w, n) /\ UNCHANGED <<session, event, native, chosen>>
    BY <1>5 DEF CheckCall
  <2> HIDE DEF n
  <2>3. ASSUME NEW c \in CallIds, session.pending[c] # None, Known(c, native),
               e = native[c].call
        PROVE  event[native[c].call].link # None
    <3>1. session.pending[c] \in Pending /\ session.pending[c].event = native[c].call
      BY <1>2, <2>3 DEF SerialInv, Tracked, HookInv, SessionInv, RecordOK, Session
    <3>2. e # None /\ e \in EventIds /\ event[e] # None /\ event[e].kind = "call"
      BY <1>1, <2>3, <3>1, SessionConstants DEF Pending, JobOK, StoredCall
    <3>3. event[e].status # "pending"
      BY <1>5, <3>2
    <3> QED BY <2>3, <3>2, <3>3 DEF HookInv, EventInv, OutcomeMatchesResult, Stored
  <2>4. \A c \in CallIds : Entry(n, c, session, event, native)
    BY <1>2, <1>3, <2>1, <2>3 DEF Entry
  <2>5. Choosing(n, session, chosen) /\ Delivers(n, w, native)
    BY <1>2, <1>3, <2>1 DEF Choosing, Choices, Delivers
  <2>6. Copies(n, session, event, native) /\ Finishes(n, event)
    BY <1>3, <2>1, <2>4 DEF Copies, Finishes
  <2> QED BY <2>2, <2>5, <2>6, QuietStep DEF Turn
<1> QED BY <1>4, <1>5

LEMMA TakeSnapshotSerial ==
  ASSUME OneRequestAtATime, HookInv, SerialInv, NEW w \in Workers, TakeSnapshot(w)
  PROVE  SerialInv'
<1> DEFINE j == job[w]
           k(s) == [j EXCEPT !.sess.snap = s,
                       !.step = IF j.op = "call" THEN "record_call" ELSE "put_session"]
<1>1. PICK s \in Snaps : Become(w, k(s))
  BY DEF TakeSnapshot, Taken
<1>2. /\ j \in Job /\ j.sess \in Session /\ j.step = "snapshot"
      /\ Turn(j, w, session, chosen, event, native)
  BY TurnAt, JobAt DEF TakeSnapshot, At
<1>3. /\ k(s).op = j.op /\ k(s).id = j.id /\ k(s).status = j.status
      /\ k(s).sess.active = j.sess.active /\ k(s).sess.pending = j.sess.pending
      /\ k(s).step = IF j.op = "call" THEN "record_call" ELSE "put_session"
  BY <1>2 DEF Job, Session
<1>4. UNCHANGED <<session, event, native, chosen>>
  BY DEF TakeSnapshot
<1>5. /\ j.op \notin Choices /\ session # None /\ j.sess.active = chosen
      /\ Delivers(j, w, native) /\ \A c \in CallIds : Entry(j, c, session, event, native)
  BY <1>2 DEF Turn, Choosing, Delivers, Copies, Busy
<1> HIDE DEF k
<1>6. j.op # "result"
  BY <1>2, <1>5 DEF Delivers
<1>7. Choosing(k(s), session, chosen) /\ Delivers(k(s), w, native)
  BY <1>3, <1>5, <1>6 DEF Choosing, Delivers
<1>8. \A c \in CallIds : Entry(k(s), c, session, event, native)
  BY <1>2, <1>3, <1>5, <1>6 DEF Entry
<1>9. Copies(k(s), session, event, native) /\ Finishes(k(s), event)
  BY <1>3, <1>6, <1>8 DEF Copies, Finishes
<1> QED BY <1>1, <1>4, <1>7, <1>9, QuietStep DEF Turn

LEMMA PutBranchSerial ==
  ASSUME OneRequestAtATime, HookInv, SerialInv, NEW w \in Workers, PutBranch(w)
  PROVE  SerialInv'
<1> DEFINE j == job[w]
           k == [j EXCEPT !.sess.active = j.n, !.sess.advice = None, !.step = "put_session"]
<1>1. UNCHANGED <<session, event, native, chosen>> /\ (Become(w, IdleJob) \/ Become(w, k))
  BY DEF PutBranch
<1>2. CASE Become(w, IdleJob)
  BY <1>1, <1>2, IdleTurn, QuietStep
<1>3. CASE Become(w, k)
  <2>1. /\ j \in Job /\ j.sess \in Session /\ j.step = "put_branch"
        /\ Turn(j, w, session, chosen, event, native)
    BY TurnAt, JobAt DEF PutBranch, At
  <2>2. /\ k.op = j.op /\ k.id = j.id /\ k.status = j.status /\ k.n = j.n
        /\ k.sess.active = j.n /\ k.sess.pending = j.sess.pending /\ k.step = "put_session"
    BY <2>1 DEF Job, Session
  <2>3. /\ j.op \in Choices /\ session # None
        /\ Delivers(j, w, native) /\ \A c \in CallIds : Entry(j, c, session, event, native)
    BY <2>1 DEF Turn, Choosing, Delivers, Copies, Busy
  <2> HIDE DEF k
  <2>4. Choosing(k, session, chosen) /\ Delivers(k, w, native)
    BY <2>2, <2>3 DEF Choosing, Delivers, Choices
  <2>5. \A c \in CallIds : Entry(k, c, session, event, native)
    BY <2>1, <2>2, <2>3 DEF Entry, Choices
  <2>6. Copies(k, session, event, native) /\ Finishes(k, event)
    BY <2>2, <2>3, <2>5 DEF Copies, Finishes, Choices
  <2> QED BY <1>1, <1>3, <2>4, <2>6, QuietStep DEF Turn
<1> QED BY <1>1, <1>2, <1>3

LEMMA PutNewSessionSerial ==
  ASSUME OneRequestAtATime, HookInv, SerialInv, NEW w \in Workers, PutNewSession(w)
  PROVE  SerialInv'
<1> DEFINE j == job[w]
           r == j.sess
           k == Loaded(j, r)
<1>1. /\ JobOK(j, event, branches, snapshot) /\ j.step = "put_new" /\ r \in Session
      /\ r # None /\ Turn(j, w, session, chosen, event, native)
  BY TurnAt, JobAt DEF PutNewSession, At
<1>2. /\ session = None /\ r.active = chosen /\ Delivers(j, w, native)
      /\ \A c \in CallIds : r.pending[c] = None
  BY <1>1 DEF Turn, Choosing, Copies
<1>3. Sent(j) /\ (j.op = "result" => j.id \in CallIds)
  BY <1>1 DEF Sent, JobOK, Job
<1>4. Turn(k, w, r, chosen, event, native)
  BY <1>1, <1>2, <1>3, LoadedTurn
<1>5. Become(w, k) /\ session' = r /\ UNCHANGED <<event, native, chosen>>
  BY DEF PutNewSession
<1> HIDE DEF k, r
<1>6. \A v \in Workers : Turn(job'[v], v, session', chosen', event', native')
  BY <1>4, <1>5, Alone
<1>7. ChoiceKept' /\ session' # None
  BY <1>1, <1>2, <1>5 DEF ChoiceKept
<1>8. ASSUME NEW c \in CallIds PROVE CallKnown(c)' /\ Tracked(c)'
  <2>1. CallKnown(c)'
    BY <1>5 DEF CallKnown, SerialInv
  <2>2. Tracked(c)'
    BY <1>2, <1>5 DEF Tracked, ResultKept, SerialInv
  <2> QED BY <2>1, <2>2
<1>9. ResultsNameCalls'
  BY <1>5 DEF ResultsNameCalls, SerialInv
<1> QED BY <1>6, <1>7, <1>8, <1>9 DEF SerialInv

LEMMA GoOnSerial ==
  ASSUME OneRequestAtATime, HookInv, SerialInv, NEW c \in CallIds, GoOn(c)
  PROVE  SerialInv'
<1>1. /\ native[c].state = "new" /\ native'[c].state = "called" /\ native'[c].lost
      /\ \A d \in CallIds \ {c} : native'[d] = native[d]
      /\ \A d \in CallIds : native'[d].call = native[d].call /\ native'[d].status = native[d].status
  BY DEF GoOn, HookInv, NativeInv
<1>2. UNCHANGED <<session, event, job, chosen>>
  BY DEF GoOn
<1>3. ASSUME NEW d \in CallIds PROVE CallKnown(d)' /\ Tracked(d)'
  <2>1. CallKnown(d)'
    BY <1>1, <1>2 DEF CallKnown, SerialInv
  <2>2. Tracked(d)'
    <3>1. CASE d = c
      BY <1>1, <1>2, <3>1 DEF Tracked, Known, SerialInv
    <3>2. CASE d # c
      BY <1>1, <1>2, <3>2 DEF Tracked, Known, ResultKept, SerialInv
    <3> QED BY <3>1, <3>2
  <2> QED BY <2>1, <2>2
<1>4. ASSUME NEW w \in Workers PROVE Turn(job[w], w, session, chosen, event, native')
  <2>1. Turn(job[w], w, session, chosen, event, native) /\ job[w] \in Job
        /\ (job[w].op \in {"call", "result"} => job[w].id \in CallIds)
    BY TurnAt, JobAt DEF JobOK, Job
  <2>2. job[w].op \in {"call", "result"} => job[w].id # c
    BY <2>1 DEF Turn, Delivers, GoOn, Delivering
  <2>3. Delivers(job[w], w, native')
    BY <1>1, <2>1, <2>2 DEF Turn, Delivers
  <2>4. Copies(job[w], session, event, native')
    <3>1. \A d \in CallIds : Known(d, native') => Known(d, native)
      BY <1>1 DEF Known
    <3> QED BY <1>1, <2>1, <3>1 DEF Turn, Copies, Entry
  <2> QED BY <2>1, <2>3, <2>4 DEF Turn
<1>5. ResultsNameCalls' /\ ChoiceKept' /\ (session' = None => chosen' = Main)
  BY <1>2 DEF ResultsNameCalls, ChoiceKept, SerialInv
<1> QED BY <1>2, <1>3, <1>4, <1>5 DEF SerialInv

\* A call that is pending in the record is stored.
LEMMA PendingStored ==
  ASSUME HookInv, SerialInv, NEW c \in CallIds, session # None, session.pending[c] # None
  PROVE  /\ session.pending[c].event \in EventIds /\ event[session.pending[c].event] # None
         /\ Known(c, native) => /\ session.pending[c].event = native[c].call
                               /\ native[c].call \in EventIds /\ event[native[c].call] # None
<1>1. /\ session.pending[c].event \in EventIds /\ event[session.pending[c].event] # None
  BY DEF HookInv, SessionInv, RecordOK, PendingOK, StoredCall
<1> QED BY <1>1 DEF SerialInv, Tracked

\* What is known of a native call stays so while events are added.
LEMMA GrownKnown ==
  ASSUME HookInv, SerialInv, \A f \in EventIds : event[f] # None => event'[f] = event[f],
         session' = session, NEW c \in CallIds, native'[c] = native[c]
  PROVE  CallKnown(c)' /\ Tracked(c)'
<1>1. native[c].call # None => native[c].call \in EventIds /\ event[native[c].call] # None
  BY DEF HookInv, NativeInv
<1>2. ASSUME NEW f \in EventIds, event[f] # None, event[f].link # None
      PROVE  event[f].link \in EventIds /\ event[event[f].link] # None
  BY <1>2 DEF HookInv, EventInv, LinksStored, Stored, Event
<1>3. CallKnown(c)'
  BY <1>1, <1>2 DEF CallKnown, SerialInv
<1>4. ResultKept(c) => ResultKept(c)'
  <2> SUFFICES ASSUME NEW f \in EventIds, event[f] # None, event[f].kind = "result",
                      event[f].id = c, event[event[f].link].status = native[c].status
               PROVE  ResultKept(c)'
    BY DEF ResultKept
  <2>1. event[f].link # None
    BY SessionConstants DEF SerialInv, ResultsNameCalls
  <2>2. event'[f] = event[f] /\ event'[event[f].link] = event[event[f].link]
    BY <1>2, <2>1
  <2> QED BY <2>2 DEF ResultKept
<1>5. session # None /\ session.pending[c] # None =>
        event'[session.pending[c].event] = event[session.pending[c].event]
  BY PendingStored
<1>6. Tracked(c)'
  BY <1>1, <1>4, <1>5 DEF Tracked, Known, SerialInv
<1> QED BY <1>3, <1>6

\* Results name their calls while a result of its call, or a call, is added.
LEMMA GrownResults ==
  ASSUME HookInv, SerialInv, NEW e \in EventIds, event[e] = None,
         \A f \in EventIds : event[f] # None => event'[f] = event[f],
         event' \in [EventIds -> Event \cup {None}],
         \A f \in EventIds \ {e} : event'[f] # None => event[f] # None,
         event'[e].kind = "result" /\ event'[e].id # None =>
           event'[e].link # None /\ event'[event'[e].link].id = event'[e].id
  PROVE  ResultsNameCalls'
<1> SUFFICES ASSUME NEW f \in EventIds, event'[f] # None, event'[f].kind = "result",
                    event'[f].id # None
             PROVE  event'[f].link # None /\ event'[event'[f].link].id = event'[f].id
  BY DEF ResultsNameCalls
<1>1. CASE f = e
  BY <1>1
<1>2. CASE f # e
  <2>1. event[f] # None /\ event'[f] = event[f]
    BY <1>2
  <2>2. event[f].link # None /\ event[event[f].link].id = event[f].id
    BY <2>1 DEF SerialInv, ResultsNameCalls
  <2>3. event[f].link \in EventIds /\ event[event[f].link] # None
    BY <2>1, <2>2 DEF HookInv, EventInv, LinksStored, Stored, Event
  <2> QED BY <2>1, <2>2, <2>3
<1> QED BY <1>1, <1>2

LEMMA RecordCallSerial ==
  ASSUME OneRequestAtATime, HookInv, SerialInv, NEW w \in Workers, RecordCall(w)
  PROVE  SerialInv'
<1> DEFINE j == job[w]
           r == j.sess
           before == IF j.mutating THEN r.snap ELSE None
           v == NewCall(j, before)
           implicit(e) == [j EXCEPT !.call = e, !.step = "record_result"]
           pending(e) == [j EXCEPT !.sess.pending[j.id] = [event |-> e, branch |-> j.b],
                                   !.call = e, !.step = "put_session"]
<1>1. PICK e \in EventIds :
        /\ event[e] = None /\ event' = [event EXCEPT ![e] = v]
        /\ IF j.op = "call"
           THEN Become(w, pending(e)) /\ native' = [native EXCEPT ![j.id].call = e]
           ELSE Become(w, implicit(e)) /\ native' = native
  BY DEF RecordCall, Stored
<1>2. /\ j \in Job /\ r \in Session /\ j.step = "record_call"
      /\ JobOK(j, event, branches, snapshot) /\ Turn(j, w, session, chosen, event, native)
  BY TurnAt, JobAt DEF RecordCall, At
<1>3. /\ j.op \notin Choices /\ session # None /\ r.active = chosen
      /\ Delivers(j, w, native) /\ \A c \in CallIds : Entry(j, c, session, event, native)
  BY <1>2 DEF Turn, Choosing, Delivers, Copies, Busy
<1>4. /\ v \in Event /\ v.kind = "call" /\ v.status = "pending" /\ v.link = None /\ v.id = j.id
  BY <1>2 DEF NewCall, Event, Session, Job, Statuses
<1> HIDE DEF v
<1>5. /\ EventInv' /\ event'[e] = v /\ v # None /\ e # None
      /\ \A f \in EventIds : event[f] # None => event'[f] = event[f]
      /\ \A f \in EventIds \ {e} : event'[f] # None => event[f] # None
  BY <1>1, <1>4, Recorded, NoneIsNoRecord, SessionConstants DEF HookInv, EventInv
<1>6. UNCHANGED <<session, chosen>>
  BY DEF RecordCall
<1>7. ResultsNameCalls'
  BY <1>1, <1>4, <1>5, GrownResults DEF EventInv
<1>8. ChoiceKept' /\ (session' = None => chosen' = Main)
  BY <1>6 DEF ChoiceKept, SerialInv
<1>9. CASE j.op = "call"
  <2> DEFINE c == j.id
             k == pending(e)
             p == [event |-> e, branch |-> j.b]
  <2>1. c \in CallIds /\ native[c].state = "new"
    BY <1>2, <1>3, <1>9 DEF JobOK, Job, Delivers
  <2>2. p.event = e /\ p # None
    BY <1>2, NoneIsNoRecord DEF Pending, Job
  <2> HIDE DEF p
  <2>3. /\ k.op = "call" /\ k.id = c /\ k.status = j.status /\ k.step = "put_session"
        /\ k.sess.active = r.active /\ k.sess.pending[c] = p
        /\ \A d \in CallIds \ {c} : k.sess.pending[d] = r.pending[d]
    BY <1>2, <1>9, <2>1 DEF Job, Session, p
  <2>4. Become(w, k) /\ native' = [native EXCEPT ![c].call = e]
    BY <1>1, <1>9
  <2> HIDE DEF k, c
  <2>5. /\ native'[c].call = e /\ native'[c].state = "new" /\ ~native'[c].lost
        /\ native'[c].status = native[c].status
        /\ \A d \in CallIds \ {c} : native'[d] = native[d]
    BY <2>1, <2>4 DEF HookInv, NativeInv, SerialInv, Tracked
  <2>6. session.pending[c] # None =>
          event'[session.pending[c].event].id = c /\ native[c].state # "done"
    BY <1>3, <1>5, <2>1, PendingStored DEF SerialInv, Tracked
  <2>7. ASSUME NEW d \in CallIds PROVE CallKnown(d)' /\ Tracked(d)'
    <3>1. CASE d = c
      BY <1>4, <1>5, <1>6, <2>5, <2>6, <3>1 DEF CallKnown, Tracked, Known, c
    <3>2. CASE d # c
      BY <1>5, <1>6, <2>5, <3>2, GrownKnown
    <3> QED BY <3>1, <3>2
  <2>8. ASSUME NEW d \in CallIds PROVE Entry(k, d, session, event', native')
    <3>1. CASE d = c
      BY <2>2, <2>3, <2>5, <3>1 DEF Entry
    <3>2. CASE d # c
      <4>1. r.pending[d] = session.pending[d]
        BY <1>2, <1>3, <1>9, <3>2 DEF Entry, c
      <4> QED BY <2>3, <3>2, <4>1 DEF Entry
    <3> QED BY <3>1, <3>2
  <2>9. Choosing(k, session, chosen) /\ Delivers(k, w, native')
    BY <1>3, <1>9, <2>3, <2>5 DEF Choosing, Choices, Delivers
  <2>10. Copies(k, session, event', native') /\ Finishes(k, event')
    BY <1>5, <2>2, <2>3, <2>5, <2>8 DEF Copies, Finishes
  <2>11. \A u \in Workers : Turn(job'[u], u, session', chosen', event', native')
    BY <1>6, <2>4, <2>9, <2>10, Alone DEF Turn
  <2> QED BY <1>7, <1>8, <2>7, <2>11 DEF SerialInv
<1>10. CASE j.op # "call"
  <2> DEFINE k == implicit(e)
  <2>1. k.op = j.op /\ k.id = j.id /\ k.status = j.status /\ k.sess = r
        /\ k.step = "record_result" /\ k.call = e
    BY <1>2 DEF Job
  <2>2. Become(w, k) /\ native' = native
    BY <1>1, <1>10
  <2> HIDE DEF k
  <2>3. \A d \in CallIds : CallKnown(d)' /\ Tracked(d)'
    BY <1>5, <1>6, <2>2, GrownKnown
  <2>4. ASSUME NEW d \in CallIds PROVE Entry(k, d, session, event', native')
    <3>1. CASE session.pending[d] = None
      BY <1>2, <1>3, <1>10, <2>1, <3>1 DEF Entry
    <3>2. CASE session.pending[d] # None
      <4>1. Known(d, native) => event'[native[d].call] = event[native[d].call]
        BY <1>3, <1>5, <3>2, PendingStored
      <4>2. Entry(j, d, session, event, native)
        BY <1>3
      <4> QED BY <1>2, <1>10, <2>1, <2>2, <4>1, <4>2 DEF Entry
    <3> QED BY <3>1, <3>2
  <2>5. Choosing(k, session, chosen) /\ Delivers(k, w, native')
    BY <1>2, <1>3, <1>10, <2>1, <2>2 DEF Choosing, Choices, Delivers
  <2>6. Copies(k, session, event', native') /\ Finishes(k, event')
    BY <1>4, <1>5, <1>10, <2>1, <2>4 DEF Copies, Finishes
  <2>7. \A u \in Workers : Turn(job'[u], u, session', chosen', event', native')
    BY <1>6, <2>2, <2>5, <2>6, Alone DEF Turn
  <2> QED BY <1>7, <1>8, <2>3, <2>7 DEF SerialInv
<1> QED BY <1>9, <1>10

LEMMA RecordResultSerial ==
  ASSUME OneRequestAtATime, HookInv, SerialInv, NEW w \in Workers, RecordResult(w)
  PROVE  SerialInv'
<1> DEFINE j == job[w]
           r == j.sess
           v == [kind |-> "result", traj |-> r.traj, branch |-> j.b, status |-> j.status,
                 link |-> j.call, id |-> j.id, before |-> None]
           k(e) == [j EXCEPT !.res = e, !.step = "update_call"]
<1>1. PICK e \in EventIds :
        event[e] = None /\ event' = [event EXCEPT ![e] = v] /\ Become(w, k(e))
  BY DEF RecordResult, Stored
<1>2. /\ j \in Job /\ r \in Session /\ j.step = "record_result"
      /\ JobOK(j, event, branches, snapshot) /\ Turn(j, w, session, chosen, event, native)
  BY TurnAt, JobAt DEF RecordResult, At
<1>3. /\ j.op \notin Choices \cup {"call"} /\ session # None /\ r.active = chosen
      /\ Delivers(j, w, native) /\ \A c \in CallIds : Entry(j, c, session, event, native)
  BY <1>2 DEF Turn, Choosing, Delivers, Copies, Busy
<1>4. /\ v \in Event /\ v.kind = "result" /\ v.link = j.call /\ v.id = j.id
  BY <1>2 DEF Event, Session, Job
<1>5. j.call # None /\ j.call \in EventIds /\ event[j.call] # None
  BY <1>2 DEF JobOK, StoredCall
<1> HIDE DEF v
<1>6. /\ EventInv' /\ event'[e] = v /\ v # None /\ e # None
      /\ \A f \in EventIds : event[f] # None => event'[f] = event[f]
      /\ \A f \in EventIds \ {e} : event'[f] # None => event[f] # None
  BY <1>1, <1>4, <1>5, Recorded, NoneIsNoRecord, SessionConstants DEF HookInv, EventInv
<1>7. UNCHANGED <<session, chosen, native>>
  BY DEF RecordResult
<1>8. ChoiceKept' /\ (session' = None => chosen' = Main)
  BY <1>7 DEF ChoiceKept, SerialInv
<1>9. event'[j.call] = event[j.call]
  BY <1>5, <1>6
<1>10. j.id # None => event[j.call].id = j.id
  BY <1>2, <1>3 DEF Turn, Finishes, Delivers
<1>11. ResultsNameCalls'
  BY <1>1, <1>4, <1>5, <1>6, <1>9, <1>10, GrownResults DEF EventInv
<1>12. \A d \in CallIds : CallKnown(d)' /\ Tracked(d)'
  BY <1>6, <1>7, GrownKnown
<1>13. k(e).op = j.op /\ k(e).id = j.id /\ k(e).status = j.status /\ k(e).sess = r
       /\ k(e).step = "update_call" /\ k(e).call = j.call /\ k(e).res = e
  BY <1>2 DEF Job
<1> HIDE DEF k
<1>14. ASSUME NEW d \in CallIds PROVE Entry(k(e), d, session, event', native')
  <2>1. CASE session.pending[d] = None
    BY <1>2, <1>3, <1>13, <2>1 DEF Entry
  <2>2. CASE session.pending[d] # None
    <3>1. Known(d, native) => event'[native[d].call] = event[native[d].call]
      BY <1>3, <1>6, <2>2, PendingStored
    <3>2. Entry(j, d, session, event, native)
      BY <1>3
    <3> QED BY <1>2, <1>3, <1>7, <1>13, <3>1, <3>2 DEF Entry
  <2> QED BY <2>1, <2>2
<1>15. Choosing(k(e), session, chosen) /\ Delivers(k(e), w, native')
  BY <1>2, <1>3, <1>7, <1>13 DEF Choosing, Choices, Delivers
<1>16. Finishes(k(e), event')
  BY <1>2, <1>4, <1>6, <1>9, <1>13 DEF Finishes, Turn
<1>17. Copies(k(e), session, event', native')
  BY <1>3, <1>13, <1>14 DEF Copies
<1>18. \A u \in Workers : Turn(job'[u], u, session', chosen', event', native')
  BY <1>1, <1>7, <1>15, <1>16, <1>17, Alone DEF Turn
<1> QED BY <1>8, <1>11, <1>12, <1>18 DEF SerialInv

LEMMA UpdateCallSerial ==
  ASSUME OneRequestAtATime, HookInv, SerialInv, NEW w \in Workers, UpdateCall(w)
  PROVE  SerialInv'
<1> DEFINE j == job[w]
           e == j.call
           x == j.res
           k == [j EXCEPT !.sess.advice = Advice(j), !.step = "put_session"]
<1>1. Become(w, k) /\ UNCHANGED <<session, native, chosen>>
  BY DEF UpdateCall
<1>2. /\ j \in Job /\ j.sess \in Session /\ j.step = "update_call"
      /\ j.status \in {"ok", "failed"} /\ Turn(j, w, session, chosen, event, native)
  BY TurnAt, JobAt DEF UpdateCall, At
<1>3. /\ j.op \notin Choices \cup {"call"} /\ session # None /\ j.sess.active = chosen
      /\ Delivers(j, w, native) /\ \A c \in CallIds : Entry(j, c, session, event, native)
  BY <1>2 DEF Turn, Choosing, Delivers, Copies, Busy
<1>4. /\ e # None /\ e \in EventIds /\ event[e] # None /\ event[e].kind = "call"
      /\ x # None /\ x \in EventIds /\ event[x] # None /\ event[x].kind = "result"
      /\ event[x].link = e
      /\ \A f \in EventIds \ {e} : event'[f] = event[f]
      /\ event'[e] # None /\ event'[e].kind = "call" /\ event'[e].id = event[e].id
      /\ event'[e].status = j.status /\ event'[e].link = x
      /\ event'[x] = event[x]
  BY Updated, SessionConstants DEF ResultOf, StoredCall
<1>5. /\ event[x].id = j.id
      /\ j.op = "result" => event[e].id = j.id
      /\ j.op = "application" => event[e].status \in {"pending", j.status}
  BY <1>2 DEF Turn, Finishes
<1>6. k.op = j.op /\ k.id = j.id /\ k.status = j.status /\ k.step = "put_session"
      /\ k.call = e /\ k.res = x /\ k.sess.active = j.sess.active
      /\ k.sess.pending = j.sess.pending
  BY <1>2 DEF Job, Session
<1> HIDE DEF k, e, x
<1>7. j.op \in {"result", "application"}
  BY <1>2, <1>3 DEF Delivers
<1>8. ASSUME NEW f \in EventIds, event[f] # None
      PROVE  /\ event'[f] # None /\ event'[f].kind = event[f].kind /\ event'[f].id = event[f].id
             /\ f # e => event'[f] = event[f]
             /\ event[f].kind = "result" => event'[f] = event[f]
             /\ event[f].link # None => event'[f].link # None
             /\ event[f].link # None => event[f].link \in EventIds /\ event[event[f].link] # None
  BY <1>4, <1>8 DEF HookInv, EventInv, LinksStored, Stored, Event
<1>9. ASSUME NEW c \in CallIds, native[c].call # None
      PROVE  /\ native[c].call \in EventIds /\ event[native[c].call] # None
             /\ event[native[c].call].kind = "call" /\ event[native[c].call].id = c
  BY <1>9 DEF HookInv, NativeInv, SerialInv, CallKnown
<1>10. ASSUME NEW c \in CallIds PROVE CallKnown(c)'
  <2> SUFFICES ASSUME native[c].call # None, event'[native[c].call].link # None
               PROVE  LET call == event'[native[c].call] IN
                      \/ event'[call.link].id = None
                      \/ event'[call.link].id = c /\ call.status = native[c].status
    BY <1>1, <1>8, <1>9 DEF CallKnown
  <2>1. CASE native[c].call = e
    <3>1. CASE j.op = "result"
      BY <1>3, <1>4, <1>5, <1>9, <2>1, <3>1 DEF Delivers
    <3>2. CASE j.op # "result"
      BY <1>3, <1>4, <1>5, <2>1, <3>2 DEF Delivers
    <3> QED BY <3>1, <3>2
  <2>2. CASE native[c].call # e
    <3>1. event'[native[c].call] = event[native[c].call]
      BY <1>8, <1>9, <2>2
    <3>2. event'[event[native[c].call].link].id = event[event[native[c].call].link].id
      BY <1>8, <1>9, <3>1
    <3> QED BY <3>1, <3>2 DEF SerialInv, CallKnown
  <2> QED BY <2>1, <2>2
<1>11. ASSUME NEW c \in CallIds, native[c].state = "done", ResultKept(c) PROVE ResultKept(c)'
  <2>1. PICK f \in EventIds : event[f] # None /\ event[f].kind = "result" /\ event[f].id = c
                              /\ event[event[f].link].status = native[c].status
    BY <1>11 DEF ResultKept
  <2>2. event[f].link # None /\ event[event[f].link].id = c
    BY <2>1, SessionConstants DEF SerialInv, ResultsNameCalls
  <2>3. event'[f] = event[f] /\ event[f].link \in EventIds /\ event[event[f].link] # None
    BY <1>8, <2>1, <2>2
  <2>4. event'[event[f].link].status = native[c].status
    <3>1. CASE event[f].link # e
      BY <1>4, <2>1, <2>3, <3>1
    <3>2. CASE event[f].link = e
      <4>1. j.op # "result"
        BY <1>3, <1>5, <1>11, <2>2, <3>2 DEF Delivers
      <4>2. native[c].status # "pending"
        BY DEF HookInv, NativeInv
      <4>3. j.op = "application"
        BY <1>7, <4>1
      <4> QED BY <1>4, <1>5, <2>1, <3>2, <4>2, <4>3
    <3> QED BY <3>1, <3>2
  <2> QED BY <1>1, <2>1, <2>3, <2>4 DEF ResultKept
<1>12. ASSUME NEW c \in CallIds PROVE Tracked(c)'
  <2>1. session.pending[c] # None =>
          event'[session.pending[c].event].id = event[session.pending[c].event].id
    BY <1>3, <1>8, PendingStored
  <2> QED BY <1>1, <1>3, <1>8, <1>9, <1>11, <2>1 DEF Tracked, Known, SerialInv
<1>13. ResultsNameCalls'
  <2> SUFFICES ASSUME NEW f \in EventIds, event'[f] # None, event'[f].kind = "result",
                      event'[f].id # None
               PROVE  event'[f].link # None /\ event'[event'[f].link].id = event'[f].id
    BY DEF ResultsNameCalls
  <2>1. event'[f] = event[f] /\ event[f] # None
    BY <1>4
  <2>2. event[f].link # None /\ event[event[f].link].id = event[f].id
    BY <2>1 DEF SerialInv, ResultsNameCalls
  <2> QED BY <1>8, <2>1, <2>2
<1>14. ASSUME NEW c \in CallIds PROVE Entry(k, c, session, event', native')
  <2>1. CASE session.pending[c] = None
    BY <1>3, <1>6, <1>7, <2>1 DEF Entry
  <2>2. CASE session.pending[c] # None
    <3>1. Known(c, native) => native[c].call \in EventIds /\ event[native[c].call] # None
      BY <1>3, <2>2, PendingStored
    <3>2. Known(c, native) /\ (event[native[c].call].link # None \/ e = native[c].call) =>
            event'[native[c].call].link # None
      BY <1>4, <1>8, <3>1
    <3>3. Entry(j, c, session, event, native)
      BY <1>3
    <3> QED BY <1>1, <1>3, <1>6, <3>2, <3>3 DEF Entry, e
  <2> QED BY <2>1, <2>2
<1>15. Choosing(k, session, chosen) /\ Delivers(k, w, native')
  BY <1>1, <1>2, <1>3, <1>6 DEF Choosing, Choices, Delivers
<1>16. Finishes(k, event')
  BY <1>4, <1>5, <1>6 DEF Finishes
<1>17. Copies(k, session, event', native')
  BY <1>3, <1>6, <1>14 DEF Copies
<1>18. \A u \in Workers : Turn(job'[u], u, session', chosen', event', native')
  BY <1>1, <1>15, <1>16, <1>17, Alone DEF Turn
<1>19. ChoiceKept' /\ (session' = None => chosen' = Main)
  BY <1>1 DEF ChoiceKept, SerialInv
<1> QED BY <1>10, <1>12, <1>13, <1>18, <1>19 DEF SerialInv

LEMMA PutSessionSerial ==
  ASSUME OneRequestAtATime, HookInv, SerialInv, NEW w \in Workers, PutSession(w)
  PROVE  SerialInv'
<1> DEFINE j == job[w]
           r == j.sess
<1>1. /\ j \in Job /\ r \in Session /\ r # None /\ j.step = "put_session"
      /\ JobOK(j, event, branches, snapshot) /\ Turn(j, w, session, chosen, event, native)
  BY TurnAt, JobAt DEF PutSession, At
<1>2. session' = r /\ Closed(j) /\ UNCHANGED <<event>>
  BY DEF PutSession
<1>3. /\ session # None /\ Delivers(j, w, native) /\ Finishes(j, event)
      /\ r.active = IF j.op \in Choices THEN j.n ELSE chosen
      /\ \A c \in CallIds : Entry(j, c, session, event, native)
  BY <1>1 DEF Turn, Choosing, Copies, Busy
<1>4. chosen' = r.active
  BY <1>2, <1>3 DEF Closed, Choices
<1>5. j.op \in {"call", "result"} => j.id \in CallIds
  BY <1>1 DEF JobOK, Job
<1>6. ASSUME NEW c \in CallIds
      PROVE  /\ native'[c].call = native[c].call /\ native'[c].lost = native[c].lost
             /\ native'[c].status = native[c].status
             /\ \/ native'[c].state = native[c].state
                \/ j.op = "call" /\ j.id = c /\ native'[c].state = "called"
                \/ j.op = "result" /\ j.id = c /\ native'[c].state = "done"
  <2>0. native \in [CallIds -> [state : NativeStates, call : EventIds \cup {None},
                                status : {"ok", "failed"}, mutating : BOOLEAN,
                                lost : BOOLEAN]]
    BY DEF HookInv, NativeInv
  <2>1. CASE native' = native
    BY <2>1
  <2>2. CASE j.op = "call" /\ native' = [native EXCEPT ![j.id].state = "called"]
    BY <1>5, <2>0, <2>2
  <2>3. CASE j.op = "result" /\ native' = [native EXCEPT ![j.id].state = "done"]
    BY <1>5, <2>0, <2>3
  <2> QED BY <1>2, <2>1, <2>2, <2>3 DEF Closed, Answered
<1>7. ASSUME NEW c \in CallIds PROVE CallKnown(c)'
  BY <1>2, <1>6 DEF CallKnown, SerialInv
<1>8. ASSUME NEW c \in CallIds PROVE Tracked(c)'
  <2>0. /\ Entry(j, c, session, event, native) /\ Tracked(c)
        /\ native[c].status \in {"ok", "failed"}
    BY <1>3 DEF SerialInv, HookInv, NativeInv
  <2>1. native'[c].lost => native'[c].state # "new"
    BY <1>6, <2>0 DEF Tracked
  <2>2. ASSUME r.pending[c] # None
        PROVE  /\ native'[c].state # "done" /\ event[r.pending[c].event].id = c
               /\ Known(c, native') => r.pending[c].event = native'[c].call
    <3>1. CASE j.op = "call" /\ j.id = c
      <4>1. native[c].call # None /\ CallKnown(c) /\ r.pending[c].event = native[c].call
        BY <1>1, <3>1 DEF Turn, Copies, SerialInv
      <4> QED BY <1>3, <1>6, <3>1, <4>1 DEF CallKnown, Delivers
    <3>2. CASE ~(j.op = "call" /\ j.id = c)
      <4>1. r.pending[c] = session.pending[c] /\ (j.op # "result" \/ j.id # c)
        BY <2>0, <2>2, <3>2 DEF Entry
      <4> QED BY <1>3, <1>6, <2>0, <2>2, <3>2, <4>1 DEF Tracked, Known
    <3> QED BY <3>1, <3>2
  <2>3. ASSUME Known(c, native')
        PROVE  /\ native'[c].call # None
               /\ r.pending[c] = None => event[native'[c].call].link # None
    <3>1. CASE j.op = "call" /\ j.id = c
      BY <1>1, <1>6, <3>1 DEF Turn, Copies
    <3>2. CASE ~(j.op = "call" /\ j.id = c)
      <4>1. Known(c, native)
        BY <1>3, <1>6, <2>3, <3>2 DEF Delivers, Known
      <4>2. /\ native[c].call # None
            /\ session.pending[c] = None => event[native[c].call].link # None
        BY <2>0, <4>1 DEF Tracked
      <4>3. r.pending[c] = None => event[native[c].call].link # None
        BY <1>1, <2>0, <4>1, <4>2 DEF Entry
      <4> QED BY <1>6, <4>2, <4>3
    <3> QED BY <3>1, <3>2
  <2>4. ASSUME native'[c].state = "done", native'[c].lost PROVE ResultKept(c)'
    <3>1. CASE j.op = "result" /\ j.id = c
      <4>1. /\ j.res \in EventIds /\ event[j.res] # None /\ event[j.res].kind = "result"
            /\ event[j.res].id = c /\ event[event[j.res].link].status = native[c].status
        BY <1>1, <1>3, <3>1 DEF Finishes, Delivers, Job
      <4> QED BY <1>2, <1>6, <4>1 DEF ResultKept
    <3>2. CASE ~(j.op = "result" /\ j.id = c)
      <4>1. native[c].state = "done" /\ native[c].lost
        BY <1>6, <2>4, <3>2
      <4>2. ResultKept(c)
        BY <2>0, <4>1 DEF Tracked
      <4> QED BY <1>2, <1>6, <4>2 DEF ResultKept
    <3> QED BY <3>1, <3>2
  <2> HIDE DEF r
  <2> QED BY <1>1, <1>2, <2>1, <2>2, <2>3, <2>4 DEF Tracked
<1>9. ResultsNameCalls' /\ ChoiceKept' /\ session' # None
  BY <1>1, <1>2, <1>4 DEF ResultsNameCalls, ChoiceKept, SerialInv
<1>10. PICK k \in AfterPut(j) : Become(w, k)
  BY DEF PutSession
<1>11. Turn(k, w, session', chosen', event', native')
  <2>1. CASE k = IdleJob
    BY <2>1, IdleTurn
  <2>2. CASE k # IdleJob
    <3>1. k = [Touching EXCEPT !.sess = r]
      BY <1>10, <2>2 DEF AfterPut
    <3>2. k.op = "touch" /\ k.step = "put_session" /\ k.sess = r /\ k.id = None
      BY <3>1 DEF Touching, IdleJob
    <3> HIDE DEF r
    <3>3. Choosing(k, r, r.active) /\ Delivers(k, w, native') /\ Finishes(k, event')
      BY <1>1, <3>2 DEF Choosing, Choices, Delivers, Finishes
    <3>4. Copies(k, r, event', native')
      BY <3>2 DEF Copies, Entry
    <3> QED BY <1>2, <1>4, <3>3, <3>4 DEF Turn
  <2> QED BY <2>1, <2>2
<1>12. \A u \in Workers : Turn(job'[u], u, session', chosen', event', native')
  BY <1>10, <1>11, Alone
<1> QED BY <1>7, <1>8, <1>9, <1>12 DEF SerialInv

LEMMA NextSerial ==
  ASSUME OneRequestAtATime, HookInv, SerialInv, [Next]_vars PROVE SerialInv'
<1>1. ASSUME NEW w \in Workers, AgentTool(w) PROVE SerialInv'
  BY <1>1, BeginFirstSerial, ToolSerial, BeginApplicationSerial DEF AgentTool
<1>2. ASSUME NEW w \in Workers, Abort(w) PROVE SerialInv'
  BY <1>2, IdleTurn, QuietStep DEF Abort
<1>3. ASSUME NEW w \in Workers, Request(w) PROVE SerialInv'
  BY <1>1, <1>2, <1>3, BeginCallSerial, BeginResultSerial, CreateTrajectorySerial,
     PutNewSessionSerial, CheckCallSerial, TakeSnapshotSerial, RecordCallSerial,
     RecordResultSerial, UpdateCallSerial, PutBranchSerial, PutSessionSerial
     DEF Request
<1>4. ASSUME UNCHANGED <<session, event, native, chosen, job>> PROVE SerialInv'
  BY <1>4 DEF SerialInv, ChoiceKept, CallKnown, Tracked, ResultKept, ResultsNameCalls
<1>5. ASSUME NEW t \in Trajs, NEW n \in Branches, CreateBranch(t, n) PROVE SerialInv'
  BY <1>4, <1>5 DEF CreateBranch
<1>6. CASE UNCHANGED vars
  BY <1>4, <1>6 DEF vars
<1> QED BY <1>3, <1>5, <1>6, GoOnSerial DEF Next

LEMMA SerialInvariant == OneRequestAtATime => (Spec => []SerialInv)
<1> SUFFICES ASSUME OneRequestAtATime PROVE Spec => []SerialInv
  OBVIOUS
<1>1. HookInv /\ SerialInv /\ [Next]_vars => SerialInv'
  BY NextSerial
<1> QED BY <1>1, InitSerial, HookInvariant, PTL DEF Spec

\* While the session's requests come one at a time, the branch the Agent last
\* chose with create_repair_branch or rollback_context stays the active one,
\* whatever native calls and results are delivered in between, and whichever
\* request dies.
THEOREM ChoiceIsKept == OneRequestAtATime => (Spec => []ChoiceKept)
<1> SUFFICES ASSUME OneRequestAtATime PROVE Spec => []ChoiceKept
  OBVIOUS
<1>1. SerialInv => ChoiceKept
  BY DEF SerialInv
<1> QED BY <1>1, SerialInvariant, PTL

\* While the session's requests come one at a time, a native call whose result
\* ingest acknowledged is final, with its own result or with that of the skill
\* application the Agent executed by it, however often a record was delivered.
THEOREM NativeCallsAreFinal == OneRequestAtATime => (Spec => []NativeCallFinal)
<1> SUFFICES ASSUME OneRequestAtATime PROVE Spec => []NativeCallFinal
  OBVIOUS
<1>1. HookInv /\ SerialInv => NativeCallFinal
  <2> SUFFICES ASSUME HookInv, SerialInv, NEW c \in CallIds, native[c].state = "done"
               PROVE  IF native[c].lost
                      THEN \E e \in Stored : /\ event[e].kind = "result" /\ event[e].id = c
                                             /\ event[event[e].link].status = native[c].status
                      ELSE LET call == event[native[c].call] IN
                           /\ call.link # None
                           /\ \/ event[call.link].id = None
                              \/ event[call.link].id = c /\ call.status = native[c].status
    BY DEF NativeCallFinal
  <2>1. CASE native[c].lost
    BY <2>1 DEF SerialInv, Tracked, ResultKept, Stored
  <2>2. CASE ~native[c].lost
    BY <2>2 DEF SerialInv, Tracked, Known, CallKnown
  <2> QED BY <2>1, <2>2
<1> QED BY <1>1, HookInvariant, SerialInvariant, PTL

\* While the session's requests come one at a time, record_skill_application
\* never gives a call that completed as failed another outcome: what it checked
\* of the call still holds when it updates it.
THEOREM FailuresAreKept == OneRequestAtATime => (Spec => NeverReinterpreted)
<1> SUFFICES ASSUME OneRequestAtATime PROVE Spec => NeverReinterpreted
  OBVIOUS
<1>1. ASSUME HookInv, SerialInv, NEW w \in Agents, NEW e \in Stored,
             job[w].op = "application", UpdateCall(w), event[e].status = "failed"
      PROVE  event'[e].status = "failed"
  <2>1. w \in Workers /\ e \in EventIds
    BY DEF Workers, Stored
  <2>2. CASE e = job[w].call
    <3>1. event[e].status \in {"pending", job[w].status}
      BY <1>1, <2>1, <2>2, TurnAt DEF Finishes, UpdateCall, At
    <3> QED BY <1>1, <2>1, <2>2, <3>1, Updated
  <2>3. CASE e # job[w].call
    BY <1>1, <2>1, <2>3, Updated
  <2> QED BY <2>2, <2>3
<1>2. HookInv /\ SerialInv =>
        [\A w \in Agents, e \in Stored :
           job[w].op = "application" /\ UpdateCall(w) /\ event[e].status = "failed"
           => event'[e].status = "failed"]_vars
  BY <1>1
<1> QED BY <1>2, HookInvariant, SerialInvariant, PTL DEF NeverReinterpreted
=============================================================================
