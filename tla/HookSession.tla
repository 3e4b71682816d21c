---------------------------- MODULE HookSession ----------------------------
(***************************************************************************)
(* One live Hook session (HookSessionBridge in contextdb/hooks.py): the    *)
(* native tool calls and results a watcher delivers through ingest, and    *)
(* the operations an Agent calls through MCP.  Every request reads the     *)
(* session record, works on its copy while it appends to the trajectory,   *)
(* and puts the whole copy back at the end.  The HTTP server's threads and *)
(* the MCP process share nothing but the database.                         *)
(*                                                                         *)
(* VersionedTrajectory takes the trajectory's own operations apart; here   *)
(* each is one step.  Events that are only an audit trail are left out.    *)
(***************************************************************************)

EXTENDS FiniteSets, Naturals

CONSTANTS
  CallIds,    \* the Agent's ids for its native tool calls
  EventIds,   \* ids new_id("evt") can still produce; bounds the run
  Trajs,      \* ids new_id("traj") can still produce; bounds the run
  Branches,   \* branch names
  Snaps,      \* ids new_id("snap") can still produce; bounds the run
  Watchers,   \* requests that deliver native events, in the native order
  Agents,     \* requests of the Agent's MCP tools
  MaxLost,    \* bounds the native calls whose client goes on without an answer
  Main,       \* the branch every trajectory starts with
  None        \* an absent value

Workers == Watchers \cup Agents

ASSUME SessionConstants ==
  /\ Main \in Branches
  /\ None \notin CallIds \cup EventIds \cup Trajs \cup Branches \cup Snaps
  /\ MaxLost \in 0..Cardinality(CallIds)

VARIABLES
  session,    \* the stored session record, or None
  event,      \* event[e]: the stored tool_call or tool_result e, or None
  branches,   \* branches[t]: the branches of trajectory t; {} if it is not created
  snapshot,   \* snapshot[s]: the trajectory and the branch of snapshot s, or None
  job,        \* job[w]: the request w is executing
  native,     \* the Agent's native calls: their records, and (history) how far
              \* each was delivered, the event last recorded for it, and whether
              \* its client went on without an answer
  chosen      \* history: the branch of the last repair or rollback that was put

vars == <<session, event, branches, snapshot, job, native, chosen>>

-----------------------------------------------------------------------------
Statuses == {"pending", "ok", "failed"}

\* A tool_call links to its result_event_id, a tool_result to its
\* tool_call_event_id.  For a call, before is the snapshot taken for it.
Event == [kind : {"call", "result"}, traj : Trajs, branch : Branches, status : Statuses,
          link : EventIds \cup {None}, id : CallIds \cup {None}, before : Snaps \cup {None}]

Pending == [event : EventIds, branch : Branches]

\* last_version_snapshot and last_repair_suggestion name a snapshot, whose
\* branch_id they copy.
Session == [traj : Trajs, active : Branches, pending : [CallIds -> Pending \cup {None}],
            snap : Snaps \cup {None}, advice : Snaps \cup {None}]

Snapshot == [traj : Trajs, branch : Branches]

ASSUME NoneIsNoRecord == None \notin Event \cup Pending \cup Session \cup Snapshot

OpNames == {"none", "call", "result", "touch", "snapshot", "repair", "rollback", "application"}

Steps == {"idle", "create", "put_new", "snapshot", "record_call", "check_call", "record_result",
          "update_call", "put_branch", "put_session"}

\* b: the branch the request writes; call, res: the events it works on;
\* s, n: the snapshot and the new branch of a repair or a rollback.
Job == [op : OpNames, step : Steps, sess : Session \cup {None}, id : CallIds \cup {None},
        status : Statuses, mutating : BOOLEAN, b : Branches, call : EventIds \cup {None},
        res : EventIds \cup {None}, s : Snaps \cup {None}, n : Branches]

IdleJob == [op |-> "none", step |-> "idle", sess |-> None, id |-> None, status |-> "ok",
            mutating |-> FALSE, b |-> Main, call |-> None, res |-> None, s |-> None, n |-> Main]

FreshSession(t) == [traj |-> t, active |-> Main, pending |-> [c \in CallIds |-> None],
                    snap |-> None, advice |-> None]

Stored == {e \in EventIds : event[e] # None}
Taken  == {s \in Snaps : snapshot[s] # None}

CallsOf(t)     == {e \in Stored : event[e].kind = "call" /\ event[e].traj = t}
SnapshotsOf(t) == {s \in Taken : snapshot[s].traj = t}

Idle(w)      == job[w].step = "idle"
At(w, step)  == job[w].step = step
Become(w, j) == job' = [job EXCEPT ![w] = j]

-----------------------------------------------------------------------------
(* Requests.  _ensure_session loads the record; a first request creates the *)
(* trajectory and puts a new record before it goes on.                      *)

\* Mutant: no snapshot is taken when the session has one already.
CallJobSnapshotOnce(j, sess) ==
  [j EXCEPT !.sess = sess, !.b = sess.active,
            !.step = IF j.mutating /\ sess.snap = None THEN "snapshot" ELSE "record_call"]

\* ingest of a tool_call: it is recorded on the active branch, after a
\* snapshot of it if the call may change state.
CallJob(j, sess) ==
  [j EXCEPT !.sess = sess, !.b = sess.active,
            !.step = IF j.mutating THEN "snapshot" ELSE "record_call"]

\* Mutant: the result goes to the active branch.
ResultJobActive(j, sess) ==
  LET p == sess.pending[j.id] IN
  IF p = None
  THEN [j EXCEPT !.sess = sess, !.b = sess.active, !.step = "record_call"]
  ELSE [j EXCEPT !.sess = [sess EXCEPT !.pending[j.id] = None], !.b = sess.active,
                 !.call = p.event, !.step = "record_result"]

\* ingest of a tool_result: it goes to the pending call's branch; without a
\* pending call (the call's client got no answer, an application has taken it, or
\* the result is delivered again) an implicit one is recorded first.
ResultJob(j, sess) ==
  LET p == sess.pending[j.id] IN
  IF p = None
  THEN [j EXCEPT !.sess = sess, !.b = sess.active, !.step = "record_call"]
  ELSE [j EXCEPT !.sess = [sess EXCEPT !.pending[j.id] = None], !.b = p.branch,
                 !.call = p.event, !.step = "record_result"]

Loaded(j, sess) ==
  CASE j.op = "call"   -> CallJob(j, sess)
    [] j.op = "result" -> ResultJob(j, sess)
    [] OTHER           -> IdleJob   \* MCP tools read the record again: a new request

Start(w, j) ==
  /\ Idle(w)
  /\ Become(w, IF session = None THEN [j EXCEPT !.step = "create"] ELSE Loaded(j, session))
  /\ UNCHANGED <<session, event, branches, snapshot, native, chosen>>

\* A watcher posts one record after the other, and so does the wrapper that runs a
\* command itself: no two requests deliver the same native call, and its result
\* comes only after it.
Delivering(c) == \E w \in Watchers : job[w].id = c

BeginCall(w, c) ==
  /\ w \in Watchers
  /\ native[c].state = "new" /\ ~Delivering(c)
  /\ Start(w, [IdleJob EXCEPT !.op = "call", !.id = c, !.mutating = native[c].mutating])

BeginResult(w, c) ==
  /\ w \in Watchers
  /\ native[c].state = "called" /\ ~Delivering(c)
  /\ Start(w, [IdleJob EXCEPT !.op = "result", !.id = c, !.status = native[c].status])

\* The wrapper runs the command though its call could not be posted ("Keep the Agent
\* command usable when ContextDB is unavailable"), and posts the result next; a
\* watcher tries again instead.
GoOn(c) ==
  /\ native[c].state = "new" /\ ~Delivering(c)
  /\ Cardinality({d \in CallIds : native[d].lost}) < MaxLost
  /\ native' = [native EXCEPT ![c].state = "called", ![c].lost = TRUE]
  /\ UNCHANGED <<session, event, branches, snapshot, job, chosen>>

\* An MCP tool for a session that does not exist yet creates it.
BeginFirst(w) ==
  /\ w \in Agents
  /\ session = None
  /\ Start(w, [IdleJob EXCEPT !.op = "touch"])

CreateTrajectory(w) ==
  /\ At(w, "create")
  /\ \E t \in {u \in Trajs : branches[u] = {}} :
       /\ branches' = [branches EXCEPT ![t] = {Main}]
       /\ Become(w, [job[w] EXCEPT !.sess = FreshSession(t), !.step = "put_new"])
  /\ UNCHANGED <<session, event, snapshot, native, chosen>>

PutNewSession(w) ==
  /\ At(w, "put_new")
  /\ session' = job[w].sess
  /\ Become(w, Loaded(job[w], job[w].sess))
  /\ UNCHANGED <<event, branches, snapshot, native, chosen>>

-----------------------------------------------------------------------------
(* MCP tools on an existing session. *)

AgentStart(w, j) ==
  /\ Idle(w)
  /\ w \in Agents
  /\ session # None
  /\ Become(w, [j EXCEPT !.sess = session])
  /\ UNCHANGED <<session, event, branches, snapshot, native, chosen>>

\* A request that appends an audit event and puts the record back.
Touching == [IdleJob EXCEPT !.op = "touch", !.step = "put_session"]

\* prepare_context: a recommendation was delivered.
BeginDelivery(w) == AgentStart(w, Touching)

\* record_skill_decision: the Agent takes the recommendation or does not,
BeginDecision(w) == AgentStart(w, Touching)

\* record_version_decision: and goes on, or will repair, or roll back.
BeginVersionDecision(w) == AgentStart(w, Touching)

BeginSnapshot(w) ==
  /\ session # None
  /\ AgentStart(w, [IdleJob EXCEPT !.op = "snapshot", !.step = "snapshot", !.b = session.active])

\* _available_branch_id
FreeNames(t) == Branches \ branches[t]

\* create_repair_branch: the snapshot the Agent names, else the suggested one,
\* else the last one; the name is free when it is chosen.
BeginRepair(w) ==
  /\ session # None
  /\ LET default == IF session.advice # None THEN session.advice ELSE session.snap IN
     \E s \in (SnapshotsOf(session.traj) \cup {default}) \ {None},
        n \in FreeNames(session.traj) :
       AgentStart(w, [IdleJob EXCEPT !.op = "repair", !.step = "put_branch", !.s = s, !.n = n])

\* rollback_context: the Agent names the snapshot.
BeginRollback(w) ==
  /\ session # None
  /\ \E s \in SnapshotsOf(session.traj), n \in FreeNames(session.traj) :
       AgentStart(w, [IdleJob EXCEPT !.op = "rollback", !.step = "put_branch", !.s = s, !.n = n])

\* _recent_matching_tool_call: the latest call with the application's tool and
\* command, or none.
MatchingCalls(t) == CallsOf(t) \cup {None}

\* record_skill_application: the Agent names its call by the native id, which
\* takes the pending entry, or by the event, or not at all (then the latest
\* matching call, or none, is taken).
BeginApplication(w) ==
  /\ session # None
  /\ \E c \in CallIds \cup {None}, e \in MatchingCalls(session.traj),
        status \in {"ok", "failed"} :
       LET p == IF c = None THEN None ELSE session.pending[c] IN
       /\ c = None \/ e = None
       /\ Idle(w)
       /\ w \in Agents
       /\ Become(w, [IdleJob EXCEPT
            !.op = "application", !.step = "check_call", !.status = status,
            !.sess = IF c = None THEN session ELSE [session EXCEPT !.pending[c] = None],
            !.b = session.active,
            !.call = IF e # None \/ p = None THEN e ELSE p.event])
  /\ UNCHANGED <<session, event, branches, snapshot, native, chosen>>

\* Mutant: whatever outcome the call has, the application takes it over.
CheckCallAnyStatus(w) ==
  /\ At(w, "check_call")
  /\ LET e == job[w].call IN
     IF e # None
     THEN Become(w, [job[w] EXCEPT !.step = "record_result", !.b = event[e].branch])
     ELSE Become(w, [job[w] EXCEPT !.step = "record_call"])
  /\ UNCHANGED <<session, event, branches, snapshot, native, chosen>>

\* A call that already has another outcome is not taken over.
CheckCall(w) ==
  /\ At(w, "check_call")
  /\ LET e == job[w].call IN
     IF e # None /\ event[e].status \in {"pending", job[w].status}
     THEN Become(w, [job[w] EXCEPT !.step = "record_result", !.b = event[e].branch])
     ELSE Become(w, [job[w] EXCEPT !.step = "record_call", !.call = None])
  /\ UNCHANGED <<session, event, branches, snapshot, native, chosen>>

-----------------------------------------------------------------------------
(* The steps requests are made of. *)

\* _auto_snapshot_before_tool, or create_snapshot.
TakeSnapshot(w) ==
  /\ At(w, "snapshot")
  /\ \E s \in Snaps \ Taken :
       /\ snapshot' = [snapshot EXCEPT ![s] = [traj |-> job[w].sess.traj, branch |-> job[w].b]]
       /\ Become(w, [job[w] EXCEPT
            !.sess.snap = s,
            !.step = IF job[w].op = "call" THEN "record_call" ELSE "put_session"])
  /\ UNCHANGED <<session, event, branches, native, chosen>>

NewCall(j, before) ==
  [kind |-> "call", traj |-> j.sess.traj, branch |-> j.b, status |-> "pending", link |-> None,
   id |-> j.id, before |-> before]

\* A native call becomes pending; an implicit or applied call gets its result next.
RecordCall(w) ==
  /\ At(w, "record_call")
  /\ \E e \in EventIds \ Stored :
       LET before == IF job[w].mutating THEN job[w].sess.snap ELSE None IN
       /\ event' = [event EXCEPT ![e] = NewCall(job[w], before)]
       /\ IF job[w].op = "call"
          THEN /\ Become(w, [job[w] EXCEPT
                    !.sess.pending[job[w].id] = [event |-> e, branch |-> job[w].b],
                    !.call = e, !.step = "put_session"])
               /\ native' = [native EXCEPT ![job[w].id].call = e]
          ELSE /\ Become(w, [job[w] EXCEPT !.call = e, !.step = "record_result"])
               /\ native' = native
  /\ UNCHANGED <<session, branches, snapshot, chosen>>

RecordResult(w) ==
  /\ At(w, "record_result")
  /\ \E e \in EventIds \ Stored :
       /\ event' = [event EXCEPT ![e] =
            [kind |-> "result", traj |-> job[w].sess.traj, branch |-> job[w].b,
             status |-> job[w].status, link |-> job[w].call, id |-> job[w].id, before |-> None]]
       /\ Become(w, [job[w] EXCEPT !.res = e, !.step = "update_call"])
  /\ UNCHANGED <<session, branches, snapshot, native, chosen>>

\* Mutant: the last snapshot is advised, whichever branch it is of.
AdviceAnyBranch(j) ==
  IF j.status = "failed" /\ j.sess.snap # None THEN j.sess.snap ELSE j.sess.advice

\* Mutant: the suggestion names the branch where it should name the snapshot.
AdviceNamesBranch(j) ==
  IF j.status = "failed" /\ j.sess.snap # None /\ snapshot[j.sess.snap].branch = j.b
  THEN j.b ELSE j.sess.advice

\* _suggest_repair_branch advises the last snapshot if it is of the branch that failed.
Advice(j) ==
  IF j.status = "failed" /\ j.sess.snap # None /\ snapshot[j.sess.snap].branch = j.b
  THEN j.sess.snap ELSE j.sess.advice

\* update_tool_call_outcome, then the suggestion for a failure.
UpdateCall(w) ==
  /\ At(w, "update_call")
  /\ event' = [event EXCEPT ![job[w].call].status = job[w].status,
                            ![job[w].call].link = job[w].res]
  /\ Become(w, [job[w] EXCEPT !.sess.advice = Advice(job[w]), !.step = "put_session"])
  /\ UNCHANGED <<session, branches, snapshot, native, chosen>>

\* create_version_branch and create_version_rollback raise if the name was
\* taken meanwhile; the request ends there.
PutBranch(w) ==
  /\ At(w, "put_branch")
  /\ LET t == job[w].sess.traj IN
     IF job[w].n \in branches[t]
     THEN /\ Become(w, IdleJob)
          /\ branches' = branches
     ELSE /\ Become(w, [job[w] EXCEPT !.sess.active = job[w].n, !.sess.advice = None,
                                      !.step = "put_session"])
          /\ branches' = [branches EXCEPT ![t] = @ \cup {job[w].n}]
  /\ UNCHANGED <<session, event, snapshot, native, chosen>>

\* A client that gets the answer to a delivery goes on with the next record.
Answered(j) ==
  CASE j.op = "call"   -> [native EXCEPT ![j.id].state = "called"]
    [] j.op = "result" -> [native EXCEPT ![j.id].state = "done"]
    [] OTHER           -> native

\* The answer may be lost, though the request is done: the client then goes on like
\* after one that died.
Closed(j) ==
  /\ chosen' = IF j.op \in {"repair", "rollback"} THEN j.n ELSE chosen
  /\ native' \in {native, Answered(j)}

\* A failed application that has retrieved a skill puts its copy a second time.
AfterPut(j) ==
  {IdleJob} \cup (IF j.op = "application" /\ j.status = "failed"
                  THEN {[Touching EXCEPT !.sess = j.sess]} ELSE {})

\* Mutant: a result puts the record back with the default active branch.
PutSessionDefaults(w) ==
  /\ At(w, "put_session")
  /\ session' = IF job[w].op = "result" THEN [job[w].sess EXCEPT !.active = Main] ELSE job[w].sess
  /\ Closed(job[w])
  /\ \E j \in AfterPut(job[w]) : Become(w, j)
  /\ UNCHANGED <<event, branches, snapshot>>

\* Mutant: the record keeps no pending calls.
PutSessionNoPending(w) ==
  /\ At(w, "put_session")
  /\ session' = [job[w].sess EXCEPT !.pending = [c \in CallIds |-> None]]
  /\ Closed(job[w])
  /\ \E j \in AfterPut(job[w]) : Become(w, j)
  /\ UNCHANGED <<event, branches, snapshot>>

\* Mutant: the put keeps the trajectory that is stored and takes the rest of the copy.
PutSessionKeepTraj(w) ==
  /\ At(w, "put_session")
  /\ session' = [job[w].sess EXCEPT !.traj = session.traj]
  /\ Closed(job[w])
  /\ \E j \in AfterPut(job[w]) : Become(w, j)
  /\ UNCHANGED <<event, branches, snapshot>>

\* The end of a request: the whole copy is put.
PutSession(w) ==
  /\ At(w, "put_session")
  /\ session' = job[w].sess
  /\ Closed(job[w])
  /\ \E j \in AfterPut(job[w]) : Become(w, j)
  /\ UNCHANGED <<event, branches, snapshot>>

\* The request dies before its put: the watcher will send its record again.
Abort(w) ==
  /\ ~Idle(w)
  /\ Become(w, IdleJob)
  /\ UNCHANGED <<session, event, branches, snapshot, native, chosen>>

\* A user's POST /api/v1/branches or /version/branch takes a name.
CreateBranch(t, n) ==
  /\ branches[t] # {} /\ n \notin branches[t]
  /\ branches' = [branches EXCEPT ![t] = @ \cup {n}]
  /\ UNCHANGED <<session, event, snapshot, job, native, chosen>>

Init ==
  /\ session = None
  /\ event = [e \in EventIds |-> None]
  /\ branches = [t \in Trajs |-> {}]
  /\ snapshot = [s \in Snaps |-> None]
  /\ job = [w \in Workers |-> IdleJob]
  /\ native \in [CallIds -> [state : {"new"}, call : {None}, status : {"ok", "failed"},
                              mutating : BOOLEAN, lost : {FALSE}]]
  /\ chosen = Main

\* The MCP server takes one request after the other.
AgentTool(w) ==
  \/ BeginFirst(w) \/ BeginDelivery(w) \/ BeginDecision(w) \/ BeginVersionDecision(w)
  \/ BeginSnapshot(w) \/ BeginRepair(w) \/ BeginRollback(w) \/ BeginApplication(w)

Request(w) ==
  \/ \E c \in CallIds : BeginCall(w, c) \/ BeginResult(w, c)
  \/ AgentTool(w)
  \/ CreateTrajectory(w) \/ PutNewSession(w) \/ CheckCall(w)
  \/ TakeSnapshot(w) \/ RecordCall(w) \/ RecordResult(w) \/ UpdateCall(w)
  \/ PutBranch(w) \/ PutSession(w) \/ Abort(w)

Next ==
  \/ \E w \in Workers : Request(w)
  \/ \E c \in CallIds : GoOn(c)
  \/ \E t \in Trajs, n \in Branches : CreateBranch(t, n)

Spec == Init /\ [][Next]_vars

-----------------------------------------------------------------------------
(* Properties *)

NativeStates == {"new", "called", "done"}

\* The session record, the events and the requests have the shape the code gives them.
TypeOK ==
  /\ session \in Session \cup {None}
  /\ event \in [EventIds -> Event \cup {None}]
  /\ branches \in [Trajs -> SUBSET Branches]
  /\ snapshot \in [Snaps -> Snapshot \cup {None}]
  /\ job \in [Workers -> Job]
  /\ native \in [CallIds -> [state : NativeStates, call : EventIds \cup {None},
                              status : {"ok", "failed"}, mutating : BOOLEAN, lost : BOOLEAN]]
  /\ chosen \in Branches

\* Whatever copies race and whatever request dies, the stored record only names
\* what is there, in its own trajectory: the active branch, the pending calls
\* on the branch they were recorded on, the last snapshot, the advised one.
SessionSound ==
  session # None =>
    /\ session.active \in branches[session.traj]
    /\ \A c \in CallIds : LET p == session.pending[c] IN
         p # None => p.event \in CallsOf(session.traj) /\ event[p.event].branch = p.branch
    /\ {session.snap, session.advice} \subseteq SnapshotsOf(session.traj) \cup {None}

\* A call's outcome is that of the result it names: the result names the call,
\* has its status, and is on its branch, however calls are shared between
\* native results and skill applications.
OutcomeMatchesResult ==
  \A e \in Stored : event[e].kind = "call" =>
    /\ event[e].status = "pending" <=> event[e].link = None
    /\ event[e].link # None =>
         LET r == event[event[e].link] IN
         /\ r.kind = "result" /\ r.link = e /\ r.status = event[e].status
         /\ r.traj = event[e].traj /\ r.branch = event[e].branch

\* With one request at a time, a native call whose result was delivered is
\* final: with that result, or with that of a skill application the Agent
\* executed by it, and never with another native call's, also after repeated
\* deliveries.  (update_tool_call_outcome: "Finalize a recorded call once its
\* observed result is available.")  If the client went on without the answer to
\* its call, the result is on record all the same, with a call that has its
\* outcome.
NativeCallFinal ==
  \A c \in CallIds : native[c].state = "done" =>
    IF native[c].lost
    THEN \E e \in Stored : /\ event[e].kind = "result" /\ event[e].id = c
                           /\ event[event[e].link].status = native[c].status
    ELSE LET call == event[native[c].call] IN
         /\ call.link # None
         /\ \/ event[call.link].id = None
            \/ event[call.link].id = c /\ call.status = native[c].status

\* A potentially state-changing native call is recorded after a snapshot of the
\* very branch it is recorded on.  (README: "Potentially state-changing calls
\* receive an automatic ContextDB snapshot before the call runs.")
SnapshotBeforeCall ==
  \A c \in CallIds : LET e == native[c].call IN
    e # None /\ native[c].mutating =>
      /\ event[e].before # None
      /\ snapshot[event[e].before] = [traj |-> event[e].traj, branch |-> event[e].branch]

\* Advice to repair from a snapshot is given for a failure on its branch.
AdvisedFailureOnBranch ==
  session # None /\ session.advice # None =>
    \E e \in Stored : /\ event[e].kind = "result" /\ event[e].status = "failed"
                      /\ event[e].traj = snapshot[session.advice].traj
                      /\ event[e].branch = snapshot[session.advice].branch

\* A skill application never gives a call that completed as failed a new
\* outcome.  (record_skill_application: "Never reinterpret an
\* already-completed failed call as the later successful skill application.")
NeverReinterpreted ==
  [][\A w \in Agents, e \in Stored :
       job[w].op = "application" /\ UpdateCall(w) /\ event[e].status = "failed"
       => event'[e].status = "failed"]_vars

\* The Agent's last choice of a branch is the active one, between requests.
\* (README: version status preserves "the Agent's choice to continue, repair on
\* a new branch, or roll back, together with the active branch".)
ChoiceKept ==
  session # None => session.active = chosen

\* "Each Hook session creates exactly one ContextDB trajectory."
OneTrajectory == \A t, u \in Trajs : branches[t] # {} /\ branches[u] # {} => t = u

=============================================================================
