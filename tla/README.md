# Agent ContextDB: a TLA+ verification project

ContextDB records what coding Agents do as *trajectories*: events in a DAG, with
named branches, snapshots and rollbacks, kept in one SQLite database. A threaded
HTTP server, an MCP server in a process of its own, and command line tools work
on that database at the same time; a watcher and hooks of the Agents feed it from
outside, and an LLM, called in the middle of a query, judges what the history
shows. This directory models the parts of the program whose correctness depends
on the order in which those steps interleave, die and are repeated, checks them
with TLC on small instances, and proves the most important results with TLAPS for
every value of the constants.

All source paths are relative to the repository's root.

## The system

| Component | State | Operations | Interacts with | Hard behaviour | What makes it correct |
|---|---|---|---|---|---|
| Versioned trajectory (`contextdb/service.py`) | trajectory row, branch rows, events with parents, snapshot rows | `append_event`, `create_branch`, `snapshot`, `rollback`, `create_version_snapshot/branch/rollback`, `update_tool_call_outcome` | called by every server and tool; puts and gets of the object store | no lock above the store: each operation is a sequence of separately committed puts of whole rows read earlier | nothing dangling, a DAG, heads on their branch, nothing recorded is lost, snapshots complete |
| Object store (`contextdb/store.py`) | SQLite tables, one shared connection per process | `put_object`, `get_object`, `list_objects`, `snapshot_objects`, legacy import | service, Hook bridge | puts locked and committed one by one, reads without the lock | a put is all or nothing |
| Live Hook session bridge (`contextdb/hooks.py`) | one session record per (source, session): trajectory, active branch, pending calls, last snapshot, repair advice | `ingest`, `create_snapshot`, `create_repair_branch`, `rollback_context`, `record_version_decision`, `prepare_context`, `record_skill_decision`, `record_skill_application` | watcher (HTTP), Agent (MCP, HTTP), service | every request reads the record, works on its copy, puts it back whole; repeated deliveries | one trajectory per session, results linked to their calls, the Agent's choice kept |
| HTTP server (`contextdb/server.py`) | none of its own | routes | everything above | one thread per request, a request may raise anywhere | errors leave a consistent database |
| MCP server (`contextdb/mcp_server.py`) | none of its own | eleven tools | Hook bridge | a second process on the same database | as the Hook bridge |
| Codex session watcher (`tools/windows_codex_session_watcher.py`) | offsets per rollout file | `forward_file`, state file | posts to the HTTP server | server failures, crashes, growing and truncated files | every record delivered, in order |
| Claude Code hook (`tools/claude_code_hook.py`) | transcript cursor, seen UUIDs | transcript sync, tool callbacks | posts to the HTTP server | parallel hook processes, a post that fails half-way | no message lost, none forwarded twice |
| Native exec wrapper (`tools/contextdb_native_exec_hook.py`) | one command | run, post call and result | HTTP server | the result must be posted whatever the command does | one call, one result |
| Views, context assembly, repair analysis (`service.py`) | materialized views | `query_view`, `_context_assembly`, `repair_strategies` | trajectory, caches | boundaries of a token budget, histories of many branches, a branch read twice | a link stays as long as its branches keep their history, a context is complete and fits |
| Semantic caches (`service.py`) | cached summary, judgments and likely causes | `_semantic_summary`, `semantic_repair_judgments`, `_llm_likely_cause` | LLM judge, trajectory | slow LLM calls against a history that changes; whole-event puts | a cached result covers exactly the events it names |
| Skills and vector index (`service.py`, `vector_index.py`) | learned skills, vectors | cluster, match, apply, `replace_owner`, `search` | caches, Hook bridge | unlocked shared connection | what was learned can be found |
| LLM judge (`llm_judge.py`, `llm_profiles.py`) | none | HTTP calls with retries | LLM service | timeouts, malformed answers | errors are never cached |
| Import, ContextQL, CLI, client, dashboard | none | sequential clients, text | service | none | not modelled |

`PROJECT.json` lists every component with its status, and under `hazards` the
places in the code where something can go wrong that a test would hardly reach.

## The modules

| Module | Stands for | Uses |
|---|---|---|
| `VersionedTrajectory` | one trajectory, operation by operation, put by put | implements `BranchLog` |
| `BranchLog` | the promise to the only writer of a branch | |
| `HookSession` | one live session: the record, native calls, the Agent's tools | its trajectory operations are those of `VersionedTrajectory`, one step each |
| `SessionWatcher` | the Codex watcher: offsets, state file, posts | |
| `TranscriptSync` | the Claude Code hook: cursor, seen messages, state file | |
| `RepairLinks` | failures, successes and structural repair links of a history | its history is that of `VersionedTrajectory`, with only what the links depend on |
| `JudgmentCache` | queries that judge the links with an LLM and learn skills | extends `RepairLinks` |
| `ContextViews` | the same queries beside those that assemble a context | extends `JudgmentCache` |
| `...Proofs` | theorems about the module of that name (`OwnedTrajectoryProofs`: about `VersionedTrajectory`, when branches are not shared; `JudgmentCacheProofs`: about the judgments and skills of `ContextViews`), see "What is proved" | |
| `MC...` | the instances TLC checks: symmetry sets and values for the constants | |

### VersionedTrajectory

One trajectory and all operations that change its history. A *worker* is a
request (an HTTP thread, the MCP process); `job[w]` is the place it has reached
and the rows it has read, which it will write back whole. One action is one
committed `store.put_object`, one `get_object` whose result is used later, or
one `list_objects`; an operation's reads before its first put whose results are
used in the same step are merged into its `Begin` action.

| Code | Actions |
|---|---|
| `append_event` | `BeginAppend`, `PutEvent`, `PutHead`, `ReadTrajectory`, `PutTrajectory` |
| `snapshot` | `BeginSnapshot`, `PutSnapshot`, `ListKeys`, `CopyRecords`, `PutRow` |
| `create_version_snapshot` | `BeginVersionSnapshot`, an append, `ReadRow`, a snapshot, `PutEventAgain` |
| `create_branch` | `BeginBranch`, `ReadBase`, `PutBranch` |
| `rollback` | `BeginRollback`, `PutBranch` |
| `create_version_branch` | `BeginBranch` or `BeginBranchFromSnapshot`, a branch creation, `ReadBranch`, an append |
| `create_version_rollback` | `BeginRollback`, `PutBranch`, `PutBranchAgain`, `ReadBranch`, an append |
| a request that dies, or a put that raises | `Abort` |

`event`, `branch`, `trajHead`, `snapshot` and `record` are the tables `events`
(with `event_edges`), `branches`, `trajectories.head_event_id`, `snapshots` and
`snapshot_records`; `acked` is a history variable. Payloads, timestamps and
messages are left out: nothing in these operations depends on them.

What is abstracted, and why that is sound: `snapshot` lists the keys twice and
puts its row twice, the second time with the same columns, so the first list
and the second put change nothing. `list_objects` reads its tables one after
the other; the events are one SELECT, and no property relates the listed events
to the listed branches. `snapshot_objects` holds the store lock and, after its
first statement, SQLite's write lock, so the copy is one step. An
`INSERT OR REPLACE` of an event and its edges is one transaction. Clients name
only event, snapshot and branch ids they were given by the API (the code checks
snapshot and branch ids, and takes event ids as they are: parents at
`service.py:294`, a branch's `from_event_id` at 524; a client that makes ids up gets
references that dangle).

`Writers[b]` says which workers' clients write branch `b`. It is how the runs
separate what holds in any case from what holds when each branch has one writer,
the way the program is meant to be used (an Agent and its active branch): with
two writers on a branch, a whole-row put can take the other's head back.

### BranchLog

The promise to a client that is the only writer of its branch: tips over one
append-only log; a tip only advances to a child of the event it was at; a fork
starts at a recorded event. `RefinesBranchLog` in VersionedTrajectory
instantiates it (`log` is the parents of stored events, `tip` the base and head
of branch rows) and is checked as a property; `ImplementsBranchLog` proves it.

### HookSession

One live Hook session. The session record, the trajectories created for it, the
tool calls and results, the branches and the snapshots; here an operation of the
service is one step, since VersionedTrajectory takes it apart. `job[w].sess` is
the copy of the record a request works on.

| Code | Actions |
|---|---|
| `_ensure_session` | `Start`, `CreateTrajectory`, `PutNewSession`, `Loaded` |
| `ingest` of a `tool_call` | `BeginCall`, `TakeSnapshot` (if the call may change state), `RecordCall`, `PutSession` |
| `ingest` of a `tool_result` | `BeginResult`, `RecordCall` (an implicit one, if no call is pending), `RecordResult`, `UpdateCall`, `PutSession` |
| `record_skill_application` | `BeginApplication`, `CheckCall`, `RecordCall` (if the call is not taken over), `RecordResult`, `UpdateCall`, `PutSession` (twice, when it has retrieved a skill) |
| `create_snapshot` | `BeginSnapshot`, `TakeSnapshot`, `PutSession` |
| `create_repair_branch`, `rollback_context` | `BeginRepair`, `BeginRollback`, `PutBranch`, `PutSession` |
| `prepare_context`, `record_skill_decision`, `record_version_decision` | `BeginDelivery`, `BeginDecision`, `BeginVersionDecision`, `PutSession` |
| `_best_effort` of the native exec wrapper | `GoOn`: the result is posted although the call was not answered |
| a user's `POST /api/v1/branches`, `/version/branch` | `CreateBranch` |
| a request that dies or raises | `Abort` |

`Watchers` deliver native calls and results: one after the other, a call before
its result, and again until the answer came, as `forward_file` does; or, as the
wrapper that runs a command itself, go on when a request of theirs raised. `Agents`
call MCP tools; they may do so while the watcher works, which is how the README
tells users to set the program up. `native` and `chosen` are partly history: what
was delivered and answered, the event recorded for it last, and the branch of the
last repair or rollback that has put the record.

An answer can be lost (`Closed`): the last put of the record is done, and the client
does not know. The watcher then delivers again, to a record that may no longer have
the pending entry: a result gets an implicit call of its own, a call is recorded and
entered a second time.

Left out: events that are only an audit trail (decisions, suggestions, snapshot
events) and the skill recommendation; records of several events (an adapter
yields one for a tool call and one for a result); event ids named together with
a different native id. The choice of a free branch name is made when the record
is read: names are never freed, so this only adds behaviours. A request whose
client has given up and which the server finishes later is not modelled here
(`SessionWatcher` does, as seen from the client).

### SessionWatcher

The watcher's main loop over the rollout logs. A line counts two units of length,
so an offset can lie between a line and its newline, and a log's last line can be
terminated, complete, or partly written. `pos` is the offset in the open log,
`mem` the state the loop holds, `disk` the state file.

| Code | Actions |
|---|---|
| start of `main`, `clear_session_pointer`, `load_state` | `StartWatcher` (with and without `--replay-existing`) |
| the first scan of a live run | `InitialSkip` |
| `forward_file` | `BeginFile`, `SkipLine`, `EndFile`, and for a record one of `PostAccepted`, `PostFailed`, `PostUnanswered`, `PostLate` |
| `save_state` at the end of a pass | `SaveState` |
| the process dies | `Crash` |
| Codex; the server after a time-out | `Write`, `Complete`, `Rewrite`; `LateCommit` |

`base`, `answered` and `forwarded` are history: from where a log is followed, and
what the posts of this run were answered for. A content that takes the place of
another marks the offsets reached in the old one as stale: the code cannot tell a
replaced log that has grown past the offset, and no property speaks of it. Not
modelled: `--once` (a run that stops after a pass), two watchers on one state
file, a replacement while the log is being read. A log that does not exist yet
is an empty one.

### TranscriptSync

The processes Claude Code starts for the lifecycle events of one session. They
share the transcript, the state file and the temporary file all of them write.

| Code | Actions |
|---|---|
| `_initialize_transcript_cursor` | `SessionStart` |
| `_sync_assistant_messages` | `Sync` or `NoTranscript`, `PassOver`, `Post`, `PostUnanswered`, `EndRead` |
| `_save_state` | `OpenTmp`, `FillTmp`, `Replace` or `ReplaceMissing` |
| the hook's own event in `main` | `PostEvent` |
| a hook that dies or whose post raises | `Fail` |
| Claude Code | `AppendLine`, `Finish`, `Rewrite` |

A file that was opened keeps its identity when another hook renames it: `handle`
is what the hook's open file is by now. `Broken` is content that does not parse,
which `_load_state` takes for no state.

### RepairLinks

The history the experience views read is written as in `VersionedTrajectory`: by
requests that read a branch's row, may take any time, and put it back whole.

| Code | Actions |
|---|---|
| `append_event` | `BeginAppend`, `PutEvent`, `PutRow` |
| `snapshot`, as far as it puts the branch's row | `BeginSnapshot`, `PutRow` |
| `create_branch` | `BeginBranch`, `ReadBase` (no event was named), `PutRow` |
| `rollback` | `BeginRollback`, `PutRow` |
| an append that dies between its puts | `Lose` |

So appends overlap, a row that is put last takes the head back over what others have
put, and with `ClientParents` an event starts from wherever its client says
(`POST /api/v1/events` passes `parent_event_ids` through). An event is its timestamp,
which is taken between the read of the row and the put of the event: events of
overlapping appends can be stored out of order. The clock is taken not to step back,
and two events not to have one timestamp.

`Failures`, `Successes`, the rules of `_repair_link_evidence`, `PrimaryRule` and
`Links` are operators over the history. `Reachable` is a recursive function over
parents. There are two of each view because the code has two: reachability follows
the parents events name in one place and the table of edges in the other, and the
first success of a branch is decided by SQL in one view (`FirstByQuery`) and by
reachability in the other (`FirstOnBranch`). The rule that compares command texts only
supports links and is left out. As in `VersionedTrajectory`, parents and bases that
clients name are events that are stored; a branch that one is made from exists.

### JudgmentCache

A query for `semantic_repair_judgments`, alone or as the first half of
`learned_skills`: `Start` (the ids are read, and a view that has them is taken),
`ReadFailures`, for every failure without a cause `PutCause` and `PutEdges`,
`ReadLinks`, `Judged` or `JudgeFailed`, `PutJudgments`, and for skills
`ClearIndex` and `FillIndex`. A call to the LLM ends with an answer, an error or
an exception (`Endings`, `JudgeRaises`). The history goes on between any two of
these (`Grow`: any step of `RepairLinks`), and tool calls are put again
(`RewriteCall`, `CallRewritten`). `Kinds` are the queries clients ask.

Here `put_object` of an event is two steps, because the shared connection shows
readers that take no lock what another thread has not committed: the event's
edges are deleted, then inserted. `WriteFree` is what the lock and SQLite's
write lock keep apart; it also holds back the reads of `Grow`, which depend on no
edges and could as well come after. A cached view can be `torn`: mined while an append
was between its puts, or an event's edges were deleted. `replace_owner` works on the
vector index's own connection, which the threads share and no lock guards.

`kept` is history: the links that were learned as skills and have been links ever
since. Links can be taken back by appends with named parents and by racing requests,
so a skill is asked for only while its link stays.

### ContextViews

A query for `current_prompt`: `ReadEvents`, `ReadLatest` (the branch is read a
second time; `moved`, history, is what only one of the two readings has),
`ReadDigest`, `PutDigest` or `DigestRaises`, then `Pack`,
`PackNext` for each of the six segments in the order of their priorities, and
`Answer`. A segment costs any number of tokens, what is cut may cost less than
what remained; the task and the branch are never empty. Left out: the texts, and
with them which memories and skills are shown; `query_view`'s put of the view it
returns, which nothing reads back; the keys that tell LLM profiles apart.

## The runs

| Run | Asks | Bounds | Result |
|---|---|---|---|
| `trajectory_concurrent` | what survives any interleaving? | 2 requests that may write any branch, 2 events, 2 branches, 1 snapshot, clients that name parents; audited operations | pass, 1.0 million states |
| `trajectory_owned` | is the trajectory a branch log when branches have one writer? | 2 requests, one per branch, 3 events, 2 branches, 1 snapshot; audited operations and plain snapshots (a plain branch creation or rollback is an audited one that dies after its put) | pass, 1.2 million states |
| `hook_serial` | what does a session promise when requests come one by one, may die, and are repeated? | 2 native calls, 3 events, or 4 for one call; 1 trajectory, 2 branches, 1 snapshot; 1 native call whose client goes on without an answer | pass, 2.9 million states |
| `hook_concurrent` | what does it promise when the watcher and the Agent work at once? | 1 native call, 3 events, 2 trajectories, 2 branches, 1 snapshot, 1 watcher, 1 Agent; nobody goes on without an answer | pass, 2.9 million states |
| `hook_two_trajectories` | does each session create exactly one trajectory? | as `hook_concurrent` | violated |
| `hook_choice_lost` | is the Agent's choice of branch preserved? | as `hook_concurrent` | violated |
| `hook_reinterpreted` | is a failed call never given to a later application? | as `hook_concurrent` | violated |
| `watcher` | is every record delivered, in order, whatever fails? | 2 logs, 2 lines in all, 1 of them to be skipped, 1 replacement, 1 crash | pass, with liveness, 0.3 million states |
| `transcript` | is no message dropped, and none forwarded twice? | 2 hooks, 2 transcripts, 2 messages, 2 lines, 1 rewriting, 1 failed hook | pass, 3.4 million states |
| `repair` | are links final, and the two definitions of a first success one, when branches have one writer? | 2 requests, one for the default branch and one for the others, 3 events, 3 branches, 1 append that dies; default parents | pass, 1.8 million states |
| `repair_earlier` | is a repair later than its failure? | as `repair`, no append dies | violated |
| `views` | what may be cached of the LLM's answers, is what was learned kept while it is true, and is a context complete, and in its budget? | 2 queries, 1 request, 1 branch, parents that clients name; judgments of 2 events and 1 append that dies; contexts of 3 events, 1 recent event, a budget of 1 token | pass, 1.6 million states |

Why the bounds are enough for the cases that matter. Two requests show every
race of one put against another's read and put. Two events are an append and a
racing append, or the event of an audited snapshot and the one after it; three
let a branch be created, extended and raced while `main` moves on. One snapshot
and two branches give a fork, a rollback and a name taken twice. In the Hook
runs three events are a call, its result and the result of a skill application;
a fourth is there because a result that is delivered again after its pending entry is
gone makes two events; it is used by histories of one native call
(`LastIdForOneCall`). Two trajectories are what two first
requests create, where requests overlap; the second native call in `hook_serial` is
there to be mistaken for the first. In these runs any answer may be lost and its
record delivered again; `MaxLost` bounds the calls whose client goes on without.
`EventIds`, `Snaps` and `Trajs` bound how many ids `new_id` produces in a run; a
request that needs one more stops there, so the runs disable the deadlock check.
In `watcher` two lines are a record and the one behind it, in one log or in two;
it checks for deadlock, since the loop never stops. In `transcript` two hooks are
what overlaps, and two transcripts what a session resumed elsewhere has.

Three events and three branches in `repair` are a history in which a rollback branch,
a branch of it and a success on that one link to a failure that has an ancestor. In
`views` two events are a failure and its repair, or a second event with other parents
that takes the first away; links between branches are `repair`'s, and requests that race
on the branch are left to the theorems, which have them. Each of two queries may find
the other's view, cause or skills in any state. The third event is for contexts: it
comes, or leaves, between the readings of a branch that has two. Contexts depend neither
on outcomes nor on what is learned, so the run asks queries of one kind at a time
(`OneKind`). A budget of 1 and costs up to 2 give the exact fit, the cut text and the
empty remainder. The theorems have any bounds.
Ids are interchangeable, and so are queries, hooks, the repair branches of `repair` and
the workers of `trajectory_concurrent`, which may write any branch: the symmetry sets
say no more than that.

### What the violations show

* `hook_two_trajectories`: `_ensure_session` creates the trajectory before it
  puts the record, so two first requests create one each.
* `hook_choice_lost`: an `ingest` that began before `create_repair_branch` and
  ended after it puts the old active branch back.
* `hook_reinterpreted`: the status check of `record_skill_application` is not
  repeated when the outcome is updated.
* `repair_earlier`: README.md says `repair_strategies` links failures to later
  successes; the rules that look at where the success's branch started compare no
  timestamps, so a success on a branch forked before a failure is its repair.

The same properties of choice and reinterpretation are checked in `hook_serial`,
where they hold: the code is right for one request at a time.

### What the passing properties leave room for

Several properties name, in their condition, a case in which the code promises
nothing. These are behaviours of the code, found while the properties were
written, and a reader should know them.

* A link is taken back by the code when its branch loses history: by one append
  whose client names parents that leave it, or by the later put of one of two racing
  appends, of an append and a snapshot, or of two creations of one name. Then
  the success is not the branch's first any more, or not on it. The two definitions
  of a branch's first success then differ too: SQL counts what no head reaches
  (`LinksKept`, `FirstSuccessesAgree`, for one writer per branch and default parents).
* With one writer per branch a crashed append leaves an event that SQL still counts
  as a branch's first success (`FirstSuccessesAgree`).
* The view of judgments is keyed by the events there are. A head that is taken back
  changes the links and not the key, and the view is served with the old ones
  (`JudgmentsCurrent`, for one writer per branch; with whatever parents).
* Judgments read while another thread's put is half done (`torn`) miss links, and are
  served until the next event is appended (`JudgmentsCurrent`, `SkillsKept`).
* When queries overlap, a failed call may put its error in place of a cause
  another has found (`CausesKept`), and two rebuildings of the skills may lose
  some (`SkillsKept`). A failed call of a single query replaces the skills by those
  of the links that could be judged.
* An event that comes to a branch between the two readings of a context pushes another
  out of both the digest and the recent trace, and so does one that leaves it: a head
  that moves aside by a named parent, or is taken back, makes many come and leave at
  once (`ContextComplete`: as many events are missed, at most, as came or left).
* Overlapping or failed Claude hooks forward messages again (`NoReplay`), and can
  leave a state file that does not parse (`SaveAtomic`), after which a transcript is
  forwarded from its beginning.

### Fairness

`SessionWatcher` is the one module with a liveness property, `Delivered`, and with
fairness, `WF_vars(Watcher)`: while the process runs, the loop of `main` takes its
next step; it sleeps and waits for at most the 20 seconds of `post`, and never
blocks on anything else. What the server does is a condition of the property, log by
log: if posts of records of `f` that come again and again are accepted in the end
(`SF_vars(PostAccepted(f))`; the watcher asks once per pass, so weak fairness would
say nothing), then every record of `f` is delivered or its log replaced. A record that
is always refused holds back its own log for ever, which is what the code does;
that it does not hold back the others is part of what the run shows. Nothing is
assumed of Codex, of late commits, of crashes or restarts.

The other modules state no fairness: a request or a query may stop at any step,
which is what the crash and error cases need.

## What is proved

Every invariant and every action property that a passing run checks is also a
theorem, for every value of the constants: any number of events, branches,
snapshots, workers, logs, hooks and queries, any bounds, any set of operations.
What TLC showed of a small instance is what led to the invariants below; what the
theorems add is that no larger instance behaves differently.

The assumptions are those the modules state about their constants, and TLC
evaluates them in the runs: that absent values (`None`, `Broken`) are not among the
values they stand beside (`ConstantsOK`, `NoneIsNoRow`, `NoneIsNoTip`,
`NoneIsNoRecord`, `NoFileIsNoState`, `LinkConstants`), that queries are of the two
kinds there are (`KindsAsked`), that `Main` is a branch,
`Writers` a function and bounds are numbers (`SessionConstants`,
`WatcherConstants`, `TranscriptConstants`), and that the budget and the number of
recent events are not zero (`ContextConstants`: `_context_assembly` takes at least 1
as its budget, and `RECENT_CAUSAL_EVENT_LIMIT` is 8). Three hypotheses restrict how
the program is used; the theorems that need them name them:

* `~ClientParents`: clients let `append_event` choose the parents. A client that
  names parents may leave its branch's history, and the code lets it.
* `OneClientPerBranch`: no two workers write one branch. The program does not see to
  it: a watcher and an Agent that write the active branch at once are two.
* `OneRequestAtATime`: a session's requests do not overlap. Without it `ChoiceKept`
  and `NeverReinterpreted` are false, see `hook_choice_lost` and
  `hook_reinterpreted`.

| Module | Theorem | Property | If |
|---|---|---|---|
| `VersionedTrajectoryProofs` | `TypeCorrect` | `TypeOK` | |
| | `HistoryIsKept` | `HistoryKept`, of steps | |
| | `ReferencesStored` | `Referential` | |
| | `HeadsOnTheirBranch` | `HeadOnBranch` | |
| | `EventsAcyclic` | `Acyclic` | |
| | `SnapshotsComplete` | `SnapshotComplete` | |
| | `BranchesStartAtSnapshot` | `StartsAtSnapshot` | |
| `OwnedTrajectoryProofs` | `BasesBelowHeads` | `BaseBelowHead` | `~ClientParents` |
| | `AcknowledgedStays` | `AckedOnBranch` | `~ClientParents`, `OneClientPerBranch` |
| | `TrajectoryFollowsMain` | `TrajHeadOnMain` | the same |
| | `RecordsMatchSnapshots` | `RecordMatchesSnapshot` | the same |
| | `ImplementsBranchLog` | `RefinesBranchLog`, a refinement | the same |
| `HookSessionProofs` | `TypeCorrect` | `TypeOK` | |
| | `StoredRecordIsSound` | `SessionSound` | |
| | `OutcomesMatchResults` | `OutcomeMatchesResult` | |
| | `SnapshotsComeFirst` | `SnapshotBeforeCall` | |
| | `AdviceHasItsFailure` | `AdvisedFailureOnBranch` | |
| | `ChoiceIsKept` | `ChoiceKept` | `OneRequestAtATime` |
| | `NativeCallsAreFinal` | `NativeCallFinal` | `OneRequestAtATime` |
| | `FailuresAreKept` | `NeverReinterpreted`, of steps | `OneRequestAtATime` |
| `SessionWatcherProofs` | `TypeCorrect` | `TypeOK` | |
| | `NothingIsSkipped` | `NothingSkipped` | |
| | `AnswersAreBehind` | `AnsweredBehind` | |
| | `PointerIsOfThisRun` | `PointerOfThisRun` | |
| | `CommitsInOrder` | `InOrder`, of steps | |
| `TranscriptSyncProofs` | `TypeCorrect` | `TypeOK` | |
| | `NothingIsDropped` | `NothingDropped` | |
| | `NothingIsRepeated` | `NoReplay` | |
| | `SavesAreAtomic` | `SaveAtomic` | |
| `RepairLinksProofs` | `HistoryTypeCorrect` | `HistoryTypeOK` | |
| | `FirstSuccessIsOne` | `FirstSuccessesAgree` | `~ClientParents`, `OneClientPerBranch` |
| | `LinksAreFinal` | `LinksKept`, of steps | the same |
| `JudgmentCacheProofs` | `CausesAreKept` | `CausesKept`, of steps | |
| | `JudgmentsAreCurrent` | `JudgmentsCurrent` | `OneClientPerBranch` |
| | `SkillsAreKept` | `SkillsKept` | |
| `ContextViewsProofs` | `TypeCorrect` | `TypeOK` | |
| | `DigestsCover` | `DigestCovers` | |
| | `BudgetIsKept` | `BudgetKept` | |
| | `ContextsAreComplete` | `ContextComplete` | |

Hardly any of these properties is inductive: a step writes what its request, hook
or query read several steps ago, so each proof has to say what is still true of
the copies that are held meanwhile. The arguments, module by module:

### The trajectory

Four layers, each an inductive invariant that uses the one below.

1. `TypeInv`: `TypeOK`, what each step may rely on in its job (`JobsOK`: a
   request past `PutEvent` has an event, one past `PutSnapshot` a snapshot), and
   records exist only for snapshots.
2. `HistoryInv` adds `JobEvents`, the event a request will put again is stored
   with the branch and parents it holds, and `CopiersOK`, no two requests copy
   for one snapshot. From it every step satisfies `KeepsHistory`.
3. `RefInv` adds `Referential`, `HeadOnBranch` and their counterpart for the
   rows in jobs, `JobRefs`. History being kept, what a stale row names is still
   stored: this is why whole-row puts cannot make a reference dangle although
   they can lose a head.
4. `SnapInv` adds `SnapshotComplete`, that recorded events are stored, where
   rows come from, and the same for the snapshots and key lists in jobs. Keys are
   listed after the snapshot's event was read, and parents are stored before
   their children, so the list is closed.

`Acyclic` is not an invariant of arithmetic: a new event's parents are stored
and it is not, and a second put keeps the parents; the induction is over steps,
each adding a minimal element.

`OwnedTrajectoryProofs` builds on `RefInv`. `Below(events, a, d)` is ancestry
without recursion: every set of events that is closed under parents and has `d` has
`a`. Stored events keep their parents, so ancestry is never lost (`BelowStays`).
`BaseInv` says that every row, stored or held by a request, has its base below its
head; that needs no owner. `OwnedInv` adds what one writer per branch gives
(`OwnedJob`): the row a request holds is the row that is stored until its own put,
a branch it is about to make is not there, and the head it has read for the
trajectory is below the default branch's. The refinement is proved action by action
(each put is a `Record`, an `Advance`, a `Fork` or a stutter of `BranchLog`), under
the same invariant.

### The Hook session

`HookInv` holds with any number of requests. Its core is `RecordOK`: a session
record names only a branch, pending calls and a snapshot of its own trajectory, and
advises a repair only with a failed result on the snapshot's branch. It is stated of
the stored record *and of every copy a request carries* (`JobOK`); since nothing it
names is ever removed or changes its trajectory (`Keeps`), a sound copy stays sound
however old it is, and putting it back is harmless to these properties, while it may
still lose the Agent's choice.

`SerialInv` is for one request at a time. It relates the request to the record it
was loaded from: its copy has the branch the Agent chose last (`Choosing`), and its
pending calls are the stored ones but for the call it works on (`Entry`). Of each
native call whose answer the client had (`Known`) it says that it is pending in the
record or settled (`Tracked`), and that what settled it is its own result or a skill
application's (`CallKnown`). A pending entry is of a call of its id, but of which one is
only known after an answer: a call whose answer was lost is recorded again, and the
entry follows the later one. That a result delivered twice finds no entry, or an entry
of its id, and never another native call's, is what makes the repetition harmless.

### The watcher and the Claude hook

`WatchInv` of `SessionWatcherProofs`: every offset, held or saved, covers only
records the server has (`Covered`), or belongs to a replaced content; the saved
offset is not ahead of the held one; answered posts are behind the offset, and
those that timed out and may still commit are not ahead of it (`FileInv`). The last
is what puts late commits in order. A step touches one log; that it leaves the
others alone is `Rests`.

`SyncInv` of `TranscriptSyncProofs` says of every state a hook works on, and of both
files, that it is `Behind` the server: all messages between its base and its cursor
have been posted. Hooks that overlap may overwrite each other's states, but each is
behind, so none drops a message. `AloneInv` is about the time before any overlap:
one hook is at work, the temporary file is its own, and what the state file has
recorded as seen is in the state the hook loads and saves.

### Repair links, judgments and skills

`Reachable` is a recursive function over parents. `ReachExists` shows that the
recursion has a solution for every table in which parents are earlier, and the
lemmas about it (`ReachableStep`, `ReachableWithin`, `ReachableStays`) follow by a
least counterexample (`LeastNumber`, from the well-foundedness of the naturals): an
induction that needs no operator as a parameter.

Three layers say what is known of the history.

1. `HistInv` needs no hypothesis: events name earlier events, rows and the rows that
   requests hold name events and branches that are there. A request takes the time of
   its event after it has read the row, hence after the times of the parents
   (`JobOK`). It speaks of the parents events name, not of the table of edges, so the
   modules above can use it while writes to the table are half done (`EdgesInv`).
2. `OwnedInv` is what `OneClientPerBranch` gives: the row a request holds is the one
   that is stored, but for the event it appends.
3. `LinkInv` adds what default parents give: the event in flight is a child of the head
   and later than all the branch shows (`HeadsInv`), and a branch reaches every event
   appended on it, but for those in flight and those whose append died (`ReachInv`).

`FirstsAgree` reads `FirstSuccessesAgree` off the third. What a step keeps is `Kept`: a
branch shows what it has shown, and what it shows more is later. From `Kept` alone each of
the five rules keeps its verdict (`RulesStay`), because each rule's condition speaks
of events before the success. Without either hypothesis `Kept` is false, and so are
the two theorems.

`CurrentInv` uses the second layer: what was mined of as many events as there are now,
and not torn, is the links of the whole history and no append is in flight. For with one
client per branch a row that is put again is as it was, so links change only with an
event (`QuietStep`, `LinksFrozen`), and an event changes the key, whatever its parents
are. `Whole` are the links as they are once a half-done write is complete.

`SkillsInv` and `CausesInv` use only the first layer: they hold whatever the history
does. `kept`, what was learned and has been a link ever since, is part of the links of
the whole history by definition; what matters is that it is a part of every view that
is not torn, and of what a query has read (`LearningOK`). A query that is alone takes
such a view, or reads all links again, and so inserts no less than it has deleted.
`CausesInv`: while no queries have overlapped, at most one is active, and no event it
is going to ask the LLM about (`Pending`) has a known cause.

### Contexts

* `DigestInv`: every digest a query holds covers what it names, also while the LLM
  is asked. A digest is extended only from a proper prefix, so what it covered and
  what is new make up the whole (`ExtendedCovers`).
* `BudgetInv`: what is packed and what remains make up the budget (`Fits`), and after
  the first segment something is packed.
* `ReadInv`: a digest that is ready is of the events before the first reading's latest
  ones, and of these the second reading misses at most as many as moved. It says nothing
  of how the readings came about: the bound is one on two sets of numbers
  (`LatestLost`), so it holds for heads that are taken back, parents that are named and
  writes that are half done. `PartLost` counts the events that came: let z be the least
  and x the largest event that is missed. Fewer than `Recent` events of the first
  reading are after z, all missed ones but z and all after x among them; at least
  `Recent` of the second are after x. An event that left is missed itself or lets one
  more be.

### What is not proved

`Delivered`, the liveness of the watcher, is model-checked only: liveness under
fairness and ENABLED are out of the prover's reach. So are the four properties that are
violated, of course; and the theorems are about the models, whose bounds on
rewritings, crashes and lost answers are constants that may have any value.

## Not modelled

* Text and numbers: adapters of event formats, error signatures, command variants,
  prompts, parsing, embeddings and their ranking, token estimates.
* The keys that tell LLM configurations apart, profiles, and how long the transport
  retries: an HTTP status that is not diagnosed is retried without end by a query
  that waits indefinitely.
* `_retrieve_context_memories`: it replaces the memories of the trajectory in the
  index, on a shared connection, so contexts of two branches at a time can take
  each other's; what is shown is decided by the ranking.
* What SQLite does when a statement of a transaction raises on the shared
  connection; the legacy import; `restore_snapshot_files`.
* The headings of a rendered context, which the code adds after the budget was
  spent.
* ContextQL, trace import, the CLI, the client, the benchmark, the dashboard: they
  run alone, over operations that are modelled.

## Plan

Done: the trajectory with its abstract specification, the Hook session with the
native wrapper and lost answers, the watcher with liveness, the Claude hook, the
repair links over the same history, the caches and the context; a proof of every
safety property of a passing run, and of the refinement of `BranchLog`. Next, in this order:

1. A run, and a property, for snapshots of empty branches and the base
   `create_branch` falls back to (the hazard at `service.py:524`).
2. An abstract specification of what the session bridge promises one Agent, and the
   proof that `HookSession` implements it while requests come one at a time; the same
   for the watcher (a queue that is delivered in order).
3. Which of the hypotheses `~ClientParents` and `OneClientPerBranch` can be weakened
   to a condition on one branch: what other branches' clients do should not matter.

Out of reach and left to TLC or to tests: liveness and ENABLED, text heuristics
(tool chains, error signatures, prompts), embeddings, and the contents of LLM
answers.
