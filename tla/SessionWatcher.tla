--------------------------- MODULE SessionWatcher ---------------------------
(***************************************************************************)
(* The Codex session watcher (tools/windows_codex_session_watcher.py): one *)
(* process that polls append-only rollout logs and posts each record to    *)
(* the server, from an offset it keeps for every log.                      *)
(*                                                                         *)
(* A line counts two units of length, so an offset can fall between a line *)
(* and its newline.  What the records say is left out; only whether the    *)
(* watcher posts a line or skips it (blank, malformed, not an object)      *)
(* matters.  A log's content can be replaced between two readings of it.   *)
(***************************************************************************)
EXTENDS Integers, Sequences, FiniteSets

CONSTANTS
  Files,        \* the rollout logs
  Lines,        \* the lines a log can hold
  Events,       \* the lines that are posted; the others are skipped
  None,         \* an absent value
  MaxLines,     \* bounds the lines of a log
  MaxTotal,     \* bounds the lines of all logs together
  Replaced,     \* the logs whose content another one may replace
  MaxRewrites,  \* bounds the times that happens
  MaxCrashes    \* bounds the watcher's crashes

ASSUME WatcherConstants ==
  /\ Events \subseteq Lines /\ Replaced \subseteq Files
  /\ None \notin Files
  /\ MaxLines \in Nat /\ MaxRewrites \in Nat /\ MaxCrashes \in Nat

VARIABLES
  lines,      \* lines[f]: the lines of log f
  last,       \* last[f]: how much of the last line is written; a log that is not
              \* created yet is an empty one, and both are read from 0
  up,         \* the watcher is running
  skipping,   \* it is in its first pass and was not told --replay-existing
  todo,       \* the logs left in this pass
  cur, pos,   \* the log that is open, and the offset reached in it
  mem, disk,  \* mem[f], disk[f]: the offset recorded for f, held and saved;
              \* 0 stands for none too, as in prior.get("offset", 0)
  pointer,    \* the log named by the session pointer file, or None
  inflight,   \* inflight[f]: the lines of f whose post timed out before the
              \* server committed them, and which it may still commit
  server,     \* server[f]: the lines of f the server committed
  base,       \* history: base[f] is where the watcher began to follow f
  answered,   \* history: answered[f] are the lines of f this run's posts were
              \* answered for
  forwarded,  \* history: the logs this run forwarded a line of
  crashes,    \* the crashes so far
  rewrites    \* the times a log's content was replaced so far

logs    == <<lines, last, rewrites>>
mode    == <<up, skipping, crashes>>
offsets == <<todo, cur, pos, mem, disk>>
history == <<base, answered, forwarded>>
vars    == <<logs, mode, offsets, pointer, inflight, server, history>>

-----------------------------------------------------------------------------
\* The last line is terminated, complete but for its newline, or partly written.
Ends == {"newline", "whole", "partial"}

\* An offset; it is stale (history) when the content it was reached in is gone.
Offset == [at : 0..(2 * MaxLines), stale : BOOLEAN]

Numbers == 1..MaxLines

Start(n) == 2 * (n - 1)

Size(f) == 2 * Len(lines[f]) - (IF last[f] = "newline" THEN 0 ELSE 1)

Terminated(f, n) == n < Len(lines[f]) \/ (n = Len(lines[f]) /\ last[f] = "newline")

Written == {fn \in Files \X Numbers : fn[2] \in 1..Len(lines[fn[1]])}

\* Line n of f is a record the watcher can parse.
Record(f, n) ==
  /\ n \in 1..Len(lines[f])
  /\ lines[f][n] \in Events
  /\ n = Len(lines[f]) => last[f] # "partial"

\* The offset behind line n, of which all that is written has been read.
Past(f, n) == IF Terminated(f, n) THEN 2 * n ELSE 2 * n - 1

\* The line at the offset; the offset may lie before its newline.
Line == pos.at \div 2 + 1

InsideLine == pos.at % 2 = 1

Zero == [at |-> 0, stale |-> FALSE]

\* The server commits line n of f.
Commit(f, n) ==
  /\ server' = [server EXCEPT ![f] = @ \cup {n}]
  /\ inflight' = [inflight EXCEPT ![f] = @ \ {n}]

-----------------------------------------------------------------------------
Init ==
  /\ lines = [f \in Files |-> <<>>]
  /\ last = [f \in Files |-> "newline"]
  /\ rewrites = 0
  /\ up = FALSE /\ skipping = FALSE /\ crashes = 0
  /\ todo = {} /\ cur = None /\ pos = Zero
  /\ mem = [f \in Files |-> Zero]
  /\ disk = [f \in Files |-> Zero]
  /\ pointer = None
  /\ inflight = [f \in Files |-> {}]
  /\ server = [f \in Files |-> {}]
  /\ base = [f \in Files |-> 0]
  /\ answered = [f \in Files |-> {}]
  /\ forwarded = {}

-----------------------------------------------------------------------------
(* Codex writes its logs. *)

LogStep == UNCHANGED <<mode, todo, cur, pos, pointer, base, forwarded>>

\* A line is appended, in one write or in several.
Write(f, l, e) ==
  /\ last[f] = "newline"
  /\ Len(lines[f]) < MaxLines /\ Cardinality(Written) < MaxTotal
  /\ lines' = [lines EXCEPT ![f] = Append(@, l)]
  /\ last' = [last EXCEPT ![f] = e]
  /\ LogStep /\ UNCHANGED <<rewrites, mem, disk, inflight, server, answered>>

Complete(f, e) ==
  /\ <<last[f], e>> \in {<<"partial", "whole">>, <<"partial", "newline">>, <<"whole", "newline">>}
  /\ last' = [last EXCEPT ![f] = e]
  /\ LogStep /\ UNCHANGED <<lines, rewrites, mem, disk, inflight, server, answered>>

\* Another content takes the place of f's, while the watcher is not reading it.
Rewrite(f) ==
  /\ cur # f /\ lines[f] # <<>>
  /\ rewrites < MaxRewrites
  /\ \E n \in 0..MaxLines : \E s \in [1..n -> Lines] : lines' = [lines EXCEPT ![f] = s]
  /\ Cardinality(Written') <= MaxTotal
  /\ last' = [last EXCEPT ![f] = "newline"]
  /\ rewrites' = rewrites + 1
  /\ mem' = [mem EXCEPT ![f].stale = (@ \/ mem[f].at > 0)]
  /\ disk' = [disk EXCEPT ![f].stale = (@ \/ disk[f].at > 0)]
  /\ inflight' = [inflight EXCEPT ![f] = {}]
  /\ server' = [server EXCEPT ![f] = {}]
  /\ answered' = [answered EXCEPT ![f] = {}]
  /\ LogStep

-----------------------------------------------------------------------------
(* The watcher's main loop. *)

\* Mutant: the pointer of the last run is left.
StartWatcherKeepingPointer(r) ==
  /\ ~up
  /\ up' = TRUE /\ skipping' = ~r
  /\ mem' = disk
  /\ todo' = Files
  /\ UNCHANGED <<logs, pointer, cur, pos, disk, inflight, server, history, crashes>>

\* A start removes the pointer and loads the saved offsets.
StartWatcher(r) ==
  /\ ~up
  /\ up' = TRUE /\ skipping' = ~r
  /\ pointer' = None
  /\ mem' = disk
  /\ todo' = Files
  /\ UNCHANGED <<logs, cur, pos, disk, inflight, server, history, crashes>>

\* The first pass of a live run starts every log at its end.
InitialSkip(f) ==
  /\ up /\ cur = None /\ f \in todo
  /\ skipping
  /\ mem' = [mem EXCEPT ![f] = [at |-> Size(f), stale |-> FALSE]]
  /\ base' = [base EXCEPT ![f] = Size(f)]
  /\ todo' = todo \ {f}
  /\ UNCHANGED <<logs, mode, cur, pos, disk, pointer, inflight, server, answered, forwarded>>

\* A log without an offset, and one shorter than its offset, is read from its
\* beginning.
BeginFile(f) ==
  /\ up /\ cur = None /\ f \in todo
  /\ ~skipping
  /\ cur' = f
  /\ IF mem[f].at = 0 \/ mem[f].at > Size(f)
       THEN /\ pos' = Zero
            /\ base' = [base EXCEPT ![f] = 0]
       ELSE pos' = mem[f] /\ UNCHANGED base
  /\ UNCHANGED <<logs, mode, todo, mem, disk, pointer, inflight, server, answered, forwarded>>

Reading(f) == up /\ cur = f /\ f \in Files

\* Mutant: the offset the reading began at is recorded again.
LeaveAtBeginning(f, o) ==
  /\ todo' = todo \ {f}
  /\ cur' = None /\ pos' = Zero
  /\ UNCHANGED <<mem, disk>>

\* Mutant: the log is not closed.
LeaveOpen(f, o) ==
  /\ mem' = [mem EXCEPT ![f] = o]
  /\ todo' = todo \ {f}
  /\ UNCHANGED <<cur, pos, disk>>

\* Records offset o for the open log and goes on to the next one.
Leave(f, o) ==
  /\ mem' = [mem EXCEPT ![f] = o]
  /\ todo' = todo \ {f}
  /\ cur' = None /\ pos' = Zero
  /\ UNCHANGED disk

\* The rest of a line that was read in part before it was terminated, and a
\* line without a record, are passed over.
SkipLine(f) ==
  /\ Reading(f)
  /\ Terminated(f, Line)
  /\ InsideLine \/ lines[f][Line] \notin Events
  /\ pos' = [pos EXCEPT !.at = 2 * Line]
  /\ UNCHANGED <<logs, mode, todo, cur, mem, disk, pointer, inflight, server, history>>

AtRecord(f) == Reading(f) /\ ~InsideLine /\ Record(f, Line)

\* The end of the log, or a line that cannot be parsed before it is finished.
EndFile(f) ==
  /\ Reading(f)
  /\ ~Terminated(f, Line)
  /\ ~AtRecord(f)
  /\ Leave(f, pos)
  /\ UNCHANGED <<logs, mode, pointer, inflight, server, history>>

PostAccepted(f) ==
  /\ AtRecord(f)
  /\ Commit(f, Line)
  /\ answered' = [answered EXCEPT ![f] = @ \cup {Line}]
  /\ pos' = [pos EXCEPT !.at = Past(f, Line)]
  /\ pointer' = f
  /\ forwarded' = forwarded \cup {f}
  /\ UNCHANGED <<logs, mode, todo, cur, mem, disk, base>>

\* Mutant: the line of a post that failed is not read again.
PostFailedAndSkipped(f) ==
  /\ AtRecord(f)
  /\ Leave(f, [pos EXCEPT !.at = Past(f, Line)])
  /\ UNCHANGED <<logs, mode, pointer, inflight, server, history>>

\* A post that fails ends the reading of the log at the line it was for: the
\* server refused it or was away,
PostFailed(f) ==
  /\ AtRecord(f)
  /\ Leave(f, pos)
  /\ UNCHANGED <<logs, mode, pointer, inflight, server, history>>

\* or it committed the line and its answer was lost,
PostUnanswered(f) ==
  /\ AtRecord(f)
  /\ Commit(f, Line)
  /\ Leave(f, pos)
  /\ UNCHANGED <<logs, mode, pointer, history>>

\* Mutant: after a post that timed out the next line is read.
PostLateAndContinue(f) ==
  /\ AtRecord(f)
  /\ inflight' = [inflight EXCEPT ![f] = @ \cup ({Line} \ server[f])]
  /\ pos' = [pos EXCEPT !.at = Past(f, Line)]
  /\ UNCHANGED <<logs, mode, todo, cur, mem, disk, pointer, server, history>>

\* or it had not come to commit it when the 20 s of post() ran out.
PostLate(f) ==
  /\ AtRecord(f)
  /\ inflight' = [inflight EXCEPT ![f] = @ \cup ({Line} \ server[f])]
  /\ Leave(f, pos)
  /\ UNCHANGED <<logs, mode, pointer, server, history>>

LateCommit(f, n) ==
  /\ n \in inflight[f]
  /\ Commit(f, n)
  /\ UNCHANGED <<logs, mode, offsets, pointer, history>>

\* Mutant: the logs are listed once, before the loop, by a generator.
SaveStateWithoutListing ==
  /\ up /\ cur = None /\ todo = {}
  /\ disk' = mem
  /\ skipping' = FALSE
  /\ UNCHANGED <<logs, up, crashes, todo, cur, pos, mem, pointer, inflight, server, history>>

\* The offsets are saved once, at the end of a pass.
SaveState ==
  /\ up /\ cur = None /\ todo = {}
  /\ disk' = mem
  /\ skipping' = FALSE
  /\ todo' = Files
  /\ UNCHANGED <<logs, up, crashes, cur, pos, mem, pointer, inflight, server, history>>

\* The watcher is killed, or dies of an error it does not catch: the save of the
\* pointer raises after the line was posted.
Crash ==
  /\ up
  /\ crashes < MaxCrashes
  /\ crashes' = crashes + 1
  /\ up' = FALSE /\ skipping' = FALSE
  /\ todo' = {} /\ cur' = None /\ pos' = Zero
  /\ mem' = disk
  /\ answered' = [f \in Files |-> {}] /\ forwarded' = {}
  /\ UNCHANGED <<logs, disk, pointer, inflight, server, base>>

-----------------------------------------------------------------------------
Codex ==
  \E f \in Files :
    \/ \E l \in Lines, e \in Ends : Write(f, l, e)
    \/ \E e \in Ends : Complete(f, e)
    \/ f \in Replaced /\ Rewrite(f)

Watcher ==
  \/ SaveState
  \/ \E f \in Files :
       \/ InitialSkip(f) \/ BeginFile(f) \/ SkipLine(f) \/ EndFile(f)
       \/ PostAccepted(f) \/ PostFailed(f) \/ PostUnanswered(f) \/ PostLate(f)

Next ==
  \/ Codex
  \/ Watcher
  \/ \E r \in BOOLEAN : StartWatcher(r)
  \/ \E f \in Files : \E n \in inflight[f] : LateCommit(f, n)
  \/ Crash

\* The loop of main() never rests while the watcher runs.  Nothing obliges Codex to
\* write, the server to accept a post or to finish one that timed out, or anyone to
\* start the watcher again.
Fairness == WF_vars(Watcher)

Spec == Init /\ [][Next]_vars /\ Fairness

-----------------------------------------------------------------------------
(* Properties. *)

TypeOK ==
  /\ lines \in [Files -> UNION {[1..n -> Lines] : n \in 0..MaxLines}]
  /\ last \in [Files -> Ends]
  /\ up \in BOOLEAN /\ skipping \in BOOLEAN
  /\ crashes \in 0..MaxCrashes /\ rewrites \in 0..MaxRewrites
  /\ todo \subseteq Files
  /\ cur \in todo \cup {None}
  /\ pos \in Offset
  /\ mem \in [Files -> Offset]
  /\ disk \in [Files -> Offset]
  /\ pointer \in Files \cup {None}
  /\ inflight \in [Files -> SUBSET Numbers]
  /\ server \in [Files -> SUBSET Numbers]
  /\ base \in [Files -> 0..(2 * MaxLines)]
  /\ answered \in [Files -> SUBSET Numbers]
  /\ forwarded \subseteq Files

\* Where the watcher is in f: the offset it has reached, or has recorded.
At(f) == IF cur = f THEN pos ELSE mem[f]

\* The watcher follows f from before its line n, which is a record.
Followed(f, n) == Record(f, n) /\ base[f] <= Start(n)

\* Behind an offset of the present content, reached, recorded or saved, there is
\* no record the watcher follows that the server has not committed: a failed
\* post, a half-written line, a crash in a pass and a restart drop none
\* (forward_file's comment: "a temporary server failure does not silently drop
\* live evidence").
NothingSkipped ==
  \A f \in Files : \A o \in {At(f), disk[f]} :
    ~o.stale =>
      \A n \in Numbers : Followed(f, n) /\ Start(n) < o.at => n \in server[f]

\* A run never returns to a line whose post was answered: a record is posted
\* again only after a post that seemed to fail, or by another run.
AnsweredBehind ==
  up => \A f \in Files : \A n \in answered[f] : Start(n) < At(f).at

\* The session pointer names a log this run forwarded a line of, and a run that has
\* forwarded nothing leaves none (clear_session_pointer: "Do not let a new watcher
\* run accidentally reuse an older rollout").
PointerOfThisRun == up /\ pointer # None => pointer \in forwarded

\* As long as the watcher has not crashed, the server commits a record for the
\* first time only after all the records before it, although posts time out and
\* are committed late.
InOrder ==
  [][\A f \in Files : \A n \in server'[f] \ server[f] :
       crashes = 0 /\ ~At(f).stale =>
         \A m \in 1..(n - 1) : Followed(f, m) => m \in server[f]]_vars

\* The watcher owes the server line n of f.
Due(f, n) ==
  /\ up /\ Followed(f, n) /\ n \notin server[f]
  /\ ~At(f).stale

\* A record the watcher follows reaches the server, unless the watcher dies or
\* the log is replaced behind its back, if the server takes a record of its log at
\* last when it is asked again and again: no malformed line, failing post or other
\* log blocks it for ever, not even one whose records the server always rejects.
Delivered ==
  \A f \in Files : SF_vars(PostAccepted(f)) =>
    \A n \in Numbers : Due(f, n) ~> ~Due(f, n)

=============================================================================
