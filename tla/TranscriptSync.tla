--------------------------- MODULE TranscriptSync ---------------------------
(***************************************************************************)
(* The Claude Code hook (tools/claude_code_hook.py): a process is started  *)
(* for every lifecycle event of a session.  Before its own event it posts  *)
(* the assistant's messages that were added to the session's transcript,   *)
(* from a cursor and a set of seen messages it keeps in a state file.      *)
(* The processes of one session share nothing else, and can overlap.       *)
(*                                                                         *)
(* A line of the transcript counts two units of length, so the cursor can  *)
(* fall inside a line; every line is a message with an id of its own (a    *)
(* line without visible text only moves the cursor and is left out).       *)
(***************************************************************************)
EXTENDS Integers, Sequences

CONSTANTS
  Hooks,        \* the hook processes that can run at a time
  Paths,        \* the transcripts the session has had
  Messages,     \* the ids of the assistant's messages
  None,         \* a file that does not exist
  Broken,       \* the content of a state file that does not parse
  MaxLines,     \* bounds the lines of a transcript
  MaxRewrites,  \* bounds the times a transcript's content is replaced
  MaxFailures   \* bounds the hooks that fail or are killed

ASSUME TranscriptConstants ==
  /\ None # Broken /\ Paths # {}
  /\ MaxLines \in Nat /\ MaxRewrites \in Nat /\ MaxFailures \in Nat

VARIABLES
  lines,      \* lines[p]: the messages of transcript p
  whole,      \* whole[p]: p's last line is terminated
  saved, tmp, \* the contents of the state file and of the file it is written to
  job,        \* job[h]: what hook h is doing
  server,     \* the messages the server has recorded
  recorded,   \* history: the messages a state file of its path has recorded as seen
  repeated,   \* history: the messages posted again after they had been recorded;
              \* both are kept until hooks overlap
  overlap,    \* history: two hooks have run at the same time
  failures,   \* the hooks that failed so far
  rewrites    \* the transcripts replaced so far

log  == <<lines, whole, rewrites>>
hist == <<recorded, repeated, overlap>>
vars == <<log, saved, tmp, job, server, hist, failures>>

-----------------------------------------------------------------------------
\* The state a hook loads, works on and saves: the cursor into transcript path
\* and the seen messages.  base (history) is where the session began to follow
\* the transcript, and stale (history) says the content was replaced since.
State == [path : Paths, at : 0..(2 * MaxLines), seen : SUBSET Messages,
          base : 0..(2 * MaxLines), stale : BOOLEAN]

ASSUME NoFileIsNoState == None \notin State /\ Broken \notin State

\* handle: the file the hook has opened for writing, which another hook's
\* replace renames or removes.
Steps == {"idle", "read", "open", "fill", "replace", "event"}
Job == [step : Steps, state : State, handle : {"tmp", "saved", "gone"}]

Fresh(p) == [path |-> p, at |-> 0, seen |-> {}, base |-> 0, stale |-> FALSE]

IdleJob == [step |-> "idle", state |-> Fresh(CHOOSE p \in Paths : TRUE), handle |-> "tmp"]

\* All that is left to do is the hook's own event.
LastStep == [IdleJob EXCEPT !.step = "event"]

Size(p) == 2 * Len(lines[p]) - (IF whole[p] THEN 0 ELSE 1)

Terminated(p, n) == n < Len(lines[p]) \/ (n = Len(lines[p]) /\ whole[p])

Start(n) == 2 * (n - 1)

Least(a, b) == IF a < b THEN a ELSE b

S(h)          == job[h].state
Line(h)       == S(h).at \div 2 + 1
InsideLine(h) == S(h).at % 2 = 1

\* File content c is a state of transcript p.
Of(c, p) == c \notin {None, Broken} /\ c.path = p

\* Mutant: the cursor is taken as it was saved.
LoadedUncut(p) == IF Of(saved, p) THEN saved ELSE Fresh(p)

\* Mutant: the seen messages are not loaded.
LoadedUnseen(p) ==
  IF Of(saved, p)
    THEN [saved EXCEPT !.at = Least(@, Size(p)), !.seen = {}, !.stale = FALSE]
    ELSE Fresh(p)

\* A state file that is missing, does not parse or is of another transcript
\* starts over.  The cursor is cut to the size of the transcript.
Loaded(p) ==
  IF Of(saved, p)
    THEN LET at == Least(saved.at, Size(p))
         IN  [saved EXCEPT !.at = at, !.base = IF saved.stale THEN at ELSE @, !.stale = FALSE]
    ELSE Fresh(p)

-----------------------------------------------------------------------------
Init ==
  /\ lines = [p \in Paths |-> <<>>]
  /\ whole = [p \in Paths |-> TRUE]
  /\ rewrites = 0 /\ failures = 0
  /\ saved = None /\ tmp = None
  /\ job = [h \in Hooks |-> IdleJob]
  /\ server = {} /\ recorded = {} /\ repeated = {} /\ overlap = FALSE

-----------------------------------------------------------------------------
(* Claude writes the transcript. *)

ClaudeStep == UNCHANGED <<job, server, hist, failures>>

Known == UNION {{lines[p][n] : n \in 1..Len(lines[p])} : p \in Paths} \cup server

AppendLine(p, w) ==
  /\ whole[p] /\ Len(lines[p]) < MaxLines
  /\ \E m \in Messages \ Known : lines' = [lines EXCEPT ![p] = Append(@, m)]
  /\ whole' = [whole EXCEPT ![p] = w]
  /\ ClaudeStep /\ UNCHANGED <<rewrites, saved, tmp>>

Finish(p) ==
  /\ ~whole[p]
  /\ whole' = [whole EXCEPT ![p] = TRUE]
  /\ ClaudeStep /\ UNCHANGED <<lines, rewrites, saved, tmp>>

Outdated(c, p) == IF Of(c, p) THEN [c EXCEPT !.stale = TRUE] ELSE c

\* The transcript is written anew, with messages it had and new ones, while no
\* hook reads it.
Rewrite(p) ==
  /\ rewrites < MaxRewrites
  /\ lines[p] # <<>>
  /\ \A h \in Hooks : job[h].step = "idle"
  /\ \E n \in 0..MaxLines : \E s \in [1..n -> Messages] :
       /\ \A i, j \in 1..n : s[i] = s[j] => i = j
       /\ lines' = [lines EXCEPT ![p] = s]
  /\ whole' = [whole EXCEPT ![p] = TRUE]
  /\ rewrites' = rewrites + 1
  /\ saved' = Outdated(saved, p) /\ tmp' = Outdated(tmp, p)
  /\ ClaudeStep

-----------------------------------------------------------------------------
(* The hook processes. *)

Move(h, step) == job' = [job EXCEPT ![h].step = step]

Go(h, step, state) == job' = [job EXCEPT ![h].step = step, ![h].state = state]

Begin(h, j) ==
  /\ job[h].step = "idle"
  /\ overlap' = (overlap \/ \E g \in Hooks \ {h} : job[g].step # "idle")
  /\ recorded' = IF overlap' THEN {} ELSE recorded
  /\ repeated' = IF overlap' THEN {} ELSE repeated
  /\ job' = [job EXCEPT ![h] = j]
  /\ UNCHANGED <<log, saved, tmp, server, failures>>

\* SessionStart: a session without a state starts at the transcript's end.
SessionStart(h, p) ==
  Begin(h, IF saved = None
             THEN [IdleJob EXCEPT !.step = "open",
                                  !.state = [Fresh(p) EXCEPT !.at = Size(p), !.base = Size(p)]]
             ELSE LastStep)

\* There is no transcript yet; then nothing is loaded or saved.
NoTranscript(h, p) == lines[p] = <<>> /\ Begin(h, LastStep)

\* PreToolUse and Stop: the transcript is synchronized first.
Sync(h, p) == Begin(h, [IdleJob EXCEPT !.step = "read", !.state = Loaded(p)])

Reading(h) == job[h].step = "read" /\ Terminated(S(h).path, Line(h))

Message(h) == lines[S(h).path][Line(h)]

ToPost(h) == Reading(h) /\ ~InsideLine(h) /\ Message(h) \notin S(h).seen

\* The rest of a line the cursor fell into, and a seen message, are passed over.
PassOver(h) ==
  /\ Reading(h) /\ ~ToPost(h)
  /\ Go(h, "read", [S(h) EXCEPT !.at = 2 * Line(h)])
  /\ UNCHANGED <<log, saved, tmp, server, hist, failures>>

Commit(h) ==
  /\ server' = server \cup {Message(h)}
  /\ repeated' = repeated \cup (IF Of(saved, S(h).path) THEN {Message(h)} \cap recorded ELSE {})

Post(h) ==
  /\ ToPost(h)
  /\ Commit(h)
  /\ Go(h, "read", [S(h) EXCEPT !.at = 2 * Line(h), !.seen = @ \cup {Message(h)}])
  /\ UNCHANGED <<log, saved, tmp, recorded, overlap, failures>>

\* Mutant: the cursor goes to the end of the transcript.
EndReadAtSize(h) ==
  /\ job[h].step = "read" /\ ~Reading(h)
  /\ Go(h, "open", [S(h) EXCEPT !.at = Size(S(h).path)])
  /\ UNCHANGED <<log, saved, tmp, server, hist, failures>>

\* A line that is not terminated yet is left for the next hook.
EndRead(h) ==
  /\ job[h].step = "read" /\ ~Reading(h)
  /\ Move(h, "open")
  /\ UNCHANGED <<log, saved, tmp, server, hist, failures>>

\* Mutant: the state file is opened for writing itself.
OpenSaved(h) ==
  /\ job[h].step = "open"
  /\ saved' = Broken
  /\ job' = [job EXCEPT ![h].step = "fill", ![h].handle = "saved"]
  /\ UNCHANGED <<log, tmp, server, hist, failures>>

\* _save_state: every hook writes the same temporary file.  Opening it empties it.
OpenTmp(h) ==
  /\ job[h].step = "open"
  /\ tmp' = Broken
  /\ job' = [job EXCEPT ![h].step = "fill", ![h].handle = "tmp"]
  /\ UNCHANGED <<log, saved, server, hist, failures>>

\* The state goes to the file that was opened, wherever it is by now.  Over the
\* longer state of a hook that opened it too it does not parse.
Written(old, new) == IF old = Broken THEN {new} ELSE {new, Broken}

\* The messages recorded as seen, when the state file holds c: a state of another
\* transcript starts over.
RecordedWith(c) ==
  IF overlap \/ c \in {None, Broken} THEN recorded
  ELSE c.seen \cup (IF saved \in {None, Broken} \/ saved.path = c.path THEN recorded ELSE {})

FillTmp(h) ==
  /\ job[h].step = "fill"
  /\ CASE job[h].handle = "tmp" ->
            tmp' \in Written(tmp, S(h)) /\ UNCHANGED <<saved, recorded>>
       [] job[h].handle = "saved" ->
            /\ saved' \in Written(saved, S(h))
            /\ recorded' = RecordedWith(saved')
            /\ UNCHANGED tmp
       [] OTHER -> UNCHANGED <<tmp, saved, recorded>>
  /\ Move(h, "replace")
  /\ UNCHANGED <<log, server, repeated, overlap, failures>>

\* temporary.replace(path): what the others have opened moves with its name.
Moved(g) == IF job[g].handle = "tmp" THEN "saved" ELSE "gone"

Replace(h) ==
  /\ job[h].step = "replace" /\ tmp # None
  /\ saved' = tmp /\ tmp' = None
  /\ recorded' = RecordedWith(tmp)
  /\ job' = [g \in Hooks |->
               IF g = h THEN LastStep
               ELSE IF job[g].step = "fill" THEN [job[g] EXCEPT !.handle = Moved(g)]
               ELSE job[g]]
  /\ UNCHANGED <<log, server, repeated, overlap, failures>>

Idle(h) == job' = [job EXCEPT ![h] = IdleJob]

\* The temporary file was moved away by another hook: the hook gives up with a
\* warning, before it has posted its own event.
ReplaceMissing(h) ==
  /\ job[h].step = "replace" /\ tmp = None
  /\ Idle(h)
  /\ UNCHANGED <<log, saved, tmp, server, hist, failures>>

\* The hook posts its own event, unless there is none (a Stop, an empty prompt, a
\* tool without an id), and ends.
PostEvent(h) ==
  /\ job[h].step = "event"
  /\ Idle(h)
  /\ UNCHANGED <<log, saved, tmp, server, hist, failures>>

\* A hook is killed, or gives up because a post or a file operation raised.
Fail(h) ==
  /\ job[h].step # "idle"
  /\ failures < MaxFailures /\ failures' = failures + 1
  /\ Idle(h)
  /\ UNCHANGED <<log, saved, tmp, server, hist>>

\* The post raised although the server committed the message.
PostUnanswered(h) ==
  /\ ToPost(h)
  /\ failures < MaxFailures /\ failures' = failures + 1
  /\ Commit(h)
  /\ Idle(h)
  /\ UNCHANGED <<log, saved, tmp, recorded, overlap>>

-----------------------------------------------------------------------------
Next ==
  \/ \E p \in Paths :
       \/ \E w \in BOOLEAN : AppendLine(p, w)
       \/ Finish(p) \/ Rewrite(p)
       \/ \E h \in Hooks : SessionStart(h, p) \/ NoTranscript(h, p) \/ Sync(h, p)
  \/ \E h \in Hooks :
       \/ PassOver(h) \/ Post(h) \/ PostUnanswered(h) \/ EndRead(h)
       \/ OpenTmp(h) \/ FillTmp(h) \/ Replace(h) \/ ReplaceMissing(h)
       \/ PostEvent(h) \/ Fail(h)

Spec == Init /\ [][Next]_vars

-----------------------------------------------------------------------------
(* Properties. *)

\* The variables keep their shape; a hook reads within its transcript.
TypeOK ==
  /\ lines \in [Paths -> UNION {[1..n -> Messages] : n \in 0..MaxLines}]
  /\ whole \in [Paths -> BOOLEAN]
  /\ rewrites \in 0..MaxRewrites /\ failures \in 0..MaxFailures
  /\ saved \in State \cup {None, Broken} /\ tmp \in State \cup {None, Broken}
  /\ job \in [Hooks -> Job]
  /\ server \subseteq Messages /\ recorded \subseteq server /\ repeated \subseteq server
  /\ overlap \in BOOLEAN
  /\ \A h \in Hooks : job[h].step = "read" => S(h).at <= Size(S(h).path)

\* The states some hook is working on or has saved.
States == {S(h) : h \in {g \in Hooks : job[g].step # "idle"}} \cup ({saved, tmp} \ {None, Broken})

\* Behind every cursor, of a hook or in a file, the server has recorded all the
\* messages the session follows, however hooks overlap, fail or die: a hook's own
\* event comes after the messages it read (_sync_assistant_messages: "Forward
\* transcript text appended since the prior lifecycle-hook wakeup"), and no
\* cursor passes a message that was not posted, or an unfinished line.
NothingDropped ==
  \A s \in States :
    /\ s.seen \subseteq server
    /\ ~s.stale => \A n \in 1..Len(lines[s.path]) :
                     s.base <= Start(n) /\ Start(n) < s.at => lines[s.path][n] \in server

\* As long as hooks run one after the other, a message a saved state has recorded
\* is never posted again, whatever fails and though the transcript is written
\* anew ("This also keeps a rewritten transcript from replaying recorded
\* assistant text").
NoReplay == overlap \/ repeated = {}

\* As long as hooks run one after the other, a hook that dies while it saves
\* leaves the state file readable, and a hook that is about to replace it
\* replaces it by its own state.
SaveAtomic ==
  overlap \/ /\ saved # Broken
             /\ \A h \in Hooks : job[h].step = "replace" => tmp = S(h)

=============================================================================
