------------------------ MODULE SessionWatcherProofs ------------------------
(* Theorems about SessionWatcher, for any constants. *)
EXTENDS SessionWatcher, SequenceTheorems, TLAPS

(***************************************************************************)
(* Type correctness.  A log that ends in an unfinished line has a line.    *)
(***************************************************************************)

LogsOK == \A f \in Files : last[f] # "newline" => Len(lines[f]) > 0

TypeInv == TypeOK /\ LogsOK

Log == UNION {[1..n -> Lines] : n \in 0..MaxLines}

\* A log is a sequence of at most MaxLines lines, and conversely.
LEMMA LogIsSeq ==
  /\ \A s \in Log : s \in Seq(Lines) /\ Len(s) \in 0..MaxLines
  /\ \A s \in Seq(Lines) : Len(s) <= MaxLines => s \in Log
<1> USE WatcherConstants DEF Log
<1>1. ASSUME NEW s \in Log PROVE s \in Seq(Lines) /\ Len(s) \in 0..MaxLines
  <2>1. PICK n \in 0..MaxLines : s \in [1..n -> Lines]
    OBVIOUS
  <2>2. n \in Nat /\ s \in Seq(Lines)
    BY <2>1, SeqDef
  <2>3. Len(s) = n
    BY <2>1, <2>2, LenProperties
  <2> QED BY <2>2, <2>3
<1>2. ASSUME NEW s \in Seq(Lines), Len(s) <= MaxLines PROVE s \in Log
  <2>1. Len(s) \in 0..MaxLines /\ s \in [1..Len(s) -> Lines]
    BY <1>2, LenProperties
  <2> QED BY <2>1
<1> QED BY <1>1, <1>2

LEMMA LogFacts ==
  ASSUME TypeInv, NEW f \in Files
  PROVE  /\ lines[f] \in Seq(Lines) /\ Len(lines[f]) \in 0..MaxLines
         /\ last[f] \in Ends
         /\ last[f] # "newline" => Len(lines[f]) > 0
         /\ Size(f) \in 0..(2 * MaxLines)
         /\ Size(f) = IF last[f] = "newline" THEN 2 * Len(lines[f]) ELSE 2 * Len(lines[f]) - 1
<1>1. lines[f] \in Log
  BY DEF TypeInv, TypeOK, Log
<1>2. lines[f] \in Seq(Lines) /\ Len(lines[f]) \in 0..MaxLines
  BY <1>1, LogIsSeq
<1>3. last[f] \in Ends /\ (last[f] # "newline" => Len(lines[f]) > 0)
  BY DEF TypeInv, TypeOK, LogsOK
<1>4. CASE last[f] = "newline"
  <2>1. Size(f) = 2 * Len(lines[f])
    BY <1>2, <1>4 DEF Size
  <2> QED BY <1>2, <1>3, <1>4, <2>1, WatcherConstants
<1>5. CASE last[f] # "newline"
  <2>1. Size(f) = 2 * Len(lines[f]) - 1
    BY <1>5 DEF Size
  <2> QED BY <1>2, <1>3, <1>5, <2>1, WatcherConstants
<1> QED BY <1>4, <1>5

\* The line at an offset starts there, or one unit before.
LEMMA LineFacts ==
  ASSUME pos \in Offset
  PROVE  /\ Line \in Nat /\ Line >= 1
         /\ InsideLine => pos.at = Start(Line) + 1
         /\ ~InsideLine => pos.at = Start(Line)
<1>1. pos.at \in Nat
  BY WatcherConstants DEF Offset
<1>2. pos.at \div 2 \in Nat
  BY <1>1
<1>3. pos.at % 2 \in 0..1
  BY <1>1
<1>4. pos.at = 2 * (pos.at \div 2) + (pos.at % 2)
  BY <1>1
<1> QED BY <1>1, <1>2, <1>3, <1>4 DEF Line, InsideLine, Start

LEMMA ZeroTyped == Zero \in Offset /\ 0 \in 0..(2 * MaxLines)
  BY WatcherConstants DEF Zero, Offset

LEMMA InitTyped == Init => TypeInv
<1> SUFFICES ASSUME Init PROVE TypeInv
  OBVIOUS
<1>1. <<>> \in Log
  <2>1. <<>> \in Seq(Lines) /\ Len(<<>>) = 0
    BY EmptySeq
  <2> DEFINE e == <<>>
  <2>2. e \in Seq(Lines) /\ Len(e) <= MaxLines
    BY <2>1, WatcherConstants
  <2> HIDE DEF e
  <2>3. e \in Log
    BY <2>2, LogIsSeq
  <2> QED BY <2>3 DEF e
<1>2. TypeOK
  <2>1. lines \in [Files -> Log] /\ last \in [Files -> Ends]
    BY <1>1 DEF Init, Ends
  <2>2. crashes \in 0..MaxCrashes /\ rewrites \in 0..MaxRewrites
    BY WatcherConstants DEF Init
  <2>3. /\ pos \in Offset /\ mem \in [Files -> Offset] /\ disk \in [Files -> Offset]
        /\ base \in [Files -> 0..(2 * MaxLines)]
    BY ZeroTyped DEF Init
  <2> QED BY <2>1, <2>2, <2>3 DEF Init, TypeOK, Log
<1>3. LogsOK
  BY DEF Init, LogsOK
<1> QED BY <1>2, <1>3 DEF TypeInv

LEMMA CodexTyped ==
  ASSUME TypeInv, Codex
  PROVE  TypeInv'
<1> USE WatcherConstants
<1>0. TypeOK
  BY DEF TypeInv
<1>a. \A f \in Files : lines[f] \in Seq(Lines) /\ Len(lines[f]) \in 0..MaxLines
  BY LogFacts
<1>1. ASSUME NEW f \in Files, NEW l \in Lines, NEW e \in Ends, Write(f, l, e) PROVE TypeInv'
  <2>1. Append(lines[f], l) \in Seq(Lines) /\ Len(Append(lines[f], l)) = Len(lines[f]) + 1
    BY <1>a
  <2>2. Append(lines[f], l) \in Log
    <3> DEFINE s == Append(lines[f], l)
    <3>1. s \in Seq(Lines) /\ Len(s) <= MaxLines
      BY <1>a, <1>1, <2>1 DEF Write
    <3> HIDE DEF s
    <3>2. s \in Log
      BY <3>1, LogIsSeq
    <3> QED BY <3>2 DEF s
  <2>3. lines' \in [Files -> Log] /\ last' \in [Files -> Ends]
    BY <1>0, <1>1, <2>2 DEF Write, TypeOK, Log
  <2>4. LogsOK'
    BY <1>0, <1>a, <1>1, <2>1 DEF Write, TypeInv, TypeOK, LogsOK
  <2> QED BY <1>0, <1>1, <2>3, <2>4 DEF Write, LogStep, mode, TypeInv, TypeOK, Log
<1>2. ASSUME NEW f \in Files, NEW e \in Ends, Complete(f, e) PROVE TypeInv'
  <2>1. last' \in [Files -> Ends] /\ lines' = lines
    BY <1>0, <1>2 DEF Complete, TypeOK
  <2>2. LogsOK'
    BY <1>0, <1>2 DEF Complete, TypeInv, TypeOK, LogsOK
  <2> QED BY <1>0, <1>2, <2>1, <2>2 DEF Complete, LogStep, mode, TypeInv, TypeOK
<1>3. ASSUME NEW f \in Files, Rewrite(f) PROVE TypeInv'
  <2>1. PICK s \in Log : lines' = [lines EXCEPT ![f] = s]
    BY <1>3 DEF Rewrite, Log
  <2>2. lines' \in [Files -> Log] /\ last' \in [Files -> Ends]
    BY <1>0, <1>3, <2>1 DEF Rewrite, TypeOK, Log, Ends
  <2>3. mem' \in [Files -> Offset] /\ disk' \in [Files -> Offset]
    BY <1>0, <1>3 DEF Rewrite, TypeOK, Offset
  <2>4. /\ inflight' \in [Files -> SUBSET Numbers] /\ server' \in [Files -> SUBSET Numbers]
        /\ answered' \in [Files -> SUBSET Numbers]
    BY <1>0, <1>3 DEF Rewrite, TypeOK
  <2>5. rewrites' \in 0..MaxRewrites
    BY <1>0, <1>3 DEF Rewrite, TypeOK
  <2>6. LogsOK'
    <3> SUFFICES ASSUME NEW g \in Files, last'[g] # "newline" PROVE Len(lines'[g]) > 0
      BY DEF LogsOK
    <3>1. g # f /\ last'[g] = last[g] /\ lines'[g] = lines[g]
      BY <1>0, <1>3, <2>1 DEF Rewrite, TypeOK
    <3> QED BY <3>1 DEF TypeInv, LogsOK
  <2> QED BY <1>0, <1>3, <2>2, <2>3, <2>4, <2>5, <2>6
          DEF Rewrite, LogStep, mode, TypeInv, TypeOK, Log
<1> QED BY <1>1, <1>2, <1>3 DEF Codex

\* Recording an offset and going on to the next log keeps the types.
LEMMA LeaveTyped ==
  ASSUME TypeInv, NEW f \in Files, NEW o \in Offset, Leave(f, o)
  PROVE  /\ todo' \subseteq Files /\ cur' \in todo' \cup {None}
         /\ pos' \in Offset /\ mem' \in [Files -> Offset] /\ disk' = disk
  BY WatcherConstants DEF Leave, Zero, Offset, TypeInv, TypeOK

LEMMA CommitTyped ==
  ASSUME TypeInv, NEW f \in Files, NEW n \in Numbers, Commit(f, n)
  PROVE  inflight' \in [Files -> SUBSET Numbers] /\ server' \in [Files -> SUBSET Numbers]
  BY DEF Commit, TypeInv, TypeOK

\* A record at the offset is a line of the log.
LEMMA RecordFacts ==
  ASSUME TypeInv, NEW f \in Files, AtRecord(f)
  PROVE  /\ pos \in Offset /\ Line \in Numbers /\ Line <= Len(lines[f])
         /\ pos.at = Start(Line) /\ At(f) = pos
         /\ Past(f, Line) \in 0..(2 * MaxLines) /\ Start(Line) < Past(f, Line)
         /\ Past(f, Line) <= Size(f)
<1>1. pos \in Offset /\ Len(lines[f]) \in 0..MaxLines
  BY LogFacts DEF TypeInv, TypeOK
<1>2. Line \in 1..Len(lines[f]) /\ ~InsideLine
  BY DEF AtRecord, Record
<1>3. Line \in Numbers /\ Line <= Len(lines[f]) /\ pos.at = Start(Line)
  BY <1>1, <1>2, LineFacts, WatcherConstants DEF Numbers
<1>4. /\ Past(f, Line) \in 0..(2 * MaxLines) /\ Start(Line) < Past(f, Line)
      /\ Past(f, Line) <= Size(f)
  <2>1. CASE Terminated(f, Line)
    <3>1. Past(f, Line) = 2 * Line /\ (Line < Len(lines[f]) \/ last[f] = "newline")
      BY <2>1 DEF Past, Terminated
    <3>2. Past(f, Line) <= Size(f)
      BY <1>1, <1>2, <1>3, <3>1, LogFacts
    <3> QED BY <1>1, <1>2, <1>3, <3>1, <3>2, LogFacts, WatcherConstants DEF Start
  <2>2. CASE ~Terminated(f, Line)
    <3>1. Past(f, Line) = 2 * Line - 1
      BY <2>2 DEF Past
    <3>2. Past(f, Line) <= Size(f)
      BY <1>1, <1>2, <1>3, <3>1, LogFacts
    <3> QED BY <1>1, <1>2, <1>3, <3>1, <3>2, LogFacts, WatcherConstants DEF Start
  <2> QED BY <2>1, <2>2
<1> QED BY <1>1, <1>3, <1>4 DEF AtRecord, Reading, At

LEMMA WatcherTyped ==
  ASSUME TypeInv, Watcher
  PROVE  TypeInv'
<1> USE WatcherConstants
<1>0. TypeOK
  BY DEF TypeInv
<1>1. CASE SaveState
  BY <1>0, <1>1 DEF SaveState, logs, history, TypeInv, TypeOK, LogsOK
<1>2. ASSUME NEW f \in Files, InitialSkip(f) PROVE TypeInv'
  <2>1. Size(f) \in 0..(2 * MaxLines)
    BY LogFacts
  <2>2. mem' \in [Files -> Offset] /\ base' \in [Files -> 0..(2 * MaxLines)]
    BY <1>0, <1>2, <2>1 DEF InitialSkip, TypeOK, Offset
  <2> QED BY <1>0, <1>2, <2>2 DEF InitialSkip, logs, mode, TypeInv, TypeOK, LogsOK
<1>3. ASSUME NEW f \in Files, BeginFile(f) PROVE TypeInv'
  <2>1. pos' \in Offset /\ base' \in [Files -> 0..(2 * MaxLines)]
    <3>1. \/ pos' = Zero /\ base' = [base EXCEPT ![f] = 0]
          \/ pos' = mem[f] /\ base' = base
      BY <1>3 DEF BeginFile
    <3>2. mem[f] \in Offset /\ base \in [Files -> 0..(2 * MaxLines)]
      BY <1>0 DEF TypeOK
    <3>3. pos' \in Offset
      BY <3>1, <3>2, ZeroTyped
    <3>4. base' \in [Files -> 0..(2 * MaxLines)]
      BY <3>1, <3>2, ZeroTyped
    <3> QED BY <3>3, <3>4
  <2> QED BY <1>0, <1>3, <2>1 DEF BeginFile, logs, mode, TypeInv, TypeOK, LogsOK
<1>4. ASSUME NEW f \in Files, SkipLine(f) PROVE TypeInv'
  <2>1. 2 * Line \in 0..(2 * MaxLines)
    BY <1>0, <1>4, LogFacts, LineFacts DEF SkipLine, Terminated, TypeOK
  <2>2. pos' \in Offset
    BY <1>0, <1>4, <2>1 DEF SkipLine, TypeOK, Offset
  <2> QED BY <1>0, <1>4, <2>2 DEF SkipLine, logs, mode, history, TypeInv, TypeOK, LogsOK
<1>5. ASSUME NEW f \in Files, EndFile(f) PROVE TypeInv'
  BY <1>0, <1>5, LeaveTyped DEF EndFile, logs, mode, history, TypeInv, TypeOK, LogsOK
<1>6. ASSUME NEW f \in Files, PostAccepted(f) PROVE TypeInv'
  <2>1. Line \in Numbers /\ Past(f, Line) \in 0..(2 * MaxLines)
    BY <1>6, RecordFacts DEF PostAccepted
  <2>2. pos' \in Offset /\ answered' \in [Files -> SUBSET Numbers]
    BY <1>0, <1>6, <2>1 DEF PostAccepted, TypeOK, Offset
  <2>3. inflight' \in [Files -> SUBSET Numbers] /\ server' \in [Files -> SUBSET Numbers]
    BY <1>6, <2>1, CommitTyped DEF PostAccepted
  <2> QED BY <1>0, <1>6, <2>2, <2>3 DEF PostAccepted, logs, mode, TypeInv, TypeOK, LogsOK
<1>7. ASSUME NEW f \in Files, PostFailed(f) PROVE TypeInv'
  BY <1>0, <1>7, LeaveTyped DEF PostFailed, logs, mode, history, TypeInv, TypeOK, LogsOK
<1>8. ASSUME NEW f \in Files, PostUnanswered(f) PROVE TypeInv'
  <2>1. inflight' \in [Files -> SUBSET Numbers] /\ server' \in [Files -> SUBSET Numbers]
    BY <1>8, RecordFacts, CommitTyped DEF PostUnanswered
  <2> QED BY <1>0, <1>8, <2>1, LeaveTyped
          DEF PostUnanswered, logs, mode, history, TypeInv, TypeOK, LogsOK
<1>9. ASSUME NEW f \in Files, PostLate(f) PROVE TypeInv'
  <2>1. inflight' \in [Files -> SUBSET Numbers]
    BY <1>0, <1>9, RecordFacts DEF PostLate, TypeOK
  <2> QED BY <1>0, <1>9, <2>1, LeaveTyped
          DEF PostLate, logs, mode, history, TypeInv, TypeOK, LogsOK
<1> QED BY <1>1, <1>2, <1>3, <1>4, <1>5, <1>6, <1>7, <1>8, <1>9 DEF Watcher

LEMMA NextTyped == TypeInv /\ [Next]_vars => TypeInv'
<1> SUFFICES ASSUME TypeInv, [Next]_vars PROVE TypeInv'
  OBVIOUS
<1> USE WatcherConstants
<1>0. TypeOK
  BY DEF TypeInv
<1>1. ASSUME NEW r \in BOOLEAN, StartWatcher(r) PROVE TypeInv'
  BY <1>0, <1>1 DEF StartWatcher, logs, history, TypeInv, TypeOK, LogsOK
<1>2. ASSUME NEW f \in Files, NEW n \in inflight[f], LateCommit(f, n) PROVE TypeInv'
  <2>1. inflight' \in [Files -> SUBSET Numbers] /\ server' \in [Files -> SUBSET Numbers]
    BY <1>0, <1>2, CommitTyped DEF LateCommit, TypeOK
  <2> QED BY <1>0, <1>2, <2>1
          DEF LateCommit, logs, mode, offsets, history, TypeInv, TypeOK, LogsOK
<1>3. CASE Crash
  <2>1. crashes' \in 0..MaxCrashes
    BY <1>0, <1>3 DEF Crash, TypeOK
  <2>2. pos' \in Offset /\ mem' \in [Files -> Offset] /\ disk' \in [Files -> Offset]
    BY <1>0, <1>3, ZeroTyped DEF Crash, TypeOK
  <2>3. answered' \in [Files -> SUBSET Numbers] /\ forwarded' \subseteq Files
    BY <1>3 DEF Crash
  <2> QED BY <1>0, <1>3, <2>1, <2>2, <2>3 DEF Crash, logs, TypeInv, TypeOK, LogsOK
<1>4. CASE UNCHANGED vars
  BY <1>0, <1>4 DEF vars, logs, mode, offsets, history, TypeInv, TypeOK, LogsOK
<1> QED BY <1>1, <1>2, <1>3, <1>4, CodexTyped, WatcherTyped DEF Next

\* Every offset, set of line numbers and log has the shape the code gives it.
THEOREM TypeCorrect == Spec => []TypeOK
<1>1. TypeInv => TypeOK
  BY DEF TypeInv
<1> QED BY <1>1, InitTyped, NextTyped, PTL DEF Spec

(***************************************************************************)
(* The offsets.  What the watcher has reached and what it has saved must   *)
(* both be covered by what the server committed, also for a line that is   *)
(* still written in part, else finishing it would break NothingSkipped.    *)
(* An offset of a replaced content is worth nothing, but it must be seen   *)
(* not to be taken for one of the present content.                         *)
(***************************************************************************)

\* Line n of f will have to be at the server once it can be parsed.
Owed(f, n) == n \in 1..Len(lines[f]) /\ lines[f][n] \in Events /\ base[f] <= Start(n)

Covered(f, o) ==
  /\ o.stale => o.at > 0
  /\ ~o.stale => /\ o.at <= Size(f)
                 /\ \A n \in Numbers : Owed(f, n) /\ Start(n) < o.at => n \in server[f]

\* The saved offset is not ahead; an offset beyond the log's end is one of a
\* replaced content, none of whose lines was posted; answered posts are behind
\* the offset, and those that may still commit are not ahead of it.
FileInv(f) ==
  /\ Covered(f, At(f)) /\ Covered(f, disk[f])
  /\ ~disk[f].stale /\ disk[f].at > 0 => ~At(f).stale /\ disk[f].at <= At(f).at
  /\ \/ At(f).at <= Size(f)
     \/ cur # f /\ At(f).stale /\ answered[f] = {} /\ (crashes = 0 => inflight[f] = {})
  /\ up => \A n \in answered[f] : Start(n) < At(f).at
  /\ crashes = 0 /\ ~At(f).stale => \A n \in inflight[f] : Start(n) <= At(f).at

\* Before a run and in its first pass nothing is read, and what is held is saved.
RunInv ==
  /\ ~up => todo = {} /\ cur = None /\ mem = disk /\ ~skipping
  /\ ~up \/ skipping => /\ cur = None
                        /\ \A f \in Files : answered[f] = {} /\ (crashes = 0 => inflight[f] = {})
  /\ PointerOfThisRun

WatchInv == TypeInv /\ RunInv /\ \A f \in Files : FileInv(f)

LEMMA InitWatch == Init => WatchInv
<1> SUFFICES ASSUME Init PROVE WatchInv
  OBVIOUS
<1>0. TypeInv
  BY InitTyped
<1>1. RunInv
  BY DEF Init, RunInv, PointerOfThisRun
<1>2. ASSUME NEW f \in Files PROVE FileInv(f)
  <2>1. At(f) = Zero /\ disk[f] = Zero /\ answered[f] = {} /\ inflight[f] = {}
    BY DEF Init, At
  <2>2. Size(f) >= 0 /\ \A n \in Numbers : Start(n) >= 0
    BY <1>0, LogFacts, WatcherConstants DEF Numbers, Start
  <2> QED BY <2>1, <2>2, WatcherConstants DEF FileInv, Covered, Zero, Numbers, Start
<1> QED BY <1>0, <1>1, <1>2 DEF WatchInv

\* The values of a log's offsets and lines, for arithmetic.
LEMMA FileFacts ==
  ASSUME WatchInv, NEW f \in Files
  PROVE  /\ TypeInv /\ TypeOK /\ RunInv /\ FileInv(f) /\ f # None
         /\ At(f) \in Offset /\ At(f).at \in Nat /\ disk[f] \in Offset /\ disk[f].at \in Nat
         /\ Size(f) \in Nat /\ base[f] \in Nat
         /\ \A n \in Numbers : n \in Nat /\ n >= 1 /\ Start(n) \in Nat
         /\ answered[f] \subseteq Numbers /\ inflight[f] \subseteq Numbers
<1>1. TypeInv /\ TypeOK /\ RunInv /\ FileInv(f) /\ f # None
  BY WatcherConstants DEF WatchInv, TypeInv
<1>2. At(f) \in Offset /\ disk[f] \in Offset
  BY <1>1 DEF At, TypeOK
<1>3. \A o \in Offset : o.at \in Nat
  BY WatcherConstants DEF Offset
<1>4. \A n \in Numbers : n \in Nat /\ n >= 1 /\ Start(n) \in Nat
  BY WatcherConstants DEF Numbers, Start
<1>5. Size(f) \in Nat /\ base[f] \in Nat
  BY <1>1, LogFacts, WatcherConstants DEF TypeOK
<1> QED BY <1>1, <1>2, <1>3, <1>4, <1>5 DEF TypeOK

\* What a step that does not move f's offsets may do: commit or answer lines.
Rests(f) ==
  /\ lines'[f] = lines[f] /\ last'[f] = last[f] /\ base'[f] = base[f]
  /\ At(f)' = At(f) /\ disk'[f] = disk[f]
  /\ server[f] \subseteq server'[f]
  /\ inflight'[f] \subseteq inflight[f] /\ answered'[f] \subseteq answered[f]
  /\ cur' = f => cur = f
  /\ up' => up \/ answered[f] = {}
  /\ crashes' = crashes

LEMMA RestsKeeps ==
  ASSUME NEW f \in Files, FileInv(f), Rests(f)
  PROVE  FileInv(f)'
<1>1. Size(f)' = Size(f) /\ \A n \in Numbers : Owed(f, n)' <=> Owed(f, n)
  BY DEF Rests, Size, Owed
<1>2. \A o : Covered(f, o) => Covered(f, o)'
  BY <1>1 DEF Covered, Rests
<1>3. Covered(f, At(f))' /\ Covered(f, disk[f])'
  <2> DEFINE a == At(f)  d == disk[f]
  <2>1. Covered(f, a)' /\ Covered(f, d)'
    BY <1>2 DEF FileInv, Rests
  <2> QED BY <2>1 DEF Rests
<1> QED BY <1>1, <1>3 DEF FileInv, Rests

\* A line that is appended begins behind every offset; finishing one moves none.
LEMMA GrowthKeeps ==
  ASSUME WatchInv, NEW f \in Files, TypeInv',
         \/ \E l \in Lines, e \in Ends : Write(f, l, e)
         \/ \E e \in Ends : Complete(f, e)
  PROVE  FileInv(f)'
<1>0. /\ TypeInv /\ TypeOK /\ FileInv(f)
      /\ At(f) \in Offset /\ At(f).at \in Nat /\ disk[f] \in Offset /\ disk[f].at \in Nat
      /\ lines[f] \in Seq(Lines) /\ Len(lines[f]) \in Nat
  BY FileFacts, LogFacts, WatcherConstants
<1>1. /\ UNCHANGED <<cur, pos, mem, disk, up, crashes, base, server, inflight, answered>>
      /\ At(f)' = At(f)
  BY DEF Write, Complete, LogStep, mode, At
<1>2. /\ Size(f)' \in Nat /\ Size(f) \in Nat /\ Size(f) <= Size(f)'
      /\ \A n \in Numbers : Owed(f, n)' /\ Start(n) < Size(f) => Owed(f, n)
  <2>1. ASSUME NEW l \in Lines, NEW e \in Ends, Write(f, l, e)
        PROVE  /\ Size(f)' \in Nat /\ Size(f) \in Nat /\ Size(f) <= Size(f)'
               /\ \A n \in Numbers : Owed(f, n)' /\ Start(n) < Size(f) => Owed(f, n)
    <3>1. lines'[f] = Append(lines[f], l) /\ last[f] = "newline"
      BY <1>0, <2>1 DEF Write, TypeOK
    <3>2. /\ Len(lines'[f]) = Len(lines[f]) + 1
          /\ \A n \in 1..Len(lines[f]) : lines'[f][n] = lines[f][n]
      BY <1>0, <3>1
    <3>3. Size(f) = 2 * Len(lines[f])
      BY <1>0, <3>1, LogFacts
    <3>4. Size(f)' >= 2 * Len(lines'[f]) - 1 /\ Size(f)' \in Nat
      BY <1>0, <3>2 DEF Size
    <3>5. ASSUME NEW n \in Numbers, Owed(f, n)', Start(n) < Size(f) PROVE Owed(f, n)
      <4>1. n \in 1..Len(lines[f])
        BY <1>0, <3>2, <3>3, <3>5, WatcherConstants DEF Owed, Start, Numbers
      <4> QED BY <1>1, <3>2, <3>5, <4>1 DEF Owed
    <3> QED BY <1>0, <3>2, <3>3, <3>4, <3>5
  <2>2. ASSUME NEW e \in Ends, Complete(f, e)
        PROVE  /\ Size(f)' \in Nat /\ Size(f) \in Nat /\ Size(f) <= Size(f)'
               /\ \A n \in Numbers : Owed(f, n)' /\ Start(n) < Size(f) => Owed(f, n)
    <3>1. lines' = lines /\ last[f] # "newline"
      BY <2>2 DEF Complete
    <3>2. Size(f) = 2 * Len(lines[f]) - 1 /\ Size(f) \in Nat
      BY <1>0, <3>1, LogFacts, WatcherConstants
    <3>3. Size(f)' \in Nat /\ Size(f)' >= 2 * Len(lines[f]) - 1
      BY <1>0, <3>1, <3>2 DEF Size
    <3> QED BY <1>1, <3>1, <3>2, <3>3 DEF Owed
  <2> QED BY <2>1, <2>2
<1>3. ASSUME NEW o \in Offset, o.at \in Nat, Covered(f, o) PROVE Covered(f, o)'
  BY <1>1, <1>2, <1>3, WatcherConstants DEF Covered, Start, Numbers
<1>4. Covered(f, At(f))' /\ Covered(f, disk[f])'
  <2>1. Covered(f, At(f)) /\ Covered(f, disk[f])
    BY <1>0 DEF FileInv
  <2> DEFINE a == At(f)  d == disk[f]
  <2>2. a' = a /\ d' = d
    BY <1>1
  <2> QED BY <1>0, <1>3, <2>1, <2>2
<1> QED BY <1>0, <1>1, <1>2, <1>4 DEF FileInv

\* A replaced content leaves offsets that are stale or at its beginning.
LEMMA RewriteKeeps ==
  ASSUME WatchInv, NEW f \in Files, TypeInv', Rewrite(f)
  PROVE  FileInv(f)'
<1>0. /\ TypeInv /\ TypeOK /\ FileInv(f)
      /\ At(f) \in Offset /\ At(f).at \in Nat /\ disk[f] \in Offset /\ disk[f].at \in Nat
      /\ \A n \in Numbers : Start(n) \in Nat
  BY FileFacts
<1>1. Size(f)' \in Nat
  <2>1. lines'[f] \in Log /\ last'[f] = "newline"
    BY <1>0 DEF Rewrite, TypeInv, TypeOK, Log
  <2>2. Len(lines'[f]) \in Nat
    BY <2>1, LogIsSeq, WatcherConstants
  <2> QED BY <2>1, <2>2 DEF Size
<1>2. /\ At(f) = mem[f] /\ At(f)' = mem'[f] /\ cur' # f /\ crashes' = crashes
      /\ answered'[f] = {} /\ inflight'[f] = {}
  BY <1>0 DEF Rewrite, LogStep, At, TypeOK, mode
<1>3. /\ mem'[f] = [mem[f] EXCEPT !.stale = (mem[f].stale \/ mem[f].at > 0)]
      /\ disk'[f] = [disk[f] EXCEPT !.stale = (disk[f].stale \/ disk[f].at > 0)]
  BY <1>0 DEF Rewrite, TypeOK
<1>a. ASSUME NEW o, NEW o2, o \in Offset, o2 = [o EXCEPT !.stale = (o.stale \/ o.at > 0)],
             Covered(f, o)
      PROVE  /\ o2.at = o.at /\ o.at \in Nat
             /\ o2.stale <=> o.at > 0
             /\ ~o2.stale => o2.at = 0
  <2>1. o2.at = o.at /\ (o2.stale <=> (o.stale \/ o.at > 0))
    BY <1>a DEF Offset
  <2>2. o.stale => o.at > 0
    BY <1>a DEF Covered
  <2>3. o.at \in Nat
    BY <1>a, WatcherConstants DEF Offset
  <2>4. o2.stale <=> o.at > 0
    BY <2>1, <2>2
  <2> QED BY <2>1, <2>3, <2>4
<1>4. /\ mem'[f].at = mem[f].at /\ (mem'[f].stale <=> mem[f].at > 0)
      /\ disk'[f].at = disk[f].at /\ (disk'[f].stale <=> disk[f].at > 0)
      /\ ~mem'[f].stale => mem'[f].at = 0
      /\ ~disk'[f].stale => disk'[f].at = 0
  <2>1. mem[f] \in Offset /\ disk[f] \in Offset /\ Covered(f, mem[f]) /\ Covered(f, disk[f])
    BY <1>0, <1>2 DEF FileInv
  <2> QED BY <1>3, <1>a, <2>1
<1>5. ASSUME NEW o, NEW k, o.at = k, k \in Nat, (o.stale <=> k > 0) PROVE Covered(f, o)'
  <2>1. \A n \in Numbers : ~(Start(n) < 0)
    BY <1>0
  <2>2. ~o.stale => k = 0 /\ k <= Size(f)'
    BY <1>1, <1>5
  <2> QED BY <1>5, <2>1, <2>2 DEF Covered
<1>6. Covered(f, At(f))' /\ Covered(f, disk[f])'
  <2> DEFINE a == At(f)  d == disk[f]
  <2>1. /\ a'.at = mem[f].at /\ (a'.stale <=> mem[f].at > 0)
        /\ d'.at = disk[f].at /\ (d'.stale <=> disk[f].at > 0)
        /\ mem[f].at \in Nat /\ disk[f].at \in Nat
    BY <1>0, <1>2, <1>4
  <2> HIDE DEF a, d
  <2>2. Covered(f, a)' /\ Covered(f, d)'
    BY <1>5, <2>1
  <2> QED BY <2>2 DEF a, d
<1>7. At(f)'.at <= Size(f)' \/ (At(f)').stale
  BY <1>1, <1>2, <1>4
<1> QED BY <1>2, <1>4, <1>6, <1>7 DEF FileInv

\* A log that is started at its end owes nothing of what is before.
LEMMA InitialSkipKeeps ==
  ASSUME WatchInv, NEW f \in Files, InitialSkip(f)
  PROVE  FileInv(f)'
<1>0. /\ TypeOK /\ RunInv /\ FileInv(f) /\ f # None /\ disk[f].at \in Nat /\ Size(f) \in Nat
      /\ \A n \in Numbers : Start(n) \in Nat
  BY FileFacts
<1>1. /\ cur' # f /\ answered'[f] = {} /\ (crashes' = 0 => inflight'[f] = {})
      /\ At(f)' = [at |-> Size(f), stale |-> FALSE] /\ Size(f)' = Size(f)
      /\ disk' = disk /\ base'[f] = Size(f)
  BY <1>0 DEF InitialSkip, RunInv, At, TypeOK, mode, logs, Size
<1>2. ASSUME NEW o, o.at \in Nat, o.stale => o.at > 0, ~o.stale => o.at <= Size(f)
      PROVE  Covered(f, o)'
  <2>1. ASSUME NEW n \in Numbers, Owed(f, n)', Start(n) < o.at, o.at <= Size(f) PROVE FALSE
    BY <1>0, <1>1, <1>2, <2>1 DEF Owed
  <2> QED BY <1>1, <1>2, <2>1 DEF Covered
<1>3. Covered(f, At(f))'
  <2> DEFINE a == At(f)
  <2>1. a'.at = Size(f) /\ ~a'.stale
    BY <1>1
  <2> HIDE DEF a
  <2>2. Covered(f, a)'
    BY <1>0, <1>2, <2>1
  <2> QED BY <2>2 DEF a
<1>4. Covered(f, disk[f])'
  <2> DEFINE d == disk[f]
  <2>1. d' = d /\ d.at \in Nat /\ (d.stale => d.at > 0) /\ (~d.stale => d.at <= Size(f))
    BY <1>0, <1>1 DEF FileInv, Covered
  <2> HIDE DEF d
  <2>2. Covered(f, d)'
    BY <1>2, <2>1
  <2> QED BY <2>2 DEF d
<1>5. ~disk[f].stale => disk[f].at <= Size(f)
  BY <1>0 DEF FileInv, Covered
<1>6. (At(f)').at = Size(f) /\ ~(At(f)').stale
  BY <1>1
<1> QED BY <1>0, <1>1, <1>3, <1>4, <1>5, <1>6 DEF FileInv

\* A log whose offset is beyond its end is read from its beginning.
LEMMA BeginFileKeeps ==
  ASSUME WatchInv, NEW f \in Files, BeginFile(f)
  PROVE  FileInv(f)'
<1>0. /\ TypeOK /\ FileInv(f) /\ f # None /\ disk[f].at \in Nat /\ Size(f) \in Nat
      /\ At(f).at \in Nat /\ \A n \in Numbers : Start(n) \in Nat
      /\ answered[f] \subseteq Numbers /\ inflight[f] \subseteq Numbers
  BY FileFacts
<1>1. /\ At(f) = mem[f] /\ At(f)' = pos'
      /\ UNCHANGED <<lines, last, up, crashes, mem, disk, inflight, server, answered>>
      /\ Size(f)' = Size(f)
  BY <1>0 DEF BeginFile, At, logs, mode, Size
<1>2. CASE mem[f].at = 0 \/ mem[f].at > Size(f)
  <2>1. At(f)' = Zero /\ base'[f] = 0
    BY <1>0, <1>1, <1>2 DEF BeginFile, TypeOK
  <2>2. disk[f].stale \/ disk[f].at = 0
    BY <1>0, <1>1, <1>2 DEF FileInv, Covered
  <2>3. answered[f] = {} \/ ~up
    BY <1>0, <1>1, <1>2 DEF FileInv
  <2>4. crashes = 0 => \A n \in inflight[f] : Start(n) <= 0
    BY <1>0, <1>1, <1>2 DEF FileInv, Covered
  <2>5. ASSUME NEW o, (o.stale /\ o.at > 0) \/ (~o.stale /\ o.at = 0) PROVE Covered(f, o)'
    BY <1>0, <1>1, <2>5 DEF Covered
  <2>6. Covered(f, At(f))' /\ Covered(f, disk[f])'
    <3> DEFINE a == At(f)  d == disk[f]
    <3>1. a'.at = 0 /\ ~a'.stale
      BY <2>1 DEF Zero
    <3>2. d' = d /\ ((d.stale /\ d.at > 0) \/ (~d.stale /\ d.at = 0))
      BY <1>0, <1>1, <2>2 DEF FileInv, Covered
    <3> HIDE DEF a, d
    <3>3. Covered(f, a)' /\ Covered(f, d)'
      BY <2>5, <3>1, <3>2
    <3> QED BY <3>3 DEF a, d
  <2>7. (At(f)').at = 0 /\ ~(At(f)').stale
    BY <2>1 DEF Zero
  <2> QED BY <1>0, <1>1, <2>2, <2>3, <2>4, <2>6, <2>7 DEF FileInv
<1>3. CASE ~(mem[f].at = 0 \/ mem[f].at > Size(f))
  <2>1. At(f)' = At(f) /\ base' = base
    BY <1>1, <1>3 DEF BeginFile
  <2>2. At(f).at <= Size(f)
    BY <1>0, <1>1, <1>3
  <2>3. ASSUME NEW o, Covered(f, o) PROVE Covered(f, o)'
    BY <1>1, <2>1, <2>3 DEF Covered, Owed
  <2>4. Covered(f, At(f))' /\ Covered(f, disk[f])'
    <3> DEFINE a == At(f)  d == disk[f]
    <3>1. a' = a /\ d' = d /\ Covered(f, a) /\ Covered(f, d)
      BY <1>0, <1>1, <2>1 DEF FileInv
    <3> HIDE DEF a, d
    <3>3. Covered(f, a)' /\ Covered(f, d)'
      BY <2>3, <3>1
    <3> QED BY <3>3 DEF a, d
  <2> QED BY <1>0, <1>1, <2>1, <2>2, <2>4 DEF FileInv
<1> QED BY <1>2, <1>3

\* The offset moves over a line that is at the server or is none of its business.
LEMMA MoveKeeps ==
  ASSUME WatchInv, NEW f \in Files, cur = f, cur' = f, NEW k \in Nat,
         pos' = [pos EXCEPT !.at = k], pos.at <= k, k <= Size(f),
         UNCHANGED <<logs, mode, mem, disk, base>>,
         server[f] \subseteq server'[f], inflight'[f] \subseteq inflight[f],
         answered'[f] \subseteq answered[f] \/
           (answered'[f] = answered[f] \cup {Line} /\ Line \in Numbers /\ Start(Line) < k),
         \A n \in Numbers : Owed(f, n) /\ pos.at <= Start(n) /\ Start(n) < k => n \in server'[f]
  PROVE  FileInv(f)'
<1>0. /\ FileInv(f) /\ disk[f].at \in Nat /\ Size(f) \in Nat
      /\ At(f) = pos /\ At(f).at \in Nat /\ pos \in Offset /\ \A n \in Numbers : Start(n) \in Nat
      /\ answered[f] \subseteq Numbers /\ inflight[f] \subseteq Numbers
  BY FileFacts DEF At, TypeOK
<1>1. /\ At(f)' = pos' /\ (pos').at = k /\ (pos').stale = pos.stale
      /\ UNCHANGED <<up, crashes, disk>>
      /\ Size(f)' = Size(f) /\ \A n \in Numbers : Owed(f, n)' <=> Owed(f, n)
  BY <1>0 DEF At, logs, mode, Size, Owed, Offset
<1>2. Covered(f, At(f))'
  <2> DEFINE a == At(f)
  <2>1. a'.at = k /\ a'.stale = pos.stale
    BY <1>1
  <2> HIDE DEF a
  <2>2. pos.stale => k > 0
    BY <1>0 DEF FileInv, Covered
  <2>3. ASSUME ~pos.stale, NEW n \in Numbers, Owed(f, n)', Start(n) < k PROVE n \in server'[f]
    BY <1>0, <1>1, <2>3 DEF FileInv, Covered
  <2>4. Covered(f, a)'
    BY <1>1, <2>1, <2>2, <2>3 DEF Covered
  <2> QED BY <2>4 DEF a
<1>3. Covered(f, disk[f])'
  <2>1. Covered(f, disk[f])
    BY <1>0 DEF FileInv
  <2> QED BY <1>1, <2>1 DEF Covered
<1> QED BY <1>0, <1>1, <1>2, <1>3 DEF FileInv

LEMMA SkipLineKeeps ==
  ASSUME WatchInv, NEW f \in Files, SkipLine(f)
  PROVE  FileInv(f)'
<1>0. /\ TypeInv /\ TypeOK /\ pos \in Offset /\ Len(lines[f]) \in Nat
  BY FileFacts, LogFacts, WatcherConstants DEF TypeOK
<1>1. Terminated(f, Line) /\ cur = f /\ cur' = f
  BY DEF SkipLine, Reading
<1>3. 2 * Line <= Size(f) /\ 2 * Line \in Nat
  BY <1>0, <1>1, LogFacts, LineFacts DEF Terminated
<1>4. pos.at = Start(Line) \/ (pos.at = Start(Line) + 1 /\ InsideLine)
  BY <1>0, LineFacts
<1>5. pos.at <= 2 * Line
  BY <1>0, <1>4, LineFacts DEF Start
<1>6. ASSUME NEW n \in Numbers, Owed(f, n), pos.at <= Start(n), Start(n) < 2 * Line
      PROVE  FALSE
  <2>1. n = Line /\ pos.at = Start(Line)
    BY <1>0, <1>4, <1>6, LineFacts, WatcherConstants DEF Start, Numbers
  <2>2. ~InsideLine
    BY <1>0, <2>1, LineFacts DEF Start
  <2> QED BY <1>6, <2>1, <2>2 DEF SkipLine, Owed
<1> QED BY <1>1, <1>3, <1>5, <1>6, MoveKeeps DEF SkipLine, history, mode

LEMMA PostAcceptedKeeps ==
  ASSUME WatchInv, NEW f \in Files, PostAccepted(f)
  PROVE  FileInv(f)'
<1>0. TypeInv /\ TypeOK /\ AtRecord(f)
  BY FileFacts DEF PostAccepted
<1>1. /\ pos \in Offset /\ Line \in Numbers /\ pos.at = Start(Line)
      /\ Past(f, Line) \in Nat /\ Start(Line) < Past(f, Line) /\ Past(f, Line) <= Size(f)
      /\ Past(f, Line) <= 2 * Line /\ pos.at \in Nat
  BY <1>0, RecordFacts, WatcherConstants DEF Past, Numbers, Offset
<1>2. /\ server'[f] = server[f] \cup {Line} /\ inflight'[f] \subseteq inflight[f]
      /\ answered'[f] = answered[f] \cup {Line}
  BY <1>0 DEF PostAccepted, Commit, TypeOK
<1>3. ASSUME NEW n \in Numbers, Owed(f, n), pos.at <= Start(n), Start(n) < Past(f, Line)
      PROVE  n \in server'[f]
  <2>1. n = Line
    BY <1>1, <1>3, WatcherConstants DEF Start, Numbers
  <2> QED BY <1>2, <2>1
<1> DEFINE k == Past(f, Line)
<1>4. /\ cur = f /\ cur' = f /\ k \in Nat /\ pos' = [pos EXCEPT !.at = k] /\ pos.at <= k
      /\ UNCHANGED <<logs, mode, mem, disk, base>>
  BY <1>1 DEF PostAccepted, AtRecord, Reading
<1> HIDE DEF k
<1>5. k <= Size(f) /\ Start(Line) < k
  BY <1>1 DEF k
<1>6. \A n \in Numbers : Owed(f, n) /\ pos.at <= Start(n) /\ Start(n) < k => n \in server'[f]
  BY <1>3 DEF k
<1> QED BY <1>1, <1>2, <1>4, <1>5, <1>6, MoveKeeps

\* A reading that is left records the offset it reached.
LEMMA LeaveRests ==
  ASSUME TypeOK, NEW f \in Files, cur = f, Leave(f, pos), UNCHANGED <<logs, mode, base, answered>>,
         server[f] \subseteq server'[f], inflight'[f] \subseteq inflight[f]
  PROVE  Rests(f)
<1>1. At(f)' = pos /\ At(f) = pos /\ cur' = None
  BY WatcherConstants DEF Leave, At, TypeOK
<1> QED BY <1>1 DEF Leave, Rests, logs, mode

LEMMA PostLateKeeps ==
  ASSUME WatchInv, NEW f \in Files, PostLate(f)
  PROVE  FileInv(f)'
<1>0. /\ TypeInv /\ TypeOK /\ FileInv(f) /\ AtRecord(f) /\ cur = f /\ f # None
  BY FileFacts DEF PostLate, AtRecord, Reading
<1>1. /\ At(f)' = pos /\ At(f) = pos /\ cur' = None
      /\ UNCHANGED <<lines, last, up, crashes, base, server, answered, disk>>
  BY <1>0 DEF PostLate, Leave, At, TypeOK, logs, mode, history
<1>2. Line \in Numbers /\ pos.at = Start(Line)
  BY <1>0, RecordFacts
<1>3. inflight'[f] \subseteq inflight[f] \cup {Line}
  BY <1>0 DEF PostLate, TypeOK
<1>4. Size(f)' = Size(f) /\ \A n \in Numbers : Owed(f, n)' <=> Owed(f, n)
  BY <1>1 DEF Size, Owed
<1>5. ASSUME NEW o, Covered(f, o) PROVE Covered(f, o)'
  BY <1>1, <1>4, <1>5 DEF Covered
<1>6. Covered(f, At(f))' /\ Covered(f, disk[f])'
  <2> DEFINE a == At(f)  d == disk[f]
  <2>1. a' = a /\ d' = d /\ Covered(f, a) /\ Covered(f, d)
    BY <1>0, <1>1 DEF FileInv
  <2> HIDE DEF a, d
  <2>2. Covered(f, a)' /\ Covered(f, d)'
    BY <1>5, <2>1
  <2> QED BY <2>2 DEF a, d
<1>7. At(f).at <= Size(f)
  BY <1>0 DEF FileInv
<1>8. Start(Line) <= pos.at
  BY <1>2, WatcherConstants DEF Start, Numbers
<1> QED BY <1>0, <1>1, <1>3, <1>4, <1>6, <1>7, <1>8 DEF FileInv

\* The saved offset catches up with the one held.
LEMMA SaveKeeps ==
  ASSUME WatchInv, NEW f \in Files, SaveState
  PROVE  FileInv(f)'
<1>0. /\ TypeOK /\ FileInv(f) /\ f # None /\ At(f).at \in Nat
  BY FileFacts
<1>1. /\ At(f) = mem[f] /\ At(f)' = mem[f] /\ disk'[f] = mem[f] /\ cur' = cur
      /\ UNCHANGED <<lines, last, up, crashes, base, server, inflight, answered>>
  BY <1>0 DEF SaveState, At, logs, history
<1>4. Size(f)' = Size(f) /\ \A n \in Numbers : Owed(f, n)' <=> Owed(f, n)
  BY <1>1 DEF Size, Owed
<1>5. ASSUME NEW o, Covered(f, o) PROVE Covered(f, o)'
  BY <1>1, <1>4, <1>5 DEF Covered
<1>6. Covered(f, At(f))' /\ Covered(f, disk[f])'
  <2> DEFINE a == At(f)  d == disk[f]
  <2>1. a' = a /\ d' = a /\ Covered(f, a)
    BY <1>0, <1>1 DEF FileInv
  <2> HIDE DEF a, d
  <2>2. Covered(f, a)' /\ Covered(f, d)'
    BY <1>5, <2>1
  <2> QED BY <2>2 DEF a, d
<1> QED BY <1>0, <1>1, <1>4, <1>6 DEF FileInv

\* A crash takes the watcher back to what it saved.
LEMMA CrashKeeps ==
  ASSUME WatchInv, NEW f \in Files, Crash
  PROVE  FileInv(f)'
<1>0. /\ TypeOK /\ FileInv(f) /\ f # None /\ disk[f].at \in Nat
  BY FileFacts
<1>1. /\ At(f)' = disk[f] /\ disk'[f] = disk[f] /\ cur' = None /\ ~up' /\ crashes' # 0
      /\ answered'[f] = {}
      /\ UNCHANGED <<lines, last, base, server, inflight>>
  BY <1>0 DEF Crash, At, logs, TypeOK
<1>4. Size(f)' = Size(f) /\ \A n \in Numbers : Owed(f, n)' <=> Owed(f, n)
  BY <1>1 DEF Size, Owed
<1>5. ASSUME NEW o, Covered(f, o) PROVE Covered(f, o)'
  BY <1>1, <1>4, <1>5 DEF Covered
<1>6. Covered(f, At(f))' /\ Covered(f, disk[f])'
  <2> DEFINE a == At(f)  d == disk[f]
  <2>1. a' = d /\ d' = d /\ Covered(f, d)
    BY <1>0, <1>1 DEF FileInv
  <2> HIDE DEF a, d
  <2>2. Covered(f, a)' /\ Covered(f, d)'
    BY <1>5, <2>1
  <2> QED BY <2>2 DEF a, d
<1>7. disk[f].stale \/ disk[f].at <= Size(f)
  BY <1>0 DEF FileInv, Covered
<1> QED BY <1>0, <1>1, <1>4, <1>6, <1>7 DEF FileInv

\* The other logs, and all logs in the other steps.
LEMMA NextFiles ==
  ASSUME WatchInv, [Next]_vars, TypeInv', NEW f \in Files
  PROVE  FileInv(f)'
<1>0. TypeInv /\ TypeOK /\ RunInv /\ FileInv(f) /\ f # None
  BY FileFacts
<1> DEFINE Still == /\ lines'[f] = lines[f] /\ last'[f] = last[f] /\ base'[f] = base[f]
                    /\ disk'[f] = disk[f] /\ up' = up /\ crashes' = crashes
                    /\ server[f] \subseteq server'[f]
                    /\ inflight'[f] \subseteq inflight[f] /\ answered'[f] = answered[f]
<1>a. ASSUME Still, cur' # f, cur # f, mem'[f] = mem[f] PROVE FileInv(f)'
  <2>1. At(f)' = At(f)
    BY <1>a DEF At
  <2> QED BY <1>0, <1>a, <2>1, RestsKeeps DEF Rests
<1>1. ASSUME NEW g \in Files, NEW l \in Lines, NEW e \in Ends, Write(g, l, e)
      PROVE  FileInv(f)'
  <2>1. CASE g = f
    BY <1>1, <2>1, GrowthKeeps
  <2>2. CASE g # f
    <3>1. Rests(f)
      BY <1>0, <1>1, <2>2 DEF Write, LogStep, mode, TypeOK, Rests, At
    <3> QED BY <1>0, <3>1, RestsKeeps
  <2> QED BY <2>1, <2>2
<1>b. ASSUME NEW g \in Files, NEW e \in Ends, Complete(g, e) PROVE FileInv(f)'
  <2>1. CASE g = f
    BY <1>b, <2>1, GrowthKeeps
  <2>2. CASE g # f
    <3>1. Rests(f)
      BY <1>0, <1>b, <2>2 DEF Complete, LogStep, mode, TypeOK, Rests, At
    <3> QED BY <1>0, <3>1, RestsKeeps
  <2> QED BY <2>1, <2>2
<1>2. ASSUME NEW g \in Files, Rewrite(g) PROVE FileInv(f)'
  <2>1. CASE g = f
    BY <1>2, <2>1, RewriteKeeps
  <2>2. CASE g # f
    <3>1. PICK s : lines' = [lines EXCEPT ![g] = s]
      BY <1>2 DEF Rewrite
    <3>2. mem'[f] = mem[f] /\ disk'[f] = disk[f]
      BY <1>0, <1>2, <2>2 DEF Rewrite, TypeOK
    <3>3. At(f)' = At(f)
      BY <1>2, <3>2 DEF Rewrite, LogStep, At
    <3>4. Rests(f)
      BY <1>0, <1>2, <2>2, <3>1, <3>2, <3>3 DEF Rewrite, LogStep, mode, TypeOK, Rests
    <3> QED BY <1>0, <3>4, RestsKeeps
  <2> QED BY <2>1, <2>2
<1>3. CASE SaveState
  BY <1>3, SaveKeeps
<1>4. ASSUME NEW g \in Files, InitialSkip(g) PROVE FileInv(f)'
  <2>1. CASE g # f
    BY <1>0, <1>a, <1>4, <2>1 DEF InitialSkip, logs, mode, TypeOK
  <2> QED BY <1>4, <2>1, InitialSkipKeeps
<1>5. ASSUME NEW g \in Files, BeginFile(g) PROVE FileInv(f)'
  <2>1. CASE g # f
    BY <1>0, <1>a, <1>5, <2>1 DEF BeginFile, logs, mode, TypeOK
  <2> QED BY <1>5, <2>1, BeginFileKeeps
<1>6. ASSUME NEW g \in Files, SkipLine(g) PROVE FileInv(f)'
  <2>1. CASE g # f
    BY <1>0, <1>a, <1>6, <2>1 DEF SkipLine, Reading, logs, mode, history, TypeOK
  <2> QED BY <1>6, <2>1, SkipLineKeeps
<1>7. ASSUME NEW g \in Files, PostAccepted(g) PROVE FileInv(f)'
  <2>1. CASE g # f
    BY <1>0, <1>a, <1>7, <2>1 DEF PostAccepted, AtRecord, Reading, Commit, logs, mode, TypeOK
  <2> QED BY <1>7, <2>1, PostAcceptedKeeps
<1>c. ASSUME NEW g \in Files, g # f, cur = g, Leave(g, pos),
             UNCHANGED <<logs, mode, base, answered>>, server[f] \subseteq server'[f],
             inflight'[f] \subseteq inflight[f]
      PROVE  FileInv(f)'
  BY <1>0, <1>a, <1>c DEF Leave, logs, mode, TypeOK
<1>8. ASSUME NEW g \in Files, EndFile(g) \/ PostFailed(g) PROVE FileInv(f)'
  <2>0. /\ cur = g /\ Leave(g, pos)
        /\ UNCHANGED <<logs, mode, base, answered>> /\ server' = server /\ inflight' = inflight
    BY <1>8 DEF EndFile, PostFailed, AtRecord, Reading, history
  <2>1. CASE g # f
    BY <1>c, <2>0, <2>1
  <2>2. CASE g = f
    BY <1>0, <2>0, <2>2, LeaveRests, RestsKeeps
  <2> QED BY <2>1, <2>2
<1>9. ASSUME NEW g \in Files, PostUnanswered(g) PROVE FileInv(f)'
  <2>0. /\ cur = g /\ Leave(g, pos)
        /\ UNCHANGED <<logs, mode, base, answered>>
        /\ server[f] \subseteq server'[f] /\ inflight'[f] \subseteq inflight[f]
    BY <1>0, <1>9 DEF PostUnanswered, AtRecord, Reading, history, Commit, TypeOK
  <2>1. CASE g # f
    BY <1>c, <2>0, <2>1
  <2>2. CASE g = f
    BY <1>0, <2>0, <2>2, LeaveRests, RestsKeeps
  <2> QED BY <2>1, <2>2
<1>10. ASSUME NEW g \in Files, PostLate(g) PROVE FileInv(f)'
  <2>1. CASE g # f
    <3>1. /\ cur = g /\ Leave(g, pos)
          /\ UNCHANGED <<logs, mode, base, answered>>
          /\ server' = server /\ inflight'[f] = inflight[f]
      BY <1>0, <1>10, <2>1 DEF PostLate, AtRecord, Reading, history, TypeOK
    <3> QED BY <1>c, <2>1, <3>1
  <2> QED BY <1>10, <2>1, PostLateKeeps
<1>11. ASSUME NEW r \in BOOLEAN, StartWatcher(r) PROVE FileInv(f)'
  <2>1. mem = disk /\ answered[f] = {}
    BY <1>0, <1>11 DEF StartWatcher, RunInv
  <2>2. Rests(f)
    BY <1>11, <2>1 DEF StartWatcher, logs, history, Rests, At
  <2> QED BY <1>0, <2>2, RestsKeeps
<1>12. ASSUME NEW g \in Files, NEW n \in inflight[g], LateCommit(g, n) PROVE FileInv(f)'
  <2>1. Rests(f)
    BY <1>0, <1>12 DEF LateCommit, Commit, logs, mode, offsets, history, TypeOK, Rests, At
  <2> QED BY <1>0, <2>1, RestsKeeps
<1>13. CASE Crash
  BY <1>13, CrashKeeps
<1>14. CASE UNCHANGED vars
  <2>1. Rests(f)
    BY <1>14 DEF vars, logs, mode, offsets, history, Rests, At
  <2> QED BY <1>0, <2>1, RestsKeeps
<1> QED BY <1>1, <1>b, <1>2, <1>3, <1>4, <1>5, <1>6, <1>7, <1>8, <1>9, <1>10, <1>11, <1>12, <1>13, <1>14
        DEF Next, Codex, Watcher

LEMMA NextRun == WatchInv /\ [Next]_vars /\ TypeInv' => RunInv'
<1> SUFFICES ASSUME WatchInv, [Next]_vars PROVE RunInv'
  OBVIOUS
<1> USE WatcherConstants DEF PointerOfThisRun
<1>0. TypeOK /\ RunInv
  BY DEF WatchInv, TypeInv
<1>1. CASE Codex
  <2>1. UNCHANGED <<up, skipping, todo, cur, pointer, forwarded, crashes>>
    BY <1>1 DEF Codex, Write, Complete, Rewrite, LogStep, mode
  <2>2. mem = disk => mem' = disk'
    <3>1. ASSUME NEW f \in Files, Rewrite(f), mem = disk PROVE mem' = disk'
      BY <3>1 DEF Rewrite
    <3> QED BY <1>1, <3>1 DEF Codex, Write, Complete
  <2>3. \A f \in Files : /\ answered[f] = {} => answered'[f] = {}
                         /\ inflight[f] = {} => inflight'[f] = {}
    BY <1>0, <1>1 DEF Codex, Write, Complete, Rewrite, TypeOK
  <2> QED BY <1>0, <2>1, <2>2, <2>3 DEF RunInv
<1>2. CASE SaveState
  BY <1>0, <1>2 DEF SaveState, RunInv, history
<1>3. ASSUME NEW f \in Files, InitialSkip(f) PROVE RunInv'
  BY <1>0, <1>3 DEF InitialSkip, RunInv, mode
<1>4. ASSUME NEW f \in Files, BeginFile(f) PROVE RunInv'
  BY <1>0, <1>4 DEF BeginFile, RunInv, mode
<1>5. ASSUME NEW f \in Files, Reading(f), UNCHANGED mode,
             (pointer' = pointer /\ forwarded' = forwarded) \/ pointer' \in forwarded'
      PROVE  RunInv'
  BY <1>0, <1>5 DEF Reading, RunInv, mode
<1>6. ASSUME NEW f \in Files, \/ SkipLine(f) \/ EndFile(f) \/ PostAccepted(f) \/ PostFailed(f)
                              \/ PostUnanswered(f) \/ PostLate(f)
      PROVE  RunInv'
  BY <1>5, <1>6 DEF SkipLine, EndFile, PostAccepted, PostFailed, PostUnanswered, PostLate, AtRecord,
                    history
<1>7. ASSUME NEW r \in BOOLEAN, StartWatcher(r) PROVE RunInv'
  BY <1>0, <1>7 DEF StartWatcher, RunInv, history
<1>8. ASSUME NEW f \in Files, NEW n \in inflight[f], LateCommit(f, n) PROVE RunInv'
  BY <1>0, <1>8 DEF LateCommit, Commit, RunInv, mode, offsets, history, TypeOK
<1>9. CASE Crash
  BY <1>0, <1>9 DEF Crash, RunInv, TypeOK
<1>10. CASE UNCHANGED vars
  BY <1>0, <1>10 DEF vars, mode, offsets, history, RunInv
<1> QED BY <1>1, <1>2, <1>3, <1>4, <1>6, <1>7, <1>8, <1>9, <1>10 DEF Next, Watcher

LEMMA NextWatch == WatchInv /\ [Next]_vars => WatchInv'
<1> SUFFICES ASSUME WatchInv, [Next]_vars PROVE WatchInv'
  OBVIOUS
<1>1. TypeInv'
  BY NextTyped DEF WatchInv
<1> QED BY <1>1, NextFiles, NextRun DEF WatchInv

LEMMA SpecInvariant == Spec => []WatchInv
  BY InitWatch, NextWatch, PTL DEF Spec

\* A record the watcher can parse is owed already.
LEMMA FollowedOwed == \A f, n : Followed(f, n) => Owed(f, n)
  BY DEF Followed, Record, Owed

\* No failed post, half-written line, crash or restart ever drops a record: what
\* is behind an offset of the present content is at the server.
THEOREM NothingIsSkipped == Spec => []NothingSkipped
<1>1. WatchInv => NothingSkipped
  BY FollowedOwed DEF WatchInv, FileInv, Covered, NothingSkipped
<1> QED BY <1>1, SpecInvariant, PTL

\* A run never returns to a line whose post was answered.
THEOREM AnswersAreBehind == Spec => []AnsweredBehind
<1>1. WatchInv => AnsweredBehind
  BY DEF WatchInv, FileInv, AnsweredBehind
<1> QED BY <1>1, SpecInvariant, PTL

\* The session pointer never names a log of an older run.
THEOREM PointerIsOfThisRun == Spec => []PointerOfThisRun
<1>1. WatchInv => PointerOfThisRun
  BY DEF WatchInv, RunInv
<1> QED BY <1>1, SpecInvariant, PTL

\* The lines a step commits are the one at the offset, or one whose post timed
\* out; no other step reaches the server.
LEMMA WhoCommits ==
  ASSUME WatchInv, [Next]_vars, NEW f \in Files, NEW n \in server'[f] \ server[f]
  PROVE  (AtRecord(f) /\ n = Line) \/ n \in inflight[f]
<1>0. TypeOK
  BY DEF WatchInv, TypeInv
<1>1. ASSUME NEW g \in Files, PostAccepted(g) \/ PostUnanswered(g)
      PROVE  AtRecord(f) /\ n = Line
  <2>1. AtRecord(g) /\ server' = [server EXCEPT ![g] = @ \cup {Line}]
    BY <1>1 DEF PostAccepted, PostUnanswered, Commit
  <2>2. g = f /\ n = Line
    BY <1>0, <2>1 DEF TypeOK
  <2> QED BY <2>1, <2>2
<1>2. ASSUME NEW g \in Files, NEW m \in inflight[g], LateCommit(g, m)
      PROVE  n \in inflight[f]
  BY <1>0, <1>2 DEF LateCommit, Commit, TypeOK
<1>3. ASSUME NEW g \in Files, Rewrite(g) PROVE FALSE
  BY <1>0, <1>3 DEF Rewrite, TypeOK
<1>4. CASE server' = server
  BY <1>4
<1>5. ASSUME NEW g \in Files, \/ InitialSkip(g) \/ BeginFile(g) \/ SkipLine(g) \/ EndFile(g)
                              \/ PostFailed(g) \/ PostLate(g)
      PROVE  server' = server
  BY <1>5 DEF InitialSkip, BeginFile, SkipLine, EndFile, PostFailed, PostLate
<1>6. CASE SaveState \/ Crash \/ (\E r \in BOOLEAN : StartWatcher(r)) \/ UNCHANGED vars
  BY <1>4, <1>6 DEF SaveState, Crash, StartWatcher, vars
<1>7. ASSUME NEW g \in Files, \/ \E l \in Lines, e \in Ends : Write(g, l, e)
                              \/ \E e \in Ends : Complete(g, e)
      PROVE  server' = server
  BY <1>7 DEF Write, Complete
<1> QED BY <1>1, <1>2, <1>3, <1>4, <1>5, <1>6, <1>7 DEF Next, Codex, Watcher

\* Until a crash, first commits are in the order of the log, although a post that
\* timed out may commit at any later time.
THEOREM CommitsInOrder == Spec => InOrder
<1>1. WatchInv /\ [Next]_vars =>
        [\A f \in Files : \A n \in server'[f] \ server[f] :
           crashes = 0 /\ ~At(f).stale =>
             \A m \in 1..(n - 1) : Followed(f, m) => m \in server[f]]_vars
  <2> SUFFICES ASSUME WatchInv, [Next]_vars, NEW f \in Files, NEW n \in server'[f] \ server[f],
                      crashes = 0, ~At(f).stale, NEW m \in 1..(n - 1), Followed(f, m)
               PROVE  m \in server[f]
    OBVIOUS
  <2>0. /\ TypeInv /\ FileInv(f) /\ inflight[f] \subseteq Numbers
        /\ \A k \in Numbers : k \in Nat /\ Start(k) \in Nat
    BY FileFacts
  <2>1. n \in Numbers /\ Start(n) <= At(f).at
    <3>1. CASE AtRecord(f) /\ n = Line
      BY <2>0, <3>1, RecordFacts
    <3>2. CASE n \in inflight[f]
      BY <2>0, <3>2 DEF FileInv
    <3> QED BY <3>1, <3>2, WhoCommits
  <2>2. m \in Numbers /\ Start(m) < Start(n)
    BY <2>0, <2>1, WatcherConstants DEF Numbers, Start
  <2>3. Start(m) < At(f).at
    BY <2>0, <2>1, <2>2, FileFacts
  <2> QED BY <2>0, <2>2, <2>3, FollowedOwed DEF FileInv, Covered
<1> QED BY <1>1, SpecInvariant, PTL DEF Spec, InOrder
=============================================================================
