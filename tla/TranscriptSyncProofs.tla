------------------------ MODULE TranscriptSyncProofs ------------------------
(* Theorems about TranscriptSync, for any constants. *)
EXTENDS TranscriptSync, SequenceTheorems, TLAPS

(***************************************************************************)
(* However hooks overlap.  Every state a hook works on or has written is   *)
(* behind the server: what lies between its base and its cursor has been   *)
(* recorded, and its cursor is within the transcript, so that a line       *)
(* Claude adds later is not behind it unposted.  A stale state promises    *)
(* nothing of the transcript's new content; a hook never works on one,     *)
(* because loading a stale state moves its base to its cursor.             *)
(***************************************************************************)

Extent(ls, wh, p) == 2 * Len(ls[p]) - (IF wh[p] THEN 0 ELSE 1)

Behind(s, ls, wh, posted) ==
  /\ s \in State /\ s.seen \subseteq posted
  /\ ~s.stale => /\ s.at <= Extent(ls, wh, s.path)
                 /\ \A n \in 1..Len(ls[s.path]) :
                      s.base <= Start(n) /\ Start(n) < s.at => ls[s.path][n] \in posted

FileOK(c, ls, wh, posted) == c \in {None, Broken} \/ Behind(c, ls, wh, posted)

LogInv ==
  /\ lines \in [Paths -> Seq(Messages)] /\ whole \in [Paths -> BOOLEAN]
  /\ \A p \in Paths : Len(lines[p]) <= MaxLines /\ (lines[p] = <<>> => whole[p])
  /\ rewrites \in 0..MaxRewrites /\ failures \in 0..MaxFailures

FilesInv == FileOK(saved, lines, whole, server) /\ FileOK(tmp, lines, whole, server)

HooksInv ==
  /\ job \in [Hooks -> Job]
  /\ \A h \in Hooks : job[h].step # "idle" =>
                        ~S(h).stale /\ Behind(S(h), lines, whole, server)

HistInv ==
  /\ server \subseteq Messages /\ recorded \subseteq server /\ repeated \subseteq server
  /\ overlap \in BOOLEAN

SyncInv == LogInv /\ FilesInv /\ HooksInv /\ HistInv

(***************************************************************************)
(* Until hooks overlap, the one at work has the temporary file to itself,  *)
(* and what the state file has recorded is in the state it loads and saves.*)
(***************************************************************************)

OneAtWork == \A g, h \in Hooks : job[g].step # "idle" /\ job[h].step # "idle" => g = h

HookAlone(j, file, temporary, rec) ==
  /\ j.handle = "tmp"
  /\ j.step = "fill" => temporary = Broken
  /\ j.step = "replace" => temporary = j.state
  /\ j.step \in {"read", "open", "fill", "replace"} /\ Of(file, j.state.path) =>
       rec \subseteq j.state.seen

FileAlone(file, rec) ==
  /\ file # Broken
  /\ file = None => rec = {}
  /\ file # None => rec \subseteq file.seen

AloneInv ==
  ~overlap => /\ OneAtWork
              /\ \A h \in Hooks : HookAlone(job[h], saved, tmp, recorded)
              /\ FileAlone(saved, recorded) /\ repeated = {}

LEMMA TypesFollow == SyncInv => TypeOK
<1> SUFFICES ASSUME SyncInv PROVE TypeOK
  OBVIOUS
<1>1. ASSUME NEW p \in Paths
      PROVE  lines[p] \in UNION {[1..n -> Messages] : n \in 0..MaxLines}
  <2>1. lines[p] \in Seq(Messages) /\ Len(lines[p]) <= MaxLines
    BY DEF SyncInv, LogInv
  <2>2. Len(lines[p]) \in Nat /\ lines[p] \in [1..Len(lines[p]) -> Messages]
    BY <2>1
  <2>3. Len(lines[p]) \in 0..MaxLines
    BY <2>1, <2>2, TranscriptConstants
  <2> QED BY <2>2, <2>3
<1>2. lines \in [Paths -> UNION {[1..n -> Messages] : n \in 0..MaxLines}]
  BY <1>1 DEF SyncInv, LogInv
<1>3. ASSUME NEW h \in Hooks, job[h].step = "read" PROVE S(h).at <= Size(S(h).path)
  BY <1>3 DEF SyncInv, HooksInv, Behind, Extent, Size
<1>4. saved \in State \cup {None, Broken} /\ tmp \in State \cup {None, Broken}
  BY DEF SyncInv, FilesInv, FileOK, Behind
<1> QED BY <1>2, <1>3, <1>4 DEF SyncInv, LogInv, HooksInv, HistInv, TypeOK

LEMMA DroppedFollows == SyncInv => NothingDropped
<1> SUFFICES ASSUME SyncInv, NEW s \in States
             PROVE  /\ s.seen \subseteq server
                    /\ ~s.stale => \A n \in 1..Len(lines[s.path]) :
                         s.base <= Start(n) /\ Start(n) < s.at => lines[s.path][n] \in server
  BY DEF NothingDropped
<1>1. Behind(s, lines, whole, server)
  BY DEF States, SyncInv, HooksInv, FilesInv, FileOK
<1> QED BY <1>1 DEF Behind

LEMMA FreshBehind ==
  ASSUME SyncInv, NEW p \in Paths
  PROVE  Fresh(p) \in State /\ ~Fresh(p).stale /\ Fresh(p).at = 0
         /\ Behind(Fresh(p), lines, whole, server)
<1>1. Fresh(p) \in State
  BY TranscriptConstants DEF Fresh, State
<1>2. lines[p] \in Seq(Messages) /\ (lines[p] = <<>> => whole[p]) /\ whole[p] \in BOOLEAN
  BY DEF SyncInv, LogInv
<1>3. 0 <= Extent(lines, whole, p)
  <2>1. CASE lines[p] = <<>>
    BY <1>2, <2>1 DEF Extent
  <2>2. CASE lines[p] # <<>>
    <3>1. Len(lines[p]) \in Nat /\ Len(lines[p]) # 0
      BY <1>2, <2>2, EmptySeq
    <3> QED BY <3>1 DEF Extent
  <2> QED BY <2>1, <2>2
<1> QED BY <1>1, <1>2, <1>3 DEF Fresh, Behind, Start

LEMMA IdleJobShape == SyncInv => IdleJob \in Job /\ LastStep \in Job
<1> SUFFICES ASSUME SyncInv PROVE IdleJob \in Job /\ LastStep \in Job
  OBVIOUS
<1>1. (CHOOSE p \in Paths : TRUE) \in Paths
  BY TranscriptConstants
<1>2. Fresh(CHOOSE p \in Paths : TRUE) \in State
  BY <1>1, FreshBehind
<1> HIDE DEF Fresh
<1> QED BY <1>2 DEF IdleJob, LastStep, Job, Steps

LEMMA LastStepBehind ==
  ASSUME SyncInv
  PROVE  ~LastStep.state.stale /\ Behind(LastStep.state, lines, whole, server)
<1>1. (CHOOSE p \in Paths : TRUE) \in Paths
  BY TranscriptConstants
<1>2. LastStep.state = Fresh(CHOOSE p \in Paths : TRUE)
  BY DEF LastStep, IdleJob
<1> QED BY <1>1, <1>2, FreshBehind

\* The transcripts after Claude has added to them.
Grown(ls, wh, lt, wt) ==
  \A p \in Paths :
    /\ Len(ls[p]) \in Nat /\ Len(lt[p]) \in Nat /\ Len(ls[p]) <= Len(lt[p])
    /\ Extent(ls, wh, p) \in Int /\ Extent(ls, wh, p) <= Extent(lt, wt, p)
    /\ Extent(lt, wt, p) \in Int
    /\ \A n \in 1..Len(ls[p]) : lt[p][n] = ls[p][n]
    /\ Len(ls[p]) < Len(lt[p]) => Extent(ls, wh, p) = 2 * Len(ls[p])

LEMMA BehindStays ==
  ASSUME NEW s, NEW ls, NEW wh, NEW lt, NEW wt, NEW posted, NEW more,
         Behind(s, ls, wh, posted), Grown(ls, wh, lt, wt), posted \subseteq more
  PROVE  Behind(s, lt, wt, more)
<1>1. s \in State /\ s.path \in Paths /\ s.at \in Int /\ s.base \in Int
  BY TranscriptConstants DEF Behind, State
<1> SUFFICES ASSUME ~s.stale
             PROVE  /\ s.at <= Extent(lt, wt, s.path)
                    /\ \A n \in 1..Len(lt[s.path]) :
                         s.base <= Start(n) /\ Start(n) < s.at => lt[s.path][n] \in more
  BY <1>1 DEF Behind
<1>2. s.at <= Extent(ls, wh, s.path)
  BY DEF Behind
<1>3. s.at <= Extent(lt, wt, s.path)
  BY <1>1, <1>2 DEF Grown
<1>4. ASSUME NEW n \in 1..Len(lt[s.path]), s.base <= Start(n), Start(n) < s.at
      PROVE  lt[s.path][n] \in more
  <2>1. Len(ls[s.path]) \in Nat /\ Len(lt[s.path]) \in Nat
        /\ Len(ls[s.path]) <= Len(lt[s.path])
    BY <1>1 DEF Grown
  <2>2. CASE n <= Len(ls[s.path])
    <3>1. n \in 1..Len(ls[s.path])
      BY <2>1, <2>2
    <3>2. ls[s.path][n] \in posted
      BY <1>4, <3>1 DEF Behind
    <3> QED BY <1>1, <3>1, <3>2 DEF Grown
  <2>3. CASE ~(n <= Len(ls[s.path]))
    <3>0. Len(ls[s.path]) < Len(lt[s.path])
      BY <2>1, <2>3
    <3>1. Extent(ls, wh, s.path) = 2 * Len(ls[s.path])
      BY <1>1, <3>0 DEF Grown
    <3>2. Start(n) >= 2 * Len(ls[s.path])
      BY <2>1, <2>3 DEF Start
    <3>3. Start(n) \in Int
      BY <2>1 DEF Start
    <3> QED BY <1>1, <1>2, <1>4, <2>1, <3>1, <3>2, <3>3
  <2> QED BY <2>2, <2>3
<1> QED BY <1>3, <1>4

LEMMA SameGrown ==
  SyncInv => Grown(lines, whole, lines, whole)
<1> SUFFICES ASSUME SyncInv, NEW p \in Paths
             PROVE  Len(lines[p]) \in Nat /\ Extent(lines, whole, p) \in Int
  BY DEF Grown
<1> QED BY DEF SyncInv, LogInv, Extent

\* What stays behind the server when the server records more, or Claude adds
\* a line: every file, and every hook.
LEMMA StatesStay ==
  ASSUME SyncInv, Grown(lines, whole, lines', whole'), server \subseteq server'
  PROVE  /\ \A c : FileOK(c, lines, whole, server) => FileOK(c, lines', whole', server')
         /\ \A s : Behind(s, lines, whole, server) => Behind(s, lines', whole', server')
  BY BehindStays DEF FileOK

LEMMA InitSync == Init => SyncInv
<1> SUFFICES ASSUME Init PROVE SyncInv
  OBVIOUS
<1>1. LogInv
  <2>1. <<>> \in Seq(Messages) /\ Len(<<>>) = 0
    OBVIOUS
  <2> QED BY <2>1, TranscriptConstants DEF Init, LogInv
<1>2. (CHOOSE p \in Paths : TRUE) \in Paths
  BY TranscriptConstants
<1>3. IdleJob \in Job /\ IdleJob.step = "idle"
  <2>1. Fresh(CHOOSE p \in Paths : TRUE) \in State
    BY <1>2, TranscriptConstants DEF Fresh, State
  <2> QED BY <2>1 DEF IdleJob, Job, Steps
<1>4. HooksInv
  BY <1>3 DEF Init, HooksInv
<1> QED BY <1>1, <1>4 DEF Init, SyncInv, FilesInv, FileOK, HistInv

\* The hooks after a step of h.
LEMMA HookStep ==
  ASSUME SyncInv, Grown(lines, whole, lines', whole'), server \subseteq server',
         NEW h \in Hooks, NEW j \in Job, job' = [job EXCEPT ![h] = j],
         j.step # "idle" => ~j.state.stale /\ Behind(j.state, lines', whole', server')
  PROVE  HooksInv'
<1>1. job' \in [Hooks -> Job] /\ job'[h] = j /\ \A g \in Hooks \ {h} : job'[g] = job[g]
  BY DEF SyncInv, HooksInv
<1>2. ASSUME NEW g \in Hooks, job'[g].step # "idle"
      PROVE  ~job'[g].state.stale /\ Behind(job'[g].state, lines', whole', server')
  <2>1. CASE g = h
    BY <1>1, <1>2, <2>1
  <2>2. CASE g # h
    <3>1. job'[g] = job[g] /\ ~job[g].state.stale /\ Behind(job[g].state, lines, whole, server)
      BY <1>1, <1>2, <2>2 DEF SyncInv, HooksInv, S
    <3> QED BY <3>1, StatesStay
  <2> QED BY <2>1, <2>2
<1> QED BY <1>1, <1>2 DEF HooksInv, S

LEMMA AppendGrows ==
  ASSUME SyncInv, NEW p \in Paths, NEW w \in BOOLEAN, AppendLine(p, w)
  PROVE  Grown(lines, whole, lines', whole') /\ LogInv'
<1>1. PICK m \in Messages : lines' = [lines EXCEPT ![p] = Append(lines[p], m)]
  BY DEF AppendLine
<1>2. /\ lines \in [Paths -> Seq(Messages)] /\ whole \in [Paths -> BOOLEAN]
      /\ whole[p] /\ Len(lines[p]) < MaxLines /\ whole' = [whole EXCEPT ![p] = w]
  BY DEF AppendLine, SyncInv, LogInv
<1>3. /\ lines[p] \in Seq(Messages) /\ lines'[p] = Append(lines[p], m)
      /\ \A q \in Paths \ {p} : lines'[q] = lines[q] /\ whole'[q] = whole[q]
      /\ lines' \in [Paths -> Seq(Messages)] /\ whole' \in [Paths -> BOOLEAN]
  BY <1>1, <1>2
<1>4. /\ Len(lines'[p]) = Len(lines[p]) + 1 /\ Len(lines[p]) \in Nat
      /\ \A n \in 1..Len(lines[p]) : lines'[p][n] = lines[p][n]
  BY <1>3, AppendProperties
<1> DEFINE Longer(q) ==
             /\ Len(lines[q]) \in Nat /\ Len(lines'[q]) \in Nat
             /\ Len(lines[q]) <= Len(lines'[q])
             /\ Extent(lines, whole, q) \in Int
             /\ Extent(lines, whole, q) <= Extent(lines', whole', q)
             /\ Extent(lines', whole', q) \in Int
             /\ \A n \in 1..Len(lines[q]) : lines'[q][n] = lines[q][n]
             /\ Len(lines[q]) < Len(lines'[q]) => Extent(lines, whole, q) = 2 * Len(lines[q])
<1>5. \A q \in Paths : Longer(q)
  <2>1. Longer(p)
    <3>1. Extent(lines, whole, p) = 2 * Len(lines[p])
      BY <1>2, <1>4 DEF Extent
    <3>2. Extent(lines', whole', p) = 2 * Len(lines'[p])
          \/ Extent(lines', whole', p) = 2 * Len(lines'[p]) - 1
      <4>1. CASE whole'[p]
        BY <1>4, <4>1 DEF Extent
      <4>2. CASE ~whole'[p]
        BY <1>4, <4>2 DEF Extent
      <4> QED BY <4>1, <4>2
    <3>3. /\ Extent(lines, whole, p) \in Int /\ Extent(lines', whole', p) \in Int
          /\ Extent(lines, whole, p) <= Extent(lines', whole', p)
          /\ Len(lines'[p]) \in Nat /\ Len(lines[p]) <= Len(lines'[p])
      BY <1>4, <3>1, <3>2
    <3> QED BY <1>4, <3>1, <3>3
  <2>2. ASSUME NEW q \in Paths, q # p PROVE Longer(q)
    <3>1. lines'[q] = lines[q] /\ whole'[q] = whole[q] /\ Len(lines[q]) \in Nat
      BY <1>2, <1>3, <2>2
    <3>2. Extent(lines', whole', q) = Extent(lines, whole, q)
      BY <3>1 DEF Extent
    <3>3. Extent(lines, whole, q) \in Int
      BY <3>1 DEF Extent
    <3>4. \A n \in 1..Len(lines[q]) : lines'[q][n] = lines[q][n]
      BY <3>1
    <3>5. ~(Len(lines[q]) < Len(lines'[q])) /\ Len(lines[q]) <= Len(lines'[q])
          /\ Extent(lines, whole, q) <= Extent(lines', whole', q)
      BY <3>1, <3>2, <3>3
    <3> QED BY <3>1, <3>2, <3>3, <3>4, <3>5
  <2> HIDE DEF Longer
  <2> QED BY <2>1, <2>2
<1>6. ASSUME NEW q \in Paths
      PROVE  Len(lines'[q]) <= MaxLines /\ (lines'[q] = <<>> => whole'[q])
  <2>1. CASE q = p
    <3>1. Len(lines'[p]) # 0
      BY <1>4
    <3> QED BY <1>2, <1>4, <2>1, <3>1, TranscriptConstants, EmptySeq
  <2>2. CASE q # p
    BY <1>3, <2>2 DEF SyncInv, LogInv
  <2> QED BY <2>1, <2>2
<1>7. rewrites' \in 0..MaxRewrites /\ failures' \in 0..MaxFailures
  BY DEF AppendLine, ClaudeStep, SyncInv, LogInv
<1> QED BY <1>3, <1>5, <1>6, <1>7 DEF Grown, LogInv

LEMMA FinishGrows ==
  ASSUME SyncInv, NEW p \in Paths, Finish(p)
  PROVE  Grown(lines, whole, lines', whole') /\ LogInv'
<1>1. /\ lines \in [Paths -> Seq(Messages)] /\ whole \in [Paths -> BOOLEAN] /\ lines' = lines
      /\ whole' = [whole EXCEPT ![p] = TRUE]
  BY DEF Finish, SyncInv, LogInv
<1>2. ASSUME NEW q \in Paths
      PROVE  /\ lines'[q] = lines[q] /\ Len(lines[q]) \in Nat
             /\ Extent(lines, whole, q) \in Int
             /\ Extent(lines, whole, q) <= Extent(lines', whole', q)
             /\ Extent(lines', whole', q) \in Int
  <2>1. CASE q = p
    BY <1>1, <2>1 DEF Extent
  <2>2. CASE q # p
    <3>1. whole'[q] = whole[q] /\ Len(lines[q]) \in Nat
      BY <1>1, <2>2
    <3> QED BY <1>1, <3>1 DEF Extent
  <2> QED BY <2>1, <2>2
<1>3. Grown(lines, whole, lines', whole')
  <2> SUFFICES ASSUME NEW q \in Paths
               PROVE  /\ Len(lines[q]) \in Nat /\ Len(lines'[q]) \in Nat
                      /\ Len(lines[q]) <= Len(lines'[q])
                      /\ \A n \in 1..Len(lines[q]) : lines'[q][n] = lines[q][n]
                      /\ ~(Len(lines[q]) < Len(lines'[q]))
    BY <1>2 DEF Grown
  <2> QED BY <1>2
<1>4. \A q \in Paths : lines[q] = <<>> => whole'[q]
  BY <1>1 DEF SyncInv, LogInv
<1>5. whole' \in [Paths -> BOOLEAN]
  BY <1>1
<1> QED BY <1>1, <1>3, <1>4, <1>5 DEF LogInv, SyncInv, Finish, ClaudeStep

\* Claude adds to a transcript.
LEMMA ClaudeAdds ==
  ASSUME SyncInv, Grown(lines, whole, lines', whole'), LogInv',
         UNCHANGED <<saved, tmp, job, server, recorded, repeated, overlap>>
  PROVE  SyncInv'
<1>1. FilesInv'
  BY StatesStay DEF SyncInv, FilesInv
<1>2. HooksInv'
  BY StatesStay DEF SyncInv, HooksInv, S
<1> QED BY <1>1, <1>2 DEF SyncInv, HistInv

LEMMA RewriteSync ==
  ASSUME SyncInv, NEW p \in Paths, Rewrite(p) PROVE SyncInv'
<1>1. PICK n \in 0..MaxLines : \E s \in [1..n -> Messages] : lines' = [lines EXCEPT ![p] = s]
  BY DEF Rewrite
<1>2. PICK s \in [1..n -> Messages] : lines' = [lines EXCEPT ![p] = s]
  BY <1>1
<1>3. n \in Nat /\ n <= MaxLines /\ s \in Seq(Messages) /\ Len(s) = n
  BY TranscriptConstants
<1>4. /\ lines' \in [Paths -> Seq(Messages)] /\ whole' \in [Paths -> BOOLEAN]
      /\ lines'[p] = s /\ whole'[p]
      /\ \A q \in Paths \ {p} : lines'[q] = lines[q] /\ whole'[q] = whole[q]
  BY <1>2, <1>3 DEF Rewrite, SyncInv, LogInv
<1>5. LogInv'
  <2>1. \A q \in Paths : Len(lines'[q]) <= MaxLines /\ (lines'[q] = <<>> => whole'[q])
    BY <1>3, <1>4 DEF SyncInv, LogInv
  <2>2. rewrites' \in 0..MaxRewrites /\ failures' \in 0..MaxFailures
    BY TranscriptConstants DEF Rewrite, ClaudeStep, SyncInv, LogInv
  <2> QED BY <1>4, <2>1, <2>2 DEF LogInv
<1>6. ASSUME NEW c, FileOK(c, lines, whole, server)
      PROVE  FileOK(Outdated(c, p), lines', whole', server)
  <2>1. CASE c \in {None, Broken}
    BY <2>1 DEF Outdated, Of, FileOK
  <2>2. CASE c \notin {None, Broken} /\ c.path = p
    <3> DEFINE d == [c EXCEPT !.stale = TRUE]
    <3>1. c \in State /\ c.seen \subseteq server
      BY <1>6, <2>2 DEF FileOK, Behind
    <3>2. d \in State /\ d.seen = c.seen /\ d.stale
      BY <3>1 DEF State
    <3>3. Outdated(c, p) = d
      BY <2>2 DEF Outdated, Of
    <3> HIDE DEF d
    <3> QED BY <3>1, <3>2, <3>3 DEF FileOK, Behind
  <2>3. CASE c \notin {None, Broken} /\ c.path # p
    <3>1. Behind(c, lines, whole, server) /\ c.path \in Paths \ {p} /\ Outdated(c, p) = c
      BY <1>6, <2>3 DEF FileOK, Behind, State, Outdated, Of
    <3>2. lines'[c.path] = lines[c.path] /\ whole'[c.path] = whole[c.path]
      BY <1>4, <3>1
    <3> QED BY <3>1, <3>2 DEF FileOK, Behind, Extent
  <2> QED BY <2>1, <2>2, <2>3
<1>7. FilesInv'
  BY <1>6 DEF SyncInv, FilesInv, Rewrite, ClaudeStep
<1>8. HooksInv' /\ HistInv'
  BY DEF SyncInv, HooksInv, HistInv, Rewrite, ClaudeStep, hist
<1> QED BY <1>5, <1>7, <1>8 DEF SyncInv

\* What a hook that starts works on.
LEMMA LoadedBehind ==
  ASSUME SyncInv, NEW p \in Paths
  PROVE  /\ ~Loaded(p).stale /\ Behind(Loaded(p), lines, whole, server)
         /\ Of(saved, p) => Loaded(p).seen = saved.seen /\ Loaded(p).path = p
<1>1. CASE ~Of(saved, p)
  <2>1. Loaded(p) = Fresh(p)
    BY <1>1 DEF Loaded
  <2> HIDE DEF Fresh
  <2> QED BY <1>1, <2>1, FreshBehind
<1>2. CASE Of(saved, p)
  <2> DEFINE at == Least(saved.at, Size(p))
             base == IF saved.stale THEN at ELSE saved.base
             d == [saved EXCEPT !.at = at, !.base = base, !.stale = FALSE]
  <2>1. saved \in State /\ saved.path = p /\ Behind(saved, lines, whole, server)
    BY <1>2 DEF Of, SyncInv, FilesInv, FileOK, Behind
  <2>2. /\ saved.at \in Int /\ saved.base \in Int /\ 0 <= saved.at /\ saved.at <= 2 * MaxLines
        /\ saved.base \in 0..(2 * MaxLines) /\ saved.stale \in BOOLEAN
    BY <2>1, TranscriptConstants DEF State
  <2>3. 0 <= Size(p) /\ Size(p) \in Int /\ Size(p) = Extent(lines, whole, p)
    <3>1. Size(p) = Extent(lines, whole, p) /\ Size(p) \in Int
      BY DEF SyncInv, LogInv, Extent, Size
    <3>2. 0 <= Extent(lines, whole, p)
      BY FreshBehind DEF Behind, Fresh
    <3> QED BY <3>1, <3>2
  <2>4. at \in 0..(2 * MaxLines) /\ at <= Size(p) /\ at <= saved.at /\ at \in Int
    BY <2>2, <2>3, TranscriptConstants DEF Least
  <2> HIDE DEF at
  <2>5. base \in 0..(2 * MaxLines)
    BY <2>2, <2>4
  <2>6. Loaded(p) = d
    BY <1>2 DEF Loaded, at
  <2>7. /\ d \in State /\ d.seen = saved.seen /\ d.path = p /\ ~d.stale /\ d.at = at
        /\ d.base = base
    BY <2>1, <2>4, <2>5 DEF State
  <2> HIDE DEF d
  <2>8. ASSUME NEW n \in 1..Len(lines[p]), base <= Start(n), Start(n) < at
        PROVE  lines[p][n] \in server
    <3>1. Start(n) \in Int
      BY DEF Start, SyncInv, LogInv
    <3>2. CASE saved.stale
      BY <2>4, <2>8, <3>1, <3>2
    <3>3. CASE ~saved.stale
      <4>1. saved.base <= Start(n) /\ Start(n) < saved.at
        BY <2>2, <2>4, <2>8, <3>1, <3>3
      <4> QED BY <2>1, <2>8, <3>3, <4>1 DEF Behind
    <3> QED BY <3>2, <3>3
  <2>9. Behind(d, lines, whole, server)
    BY <2>1, <2>3, <2>4, <2>7, <2>8 DEF Behind
  <2> QED BY <2>6, <2>7, <2>9
<1> QED BY <1>1, <1>2

\* A hook starts: nothing else changes.
LEMMA BeginSync ==
  ASSUME SyncInv, NEW h \in Hooks, NEW j \in Job, Begin(h, j),
         ~j.state.stale, Behind(j.state, lines, whole, server)
  PROVE  SyncInv'
<1>1. UNCHANGED <<lines, whole, rewrites, saved, tmp, server, failures>>
      /\ job' = [job EXCEPT ![h] = j]
  BY DEF Begin, log
<1>2. Grown(lines, whole, lines', whole')
  BY <1>1, SameGrown
<1>3. HooksInv'
  BY <1>1, <1>2, HookStep
<1>4. HistInv'
  BY DEF Begin, SyncInv, HistInv
<1> QED BY <1>1, <1>3, <1>4 DEF SyncInv, LogInv, FilesInv

LEMMA StartSync ==
  ASSUME SyncInv, NEW h \in Hooks, NEW p \in Paths,
         SessionStart(h, p) \/ NoTranscript(h, p) \/ Sync(h, p)
  PROVE  SyncInv'
<1>1. IdleJob \in Job /\ LastStep \in Job
  BY IdleJobShape
<1>2. CASE NoTranscript(h, p) \/ (SessionStart(h, p) /\ saved # None)
  <2>1. Begin(h, LastStep)
    BY <1>2 DEF NoTranscript, SessionStart
  <2> QED BY <1>1, <2>1, LastStepBehind, BeginSync
<1>3. CASE SessionStart(h, p) /\ saved = None
  <2> DEFINE s == [Fresh(p) EXCEPT !.at = Size(p), !.base = Size(p)]
             j == [IdleJob EXCEPT !.step = "open", !.state = s]
  <2>1. Size(p) = Extent(lines, whole, p) /\ Size(p) \in 0..(2 * MaxLines)
    <3>1. Size(p) = Extent(lines, whole, p) /\ Size(p) \in Int /\ Size(p) <= 2 * MaxLines
      BY TranscriptConstants DEF SyncInv, LogInv, Extent, Size
    <3>2. 0 <= Extent(lines, whole, p)
      BY FreshBehind DEF Behind, Fresh
    <3> QED BY <3>1, <3>2, TranscriptConstants
  <2>2. /\ s \in State /\ s.seen = {} /\ s.path = p /\ s.stale = FALSE /\ s.at = Size(p)
        /\ s.base = Size(p)
    BY <2>1 DEF Fresh, State
  <2>3. Begin(h, j)
    BY <1>3 DEF SessionStart
  <2> HIDE DEF s
  <2>4. j \in Job /\ j.state = s
    BY <1>1, <2>2 DEF Job, Steps
  <2>5. Behind(s, lines, whole, server)
    <3>1. \A n \in 1..Len(lines[p]) : Start(n) \in Int
      BY DEF SyncInv, LogInv, Start
    <3> QED BY <2>1, <2>2, <3>1 DEF Behind
  <2> HIDE DEF j
  <2> QED BY <2>2, <2>3, <2>4, <2>5, BeginSync
<1>4. CASE Sync(h, p)
  <2> DEFINE j == [IdleJob EXCEPT !.step = "read", !.state = Loaded(p)]
  <2>1. ~Loaded(p).stale /\ Behind(Loaded(p), lines, whole, server) /\ Loaded(p) \in State
    BY LoadedBehind DEF Behind
  <2>2. Begin(h, j)
    BY <1>4 DEF Sync
  <2> HIDE DEF Loaded
  <2>3. j \in Job /\ j.state = Loaded(p)
    BY <1>1, <2>1 DEF Job, Steps
  <2> HIDE DEF j
  <2> QED BY <2>1, <2>2, <2>3, BeginSync
<1> QED BY <1>2, <1>3, <1>4

\* A hook reads a line that is there, and that its cursor is in or before.
LEMMA LineInside ==
  ASSUME SyncInv, NEW h \in Hooks, Reading(h)
  PROVE  /\ S(h) \in State /\ ~S(h).stale /\ Behind(S(h), lines, whole, server)
         /\ Line(h) \in 1..Len(lines[S(h).path]) /\ Message(h) \in Messages
         /\ 2 * Line(h) \in 0..(2 * MaxLines)
         /\ 2 * Line(h) <= Extent(lines, whole, S(h).path)
         /\ S(h).at \in Nat /\ 2 * Line(h) - 2 <= S(h).at
         /\ InsideLine(h) => 2 * Line(h) - 2 < S(h).at
<1> DEFINE s == S(h)
           k == Line(h)
           l == lines[s.path]
<1>1. s \in State /\ ~s.stale /\ Behind(s, lines, whole, server)
  BY DEF Reading, SyncInv, HooksInv, Behind
<1>2. s.at \in Nat /\ s.path \in Paths
  BY <1>1, TranscriptConstants DEF State
<1>3. l \in Seq(Messages) /\ Len(l) \in Nat /\ Len(l) <= MaxLines
      /\ whole[s.path] \in BOOLEAN
  BY <1>2 DEF SyncInv, LogInv
<1>4. k = s.at \div 2 + 1 /\ (InsideLine(h) <=> s.at % 2 = 1)
  BY DEF Line, InsideLine
<1>5. k < Len(l) \/ (k = Len(l) /\ whole[s.path])
  BY DEF Reading, Terminated
<1> HIDE DEF s, k, l
<1>6. k \in Nat /\ 1 <= k /\ 2 * k - 2 <= s.at
  BY <1>2, <1>4
<1>7. InsideLine(h) => 2 * k - 2 < s.at
  BY <1>2, <1>4
<1>8. k \in 1..Len(l)
  BY <1>3, <1>5, <1>6
<1>9. 2 * k <= Extent(lines, whole, s.path)
  <2>1. CASE k < Len(l)
    <3>1. 2 * k <= 2 * Len(l) - 1
      BY <1>3, <1>6, <2>1
    <3>2. Extent(lines, whole, s.path) = 2 * Len(l)
          \/ Extent(lines, whole, s.path) = 2 * Len(l) - 1
      <4>1. CASE whole[s.path]
        BY <1>3, <4>1 DEF Extent, l
      <4>2. CASE ~whole[s.path]
        BY <1>3, <4>2 DEF Extent, l
      <4> QED BY <4>1, <4>2
    <3> QED BY <1>3, <1>6, <3>1, <3>2
  <2>2. CASE k = Len(l) /\ whole[s.path]
    BY <1>3, <1>6, <2>2 DEF Extent, l
  <2> QED BY <1>5, <2>1, <2>2
<1>10. Message(h) \in Messages
  <2>1. Message(h) = l[k]
    BY DEF Message, l, k, s
  <2> QED BY <1>3, <1>8, <2>1
<1>11. 2 * k \in 0..(2 * MaxLines)
  BY <1>3, <1>6, <1>8, TranscriptConstants
<1> QED BY <1>1, <1>2, <1>6, <1>7, <1>8, <1>9, <1>10, <1>11 DEF s, k, l

\* A cursor moves past a line that was posted or that it had entered.
LEMMA Passed ==
  ASSUME SyncInv, NEW h \in Hooks, Reading(h), NEW posted, server \subseteq posted,
         Message(h) \in posted \/ InsideLine(h),
         NEW t \in State, t.path = S(h).path, t.base = S(h).base, t.at = 2 * Line(h),
         t.seen \subseteq posted
  PROVE  Behind(t, lines, whole, posted)
<1> DEFINE s == S(h)
           k == Line(h)
           l == lines[s.path]
<1>1. /\ s \in State /\ ~s.stale /\ Behind(s, lines, whole, server)
      /\ k \in 1..Len(l) /\ 2 * k <= Extent(lines, whole, s.path)
      /\ s.at \in Nat /\ 2 * k - 2 <= s.at
      /\ InsideLine(h) => 2 * k - 2 < s.at
  BY LineInside
<1>2. Len(l) \in Nat
  BY <1>1 DEF State, SyncInv, LogInv
<1>3. l[k] = Message(h)
  BY DEF Message
<1> SUFFICES ASSUME NEW n \in 1..Len(l), s.base <= Start(n), Start(n) < 2 * k
             PROVE  l[n] \in posted
  BY <1>1 DEF Behind
<1>4. Start(n) = 2 * n - 2 /\ n \in Nat /\ k \in Nat
  BY <1>1, <1>2 DEF Start
<1>5. Start(n) < s.at => l[n] \in posted
  BY <1>1 DEF Behind
<1> HIDE DEF s, k, l
<1>6. n <= k
  BY <1>4
<1>7. CASE n < k
  <2>1. Start(n) < s.at
    BY <1>1, <1>4, <1>7
  <2> QED BY <1>5, <2>1
<1>8. CASE n = k
  <2>1. InsideLine(h) => Start(n) < s.at
    BY <1>1, <1>4, <1>8
  <2> QED BY <1>3, <1>5, <1>8, <2>1
<1> QED BY <1>4, <1>6, <1>7, <1>8

\* A step of a hook that only changes what it is doing, and moves its cursor.
LEMMA QuietSync ==
  ASSUME SyncInv, NEW h \in Hooks, NEW j \in Job, job' = [job EXCEPT ![h] = j],
         j.step # "idle" => ~j.state.stale /\ Behind(j.state, lines, whole, server'),
         UNCHANGED <<lines, whole, rewrites>>, failures' \in 0..MaxFailures,
         server \subseteq server', server' \subseteq Messages,
         FileOK(saved', lines, whole, server'), FileOK(tmp', lines, whole, server'),
         recorded' \subseteq server', repeated' \subseteq server', overlap' = overlap
  PROVE  SyncInv'
<1>1. Grown(lines, whole, lines', whole')
  BY SameGrown
<1>2. HooksInv'
  BY <1>1, HookStep
<1>3. LogInv' /\ FilesInv' /\ HistInv'
  BY DEF SyncInv, LogInv, FilesInv, HistInv
<1> QED BY <1>2, <1>3 DEF SyncInv

LEMMA FilesStay ==
  ASSUME SyncInv, server \subseteq server'
  PROVE  FileOK(saved, lines, whole, server') /\ FileOK(tmp, lines, whole, server')
<1>1. ASSUME NEW s, Behind(s, lines, whole, server) PROVE Behind(s, lines, whole, server')
  BY <1>1, SameGrown, BehindStays
<1> QED BY <1>1 DEF SyncInv, FilesInv, FileOK

LEMMA PassOverSync ==
  ASSUME SyncInv, NEW h \in Hooks, PassOver(h) PROVE SyncInv'
<1> DEFINE t == [S(h) EXCEPT !.at = 2 * Line(h)]
           j == [job[h] EXCEPT !.step = "read", !.state = t]
<1>1. /\ S(h) \in State /\ ~S(h).stale /\ Behind(S(h), lines, whole, server)
      /\ 2 * Line(h) \in 0..(2 * MaxLines)
  BY LineInside DEF PassOver
<1>2. /\ t \in State /\ t.path = S(h).path /\ t.base = S(h).base /\ t.at = 2 * Line(h)
      /\ t.seen = S(h).seen /\ ~t.stale
  BY <1>1 DEF State
<1>3. job[h] \in Job /\ job \in [Hooks -> Job]
  BY DEF SyncInv, HooksInv
<1>4. job' = [job EXCEPT ![h] = j]
  BY <1>3 DEF PassOver, Go
<1> HIDE DEF t
<1>5. j \in Job /\ j.state = t
  BY <1>2, <1>3 DEF Job, Steps
<1>6. Message(h) \in server \/ InsideLine(h)
  BY <1>1 DEF PassOver, ToPost, Behind
<1>7. Behind(t, lines, whole, server)
  BY <1>1, <1>2, <1>6, Passed DEF PassOver, Behind
<1> HIDE DEF j
<1>8. UNCHANGED <<lines, whole, rewrites, saved, tmp, server, recorded, repeated, overlap, failures>>
  BY DEF PassOver, log, hist
<1> QED BY <1>2, <1>4, <1>5, <1>7, <1>8, QuietSync DEF SyncInv, LogInv, FilesInv, HistInv

\* What a post that the server commits records.
LEMMA Committed ==
  ASSUME SyncInv, NEW h \in Hooks, ToPost(h), Commit(h)
  PROVE  /\ server \subseteq server' /\ server' \subseteq Messages /\ Message(h) \in server'
         /\ repeated' \subseteq server' /\ recorded \subseteq server'
<1>1. Message(h) \in Messages
  BY LineInside DEF ToPost
<1> QED BY <1>1 DEF Commit, SyncInv, HistInv

LEMMA PostSync ==
  ASSUME SyncInv, NEW h \in Hooks, Post(h) PROVE SyncInv'
<1> DEFINE t == [S(h) EXCEPT !.at = 2 * Line(h), !.seen = S(h).seen \cup {Message(h)}]
           j == [job[h] EXCEPT !.step = "read", !.state = t]
<1>1. /\ S(h) \in State /\ ~S(h).stale /\ Behind(S(h), lines, whole, server)
      /\ 2 * Line(h) \in 0..(2 * MaxLines) /\ Message(h) \in Messages
  BY LineInside DEF Post, ToPost
<1>2. /\ server \subseteq server' /\ server' \subseteq Messages /\ Message(h) \in server'
      /\ repeated' \subseteq server' /\ recorded \subseteq server'
  BY Committed DEF Post
<1>3. /\ t \in State /\ t.path = S(h).path /\ t.base = S(h).base /\ t.at = 2 * Line(h)
      /\ t.seen = S(h).seen \cup {Message(h)} /\ ~t.stale
  BY <1>1 DEF State
<1>4. job[h] \in Job /\ job \in [Hooks -> Job]
  BY DEF SyncInv, HooksInv
<1>5. job' = [job EXCEPT ![h] = j]
  BY <1>4 DEF Post, Go
<1> HIDE DEF t
<1>6. j \in Job /\ j.state = t
  BY <1>3, <1>4 DEF Job, Steps
<1>7. t.seen \subseteq server'
  BY <1>1, <1>2, <1>3 DEF Behind
<1>8. Behind(t, lines, whole, server')
  BY <1>2, <1>3, <1>7, Passed DEF Post, ToPost
<1> HIDE DEF j
<1>9. UNCHANGED <<lines, whole, rewrites, saved, tmp, recorded, overlap, failures>>
  BY DEF Post, log
<1>10. failures' \in 0..MaxFailures
  BY <1>9 DEF SyncInv, LogInv
<1>11. FileOK(saved', lines, whole, server') /\ FileOK(tmp', lines, whole, server')
  BY <1>2, <1>9, FilesStay
<1> QED BY <1>2, <1>3, <1>5, <1>6, <1>8, <1>9, <1>10, <1>11, QuietSync

LEMMA MovedJob ==
  ASSUME SyncInv, NEW h \in Hooks, NEW step \in Steps, NEW handle \in {"tmp", "saved", "gone"}
  PROVE  /\ [job[h] EXCEPT !.step = step, !.handle = handle] \in Job
         /\ [job[h] EXCEPT !.step = step, !.handle = handle].state = S(h)
         /\ [job[h] EXCEPT !.step = step, !.handle = handle].step = step
<1>1. job[h] \in Job
  BY DEF SyncInv, HooksInv
<1> QED BY <1>1 DEF Job, S

\* The hook's state is behind the server while it is at work.
LEMMA WorkBehind ==
  ASSUME SyncInv, NEW h \in Hooks, job[h].step # "idle"
  PROVE  ~S(h).stale /\ Behind(S(h), lines, whole, server) /\ S(h) \in State
  BY DEF SyncInv, HooksInv, Behind

LEMMA EndReadSync ==
  ASSUME SyncInv, NEW h \in Hooks, EndRead(h) PROVE SyncInv'
<1> DEFINE j == [job[h] EXCEPT !.step = "open"]
<1>1. job[h] \in Job /\ job \in [Hooks -> Job]
  BY DEF SyncInv, HooksInv
<1>2. j \in Job /\ j.state = S(h)
  BY <1>1 DEF Job, Steps, S
<1>3. job' = [job EXCEPT ![h] = j]
  BY <1>1 DEF EndRead, Move
<1> HIDE DEF j
<1>4. UNCHANGED <<lines, whole, rewrites, saved, tmp, server, recorded, repeated, overlap, failures>>
  BY DEF EndRead, log, hist
<1>5. ~S(h).stale /\ Behind(S(h), lines, whole, server)
  BY WorkBehind DEF EndRead
<1> QED BY <1>2, <1>3, <1>4, <1>5, QuietSync DEF SyncInv, LogInv, FilesInv, HistInv

LEMMA OpenTmpSync ==
  ASSUME SyncInv, NEW h \in Hooks, OpenTmp(h) PROVE SyncInv'
<1> DEFINE j == [job[h] EXCEPT !.step = "fill", !.handle = "tmp"]
<1>1. job[h] \in Job /\ job \in [Hooks -> Job]
  BY DEF SyncInv, HooksInv
<1>2. j \in Job /\ j.state = S(h)
  BY <1>1 DEF Job, Steps, S
<1>3. job' = [job EXCEPT ![h] = j]
  BY <1>1 DEF OpenTmp
<1> HIDE DEF j
<1>4. /\ UNCHANGED <<lines, whole, rewrites, saved, server, recorded, repeated, overlap, failures>>
      /\ tmp' = Broken
  BY DEF OpenTmp, log, hist
<1>5. ~S(h).stale /\ Behind(S(h), lines, whole, server)
  BY WorkBehind DEF OpenTmp
<1> QED BY <1>2, <1>3, <1>4, <1>5, QuietSync DEF SyncInv, LogInv, FilesInv, HistInv, FileOK

\* Recording a state that is behind the server.
LEMMA RecordedBehind ==
  ASSUME SyncInv, NEW c, FileOK(c, lines, whole, server)
  PROVE  RecordedWith(c) \subseteq server
<1>1. c \notin {None, Broken} => c.seen \subseteq server
  BY DEF FileOK, Behind
<1> QED BY <1>1 DEF RecordedWith, SyncInv, HistInv

LEMMA FillTmpSync ==
  ASSUME SyncInv, NEW h \in Hooks, FillTmp(h) PROVE SyncInv'
<1> DEFINE j == [job[h] EXCEPT !.step = "replace"]
<1>1. job[h] \in Job /\ job \in [Hooks -> Job]
  BY DEF SyncInv, HooksInv
<1>2. j \in Job /\ j.state = S(h)
  BY <1>1 DEF Job, Steps, S
<1>3. job' = [job EXCEPT ![h] = j]
  BY <1>1 DEF FillTmp, Move
<1> HIDE DEF j
<1>4. UNCHANGED <<lines, whole, rewrites, server, repeated, overlap, failures>>
  BY DEF FillTmp, log
<1>5. ~S(h).stale /\ Behind(S(h), lines, whole, server)
  BY WorkBehind DEF FillTmp
<1>6. \A old : \A c \in Written(old, S(h)) : FileOK(c, lines, whole, server)
  BY <1>5 DEF Written, FileOK
<1>7. /\ FileOK(saved', lines, whole, server) /\ FileOK(tmp', lines, whole, server)
      /\ recorded' \subseteq server
  <2>1. job[h].handle \in {"tmp", "saved", "gone"}
    BY <1>1 DEF Job
  <2>2. CASE job[h].handle = "tmp"
    BY <1>6, <2>2 DEF FillTmp, SyncInv, FilesInv, HistInv
  <2>3. CASE job[h].handle = "saved"
    BY <1>6, <2>3, RecordedBehind DEF FillTmp, SyncInv, FilesInv, HistInv
  <2>4. CASE job[h].handle = "gone"
    BY <2>4 DEF FillTmp, SyncInv, FilesInv, HistInv
  <2> QED BY <2>1, <2>2, <2>3, <2>4
<1> QED BY <1>2, <1>3, <1>4, <1>5, <1>7, QuietSync DEF SyncInv, LogInv, HistInv

LEMMA ReplaceSync ==
  ASSUME SyncInv, NEW h \in Hooks, Replace(h) PROVE SyncInv'
<1>1. LastStep \in Job
  BY IdleJobShape
<1>2. UNCHANGED <<lines, whole, rewrites, server, repeated, overlap, failures>>
      /\ saved' = tmp /\ tmp' = None /\ recorded' = RecordedWith(tmp)
  BY DEF Replace, log
<1>3. ASSUME NEW g \in Hooks
      PROVE  /\ job'[g] \in Job
             /\ job'[g].step # "idle" =>
                  ~job'[g].state.stale /\ Behind(job'[g].state, lines, whole, server)
  <2>0. job[g] \in Job
    BY DEF SyncInv, HooksInv
  <2>1. CASE g = h
    BY <1>1, <2>1, LastStepBehind DEF Replace
  <2>2. CASE g # h /\ job[g].step = "fill"
    <3> DEFINE j == [job[g] EXCEPT !.handle = Moved(g)]
    <3>1. Moved(g) \in {"tmp", "saved", "gone"}
      BY DEF Moved
    <3>2. j \in Job /\ j.state = S(g)
      BY <2>0, <3>1 DEF Job, S
    <3>3. job'[g] = j
      BY <2>2 DEF Replace
    <3> HIDE DEF j
    <3> QED BY <2>2, <3>2, <3>3, WorkBehind
  <2>3. CASE g # h /\ job[g].step # "fill"
    <3>1. job'[g] = job[g]
      BY <2>3 DEF Replace
    <3> QED BY <2>0, <3>1, WorkBehind DEF S
  <2> QED BY <2>1, <2>2, <2>3
<1>4. HooksInv'
  <2>1. job' \in [Hooks -> Job]
    BY <1>3 DEF Replace
  <2> QED BY <1>2, <1>3, <2>1 DEF HooksInv, S
<1>5. recorded' \subseteq server
  BY <1>2, RecordedBehind DEF SyncInv, FilesInv
<1> QED BY <1>2, <1>4, <1>5 DEF SyncInv, LogInv, FilesInv, FileOK, HistInv

LEMMA EndSync ==
  ASSUME SyncInv, NEW h \in Hooks,
         ReplaceMissing(h) \/ PostEvent(h) \/ Fail(h) \/ PostUnanswered(h)
  PROVE  SyncInv'
<1>1. IdleJob \in Job /\ IdleJob.step = "idle"
  BY IdleJobShape DEF IdleJob
<1>2. /\ job' = [job EXCEPT ![h] = IdleJob]
      /\ UNCHANGED <<lines, whole, rewrites, saved, tmp, recorded, overlap>>
  BY DEF ReplaceMissing, PostEvent, Fail, PostUnanswered, Idle, log, hist
<1>3. failures' \in 0..MaxFailures
  BY TranscriptConstants
     DEF ReplaceMissing, PostEvent, Fail, PostUnanswered, SyncInv, LogInv
<1>4. /\ server \subseteq server' /\ server' \subseteq Messages
      /\ repeated' \subseteq server' /\ recorded' \subseteq server'
  BY Committed DEF ReplaceMissing, PostEvent, Fail, PostUnanswered, hist, SyncInv, HistInv
<1>5. FileOK(saved', lines, whole, server') /\ FileOK(tmp', lines, whole, server')
  BY <1>2, <1>4, FilesStay
<1> QED BY <1>1, <1>2, <1>3, <1>4, <1>5, QuietSync

LEMMA NextSync == SyncInv /\ [Next]_vars => SyncInv'
<1> SUFFICES ASSUME SyncInv, [Next]_vars PROVE SyncInv'
  OBVIOUS
<1>1. ASSUME NEW p \in Paths, NEW w \in BOOLEAN, AppendLine(p, w) PROVE SyncInv'
  BY <1>1, AppendGrows, ClaudeAdds DEF AppendLine, ClaudeStep, hist
<1>2. ASSUME NEW p \in Paths, Finish(p) PROVE SyncInv'
  BY <1>2, FinishGrows, ClaudeAdds DEF Finish, ClaudeStep, hist
<1>3. CASE UNCHANGED vars
  BY <1>3 DEF vars, log, hist, SyncInv, LogInv, FilesInv, HooksInv, HistInv, S
<1> QED BY <1>1, <1>2, <1>3, RewriteSync, StartSync, PassOverSync, PostSync, EndReadSync,
           OpenTmpSync, FillTmpSync, ReplaceSync, EndSync
        DEF Next

LEMMA SyncInvariant == Spec => []SyncInv
  BY InitSync, NextSync, PTL DEF Spec

\* The hook's state and files keep their shape, and a hook reads within its
\* transcript, however hooks overlap, fail or find the transcript rewritten.
THEOREM TypeCorrect == Spec => []TypeOK
  BY SyncInvariant, TypesFollow, PTL

\* No cursor of claude_code_hook.py, in a process or in a file, is ever past a
\* message the server does not have, whichever processes overlap, whatever post
\* or save fails, and however often the transcript is written anew.
THEOREM NothingIsDropped == Spec => []NothingDropped
  BY SyncInvariant, DroppedFollows, PTL

-----------------------------------------------------------------------------
\* A hook that was idle is out of the way of the others.
LEMMA IdleAlone ==
  ASSUME NEW j, j.step = "idle" \/ j.step = "event", j.handle = "tmp",
         NEW file, NEW temporary, NEW rec
  PROVE  HookAlone(j, file, temporary, rec)
  BY DEF HookAlone

\* A step of h, the one at work, to j.
LEMMA AloneStep ==
  ASSUME SyncInv, AloneInv, ~overlap, overlap' = overlap,
         NEW h \in Hooks, job[h].step # "idle",
         NEW j, job' = [job EXCEPT ![h] = j],
         HookAlone(j, saved', tmp', recorded'),
         FileAlone(saved', recorded'), repeated' = {}
  PROVE  AloneInv'
<1>1. job'[h] = j /\ \A g \in Hooks \ {h} : job'[g] = job[g]
  BY DEF SyncInv, HooksInv
<1>2. \A g \in Hooks \ {h} : job[g].step = "idle" /\ job[g].handle = "tmp"
  BY DEF AloneInv, OneAtWork, HookAlone
<1>3. \A g \in Hooks \ {h} : HookAlone(job'[g], saved', tmp', recorded')
  BY <1>1, <1>2, IdleAlone
<1>4. OneAtWork'
  BY <1>1, <1>2 DEF OneAtWork
<1> QED BY <1>1, <1>3, <1>4 DEF AloneInv

\* A hook that starts while the others are idle.
LEMMA BeginAlone ==
  ASSUME SyncInv, AloneInv, NEW h \in Hooks, NEW j, Begin(h, j),
         ~overlap => HookAlone(j, saved, tmp, recorded)
  PROVE  AloneInv'
<1> SUFFICES ASSUME ~overlap' PROVE AloneInv'
  BY DEF AloneInv
<1>1. /\ ~overlap /\ \A g \in Hooks \ {h} : job[g].step = "idle"
      /\ UNCHANGED <<saved, tmp, recorded, repeated>> /\ job' = [job EXCEPT ![h] = j]
  BY DEF Begin
<1>2. job'[h] = j /\ \A g \in Hooks \ {h} : job'[g] = job[g]
  BY <1>1 DEF SyncInv, HooksInv
<1>3. OneAtWork'
  BY <1>1, <1>2 DEF OneAtWork
<1>4. \A g \in Hooks : HookAlone(job'[g], saved, tmp, recorded)
  BY <1>1, <1>2 DEF AloneInv
<1> QED BY <1>1, <1>3, <1>4 DEF AloneInv

LEMMA StartAlone ==
  ASSUME SyncInv, AloneInv, NEW h \in Hooks, NEW p \in Paths,
         SessionStart(h, p) \/ NoTranscript(h, p) \/ Sync(h, p)
  PROVE  AloneInv'
<1>1. LastStep.step = "event" /\ LastStep.handle = "tmp" /\ IdleJob.handle = "tmp"
  BY DEF LastStep, IdleJob
<1>2. CASE NoTranscript(h, p) \/ (SessionStart(h, p) /\ saved # None)
  <2>1. Begin(h, LastStep)
    BY <1>2 DEF NoTranscript, SessionStart
  <2> QED BY <1>1, <2>1, IdleAlone, BeginAlone
<1>3. CASE SessionStart(h, p) /\ saved = None
  <2> DEFINE s == [Fresh(p) EXCEPT !.at = Size(p), !.base = Size(p)]
             j == [IdleJob EXCEPT !.step = "open", !.state = s]
  <2>1. Begin(h, j)
    BY <1>3 DEF SessionStart
  <2> HIDE DEF s
  <2>2. j.step = "open" /\ j.handle = "tmp" /\ j.state = s
    BY DEF IdleJob
  <2> HIDE DEF j
  <2>3. HookAlone(j, saved, tmp, recorded)
    BY <1>3, <2>2 DEF HookAlone, Of
  <2> QED BY <2>1, <2>3, BeginAlone
<1>4. CASE Sync(h, p)
  <2> DEFINE j == [IdleJob EXCEPT !.step = "read", !.state = Loaded(p)]
  <2>1. Begin(h, j)
    BY <1>4 DEF Sync
  <2>2. Loaded(p).path = p /\ (Of(saved, p) => Loaded(p).seen = saved.seen)
    <3>1. CASE Of(saved, p)
      BY <3>1, LoadedBehind
    <3>2. CASE ~Of(saved, p)
      BY <3>2 DEF Loaded, Fresh
    <3> QED BY <3>1, <3>2
  <2> HIDE DEF Loaded
  <2>3. j.step = "read" /\ j.handle = "tmp" /\ j.state = Loaded(p)
    BY DEF IdleJob
  <2> HIDE DEF j
  <2>4. ~overlap /\ Of(saved, p) => recorded \subseteq saved.seen
    BY DEF AloneInv, FileAlone, Of
  <2>5. ~overlap => HookAlone(j, saved, tmp, recorded)
    BY <2>2, <2>3, <2>4 DEF HookAlone
  <2> QED BY <2>1, <2>5, BeginAlone
<1> QED BY <1>2, <1>3, <1>4

\* The hook at work goes on reading or saving in the same transcript, and has
\* seen no less.
LEMMA GoesOn ==
  ASSUME SyncInv, AloneInv, ~overlap, NEW h \in Hooks, job[h].step = "read",
         NEW j, j.handle = job[h].handle, j.step \in {"read", "open"},
         j.state.path = S(h).path, S(h).seen \subseteq j.state.seen
  PROVE  HookAlone(j, saved, tmp, recorded)
<1>1. HookAlone(job[h], saved, tmp, recorded)
  BY DEF AloneInv
<1> QED BY <1>1 DEF HookAlone, S

LEMMA PassOverAlone ==
  ASSUME SyncInv, AloneInv, NEW h \in Hooks, PassOver(h) PROVE AloneInv'
<1> DEFINE t == [S(h) EXCEPT !.at = 2 * Line(h)]
           j == [job[h] EXCEPT !.step = "read", !.state = t]
<1> SUFFICES ASSUME ~overlap PROVE AloneInv'
  BY DEF AloneInv, PassOver, hist
<1>1. job[h] \in Job /\ job \in [Hooks -> Job] /\ S(h) \in State
  BY DEF SyncInv, HooksInv, Job, S
<1>2. t.path = S(h).path /\ t.seen = S(h).seen
  BY <1>1 DEF State
<1>3. job' = [job EXCEPT ![h] = j]
  BY <1>1 DEF PassOver, Go
<1> HIDE DEF t
<1>4. j.handle = job[h].handle /\ j.step = "read" /\ j.state = t
  BY <1>1 DEF Job
<1> HIDE DEF j
<1>5. HookAlone(j, saved, tmp, recorded)
  BY <1>2, <1>4, GoesOn DEF PassOver, Reading
<1>6. UNCHANGED <<saved, tmp, recorded, repeated, overlap>>
  BY DEF PassOver, hist
<1> QED BY <1>3, <1>5, <1>6, AloneStep DEF AloneInv, PassOver, Reading

\* A message that is posted was not recorded.
LEMMA CommitsNew ==
  ASSUME SyncInv, AloneInv, ~overlap, NEW h \in Hooks, ToPost(h), Commit(h)
  PROVE  repeated' = {}
<1>1. HookAlone(job[h], saved, tmp, recorded) /\ repeated = {}
  BY DEF AloneInv
<1>2. Of(saved, S(h).path) => recorded \subseteq S(h).seen
  BY <1>1 DEF HookAlone, ToPost, Reading, S
<1>3. Message(h) \notin S(h).seen
  BY DEF ToPost
<1> QED BY <1>1, <1>2, <1>3 DEF Commit

LEMMA PostAlone ==
  ASSUME SyncInv, AloneInv, NEW h \in Hooks, Post(h) PROVE AloneInv'
<1> DEFINE t == [S(h) EXCEPT !.at = 2 * Line(h), !.seen = S(h).seen \cup {Message(h)}]
           j == [job[h] EXCEPT !.step = "read", !.state = t]
<1> SUFFICES ASSUME ~overlap PROVE AloneInv'
  BY DEF AloneInv, Post
<1>1. job[h] \in Job /\ job \in [Hooks -> Job] /\ S(h) \in State
  BY DEF SyncInv, HooksInv, Job, S
<1>2. t.path = S(h).path /\ S(h).seen \subseteq t.seen
  BY <1>1 DEF State
<1>3. job' = [job EXCEPT ![h] = j]
  BY <1>1 DEF Post, Go
<1> HIDE DEF t
<1>4. j.handle = job[h].handle /\ j.step = "read" /\ j.state = t
  BY <1>1 DEF Job
<1> HIDE DEF j
<1>5. HookAlone(j, saved, tmp, recorded)
  BY <1>2, <1>4, GoesOn DEF Post, ToPost, Reading
<1>6. repeated' = {}
  BY CommitsNew DEF Post
<1>7. UNCHANGED <<saved, tmp, recorded, overlap>>
  BY DEF Post
<1> QED BY <1>3, <1>5, <1>6, <1>7, AloneStep DEF AloneInv, Post, ToPost, Reading

LEMMA EndReadAlone ==
  ASSUME SyncInv, AloneInv, NEW h \in Hooks, EndRead(h) PROVE AloneInv'
<1> DEFINE j == [job[h] EXCEPT !.step = "open"]
<1> SUFFICES ASSUME ~overlap PROVE AloneInv'
  BY DEF AloneInv, EndRead, hist
<1>1. job[h] \in Job /\ job \in [Hooks -> Job]
  BY DEF SyncInv, HooksInv
<1>2. job' = [job EXCEPT ![h] = j]
  BY <1>1 DEF EndRead, Move
<1>3. j.handle = job[h].handle /\ j.step = "open" /\ j.state = S(h)
  BY <1>1 DEF Job, S
<1> HIDE DEF j
<1>4. HookAlone(j, saved, tmp, recorded)
  BY <1>3, GoesOn DEF EndRead
<1>5. UNCHANGED <<saved, tmp, recorded, repeated, overlap>>
  BY DEF EndRead, hist
<1> QED BY <1>2, <1>4, <1>5, AloneStep DEF AloneInv, EndRead

LEMMA OpenTmpAlone ==
  ASSUME SyncInv, AloneInv, NEW h \in Hooks, OpenTmp(h) PROVE AloneInv'
<1> DEFINE j == [job[h] EXCEPT !.step = "fill", !.handle = "tmp"]
<1> SUFFICES ASSUME ~overlap PROVE AloneInv'
  BY DEF AloneInv, OpenTmp, hist
<1>1. job[h] \in Job /\ job \in [Hooks -> Job]
  BY DEF SyncInv, HooksInv
<1>2. job' = [job EXCEPT ![h] = j]
  BY <1>1 DEF OpenTmp
<1>3. j.handle = "tmp" /\ j.step = "fill" /\ j.state = S(h)
  BY <1>1 DEF Job, S
<1> HIDE DEF j
<1>4. UNCHANGED <<saved, recorded, repeated, overlap>> /\ tmp' = Broken /\ job[h].step = "open"
  BY DEF OpenTmp, hist
<1>5. HookAlone(j, saved', tmp', recorded')
  BY <1>3, <1>4 DEF AloneInv, HookAlone, S
<1> QED BY <1>2, <1>4, <1>5, AloneStep DEF AloneInv

\* The hook writes to the file it emptied itself.
LEMMA FillTmpAlone ==
  ASSUME SyncInv, AloneInv, NEW h \in Hooks, FillTmp(h) PROVE AloneInv'
<1> DEFINE j == [job[h] EXCEPT !.step = "replace"]
<1> SUFFICES ASSUME ~overlap PROVE AloneInv'
  BY DEF AloneInv, FillTmp
<1>1. job[h] \in Job /\ job \in [Hooks -> Job]
  BY DEF SyncInv, HooksInv
<1>2. job' = [job EXCEPT ![h] = j]
  BY <1>1 DEF FillTmp, Move
<1>3. j.handle = job[h].handle /\ j.step = "replace" /\ j.state = S(h)
  BY <1>1 DEF Job, S
<1> HIDE DEF j
<1>4. HookAlone(job[h], saved, tmp, recorded) /\ job[h].step = "fill"
  BY DEF AloneInv, FillTmp
<1>5. job[h].handle = "tmp" /\ tmp = Broken
  BY <1>4 DEF HookAlone
<1>6. tmp' = S(h) /\ UNCHANGED <<saved, recorded, repeated, overlap>>
  BY <1>5 DEF FillTmp, Written
<1>7. HookAlone(j, saved', tmp', recorded')
  BY <1>3, <1>4, <1>5, <1>6 DEF HookAlone, S
<1> QED BY <1>2, <1>4, <1>6, <1>7, AloneStep DEF AloneInv

LEMMA ReplaceAlone ==
  ASSUME SyncInv, AloneInv, NEW h \in Hooks, Replace(h) PROVE AloneInv'
<1> SUFFICES ASSUME ~overlap PROVE AloneInv'
  BY DEF AloneInv, Replace
<1>1. job \in [Hooks -> Job] /\ S(h) \in State /\ S(h) # None /\ S(h) # Broken
  BY NoFileIsNoState DEF SyncInv, HooksInv, Job, S
<1>2. HookAlone(job[h], saved, tmp, recorded) /\ FileAlone(saved, recorded) /\ repeated = {}
  BY DEF AloneInv
<1>3. tmp = S(h) /\ (Of(saved, S(h).path) => recorded \subseteq S(h).seen)
  BY <1>2 DEF HookAlone, Replace, S
<1>4. saved' = S(h) /\ recorded' = RecordedWith(S(h)) /\ UNCHANGED <<repeated, overlap>>
  BY <1>3 DEF Replace
<1>5. recorded' \subseteq S(h).seen
  <2>1. CASE saved = None
    BY <1>1, <1>2, <1>4, <2>1 DEF RecordedWith, FileAlone
  <2>2. CASE saved # None /\ saved.path = S(h).path
    BY <1>1, <1>2, <1>3, <1>4, <2>2 DEF RecordedWith, FileAlone, Of
  <2>3. CASE saved # None /\ saved.path # S(h).path
    BY <1>1, <1>2, <1>4, <2>3 DEF RecordedWith, FileAlone
  <2> QED BY <2>1, <2>2, <2>3
<1>6. FileAlone(saved', recorded')
  BY <1>1, <1>4, <1>5 DEF FileAlone
<1>7. \A g \in Hooks \ {h} : job[g].step = "idle" /\ job[g].handle = "tmp"
  BY DEF AloneInv, OneAtWork, HookAlone, Replace
<1>8. job'[h] = LastStep /\ \A g \in Hooks \ {h} : job'[g] = job[g]
  BY <1>7 DEF Replace
<1>9. LastStep.step = "event" /\ LastStep.handle = "tmp"
  BY DEF LastStep, IdleJob
<1>10. \A g \in Hooks : HookAlone(job'[g], saved', tmp', recorded')
  BY <1>7, <1>8, <1>9, IdleAlone
<1>11. OneAtWork'
  BY <1>7, <1>8 DEF OneAtWork
<1> QED BY <1>2, <1>4, <1>6, <1>10, <1>11 DEF AloneInv

LEMMA EndAlone ==
  ASSUME SyncInv, AloneInv, NEW h \in Hooks,
         ReplaceMissing(h) \/ PostEvent(h) \/ Fail(h) \/ PostUnanswered(h)
  PROVE  AloneInv'
<1>1. /\ job' = [job EXCEPT ![h] = IdleJob] /\ job[h].step # "idle"
      /\ UNCHANGED <<saved, tmp, recorded, overlap>>
  BY DEF ReplaceMissing, PostEvent, Fail, PostUnanswered, Idle, hist, ToPost, Reading
<1> SUFFICES ASSUME ~overlap PROVE AloneInv'
  BY <1>1 DEF AloneInv
<1>2. repeated' = {}
  BY CommitsNew DEF ReplaceMissing, PostEvent, Fail, PostUnanswered, hist, AloneInv
<1>3. HookAlone(IdleJob, saved', tmp', recorded')
  BY IdleAlone DEF IdleJob
<1> QED BY <1>1, <1>2, <1>3, AloneStep DEF AloneInv

\* Writing the transcript anew takes nothing from what the state file has seen.
LEMMA RewriteAlone ==
  ASSUME SyncInv, AloneInv, NEW p \in Paths, Rewrite(p) PROVE AloneInv'
<1> SUFFICES ASSUME ~overlap PROVE AloneInv'
  BY DEF AloneInv, Rewrite, ClaudeStep, hist
<1>1. /\ \A h \in Hooks : job[h].step = "idle"
      /\ UNCHANGED <<job, recorded, repeated, overlap>> /\ saved' = Outdated(saved, p)
  BY DEF Rewrite, ClaudeStep, hist
<1>2. \A h \in Hooks : job[h].handle = "tmp"
  BY DEF AloneInv, HookAlone
<1>3. FileAlone(saved', recorded')
  <2>1. FileAlone(saved, recorded)
    BY DEF AloneInv
  <2>2. CASE ~Of(saved, p)
    BY <1>1, <2>1, <2>2 DEF Outdated
  <2>3. CASE Of(saved, p)
    <3>1. saved \in State
      BY <2>3 DEF Of, SyncInv, FilesInv, FileOK, Behind
    <3>2. saved' \in State /\ saved'.seen = saved.seen
      BY <1>1, <2>3, <3>1 DEF Outdated, State
    <3> QED BY <1>1, <2>1, <2>3, <3>2, NoFileIsNoState DEF FileAlone, Of
  <2> QED BY <2>2, <2>3
<1>4. \A h \in Hooks : HookAlone(job'[h], saved', tmp', recorded')
  BY <1>1, <1>2, IdleAlone
<1> QED BY <1>1, <1>3, <1>4 DEF AloneInv, OneAtWork

LEMMA NextAlone == SyncInv /\ AloneInv /\ [Next]_vars => AloneInv'
<1> SUFFICES ASSUME SyncInv, AloneInv, [Next]_vars PROVE AloneInv'
  OBVIOUS
<1>1. ASSUME NEW p \in Paths, (\E w \in BOOLEAN : AppendLine(p, w)) \/ Finish(p)
      PROVE  AloneInv'
  BY <1>1 DEF AppendLine, Finish, ClaudeStep, hist, AloneInv, OneAtWork
<1>2. CASE UNCHANGED vars
  BY <1>2 DEF vars, hist, AloneInv, OneAtWork
<1> QED BY <1>1, <1>2, RewriteAlone, StartAlone, PassOverAlone, PostAlone, EndReadAlone,
           OpenTmpAlone, FillTmpAlone, ReplaceAlone, EndAlone
        DEF Next

LEMMA InitAlone == Init => AloneInv
<1> SUFFICES ASSUME Init PROVE AloneInv
  OBVIOUS
<1>1. \A h \in Hooks : job[h].step = "idle" /\ job[h].handle = "tmp"
  BY DEF Init, IdleJob
<1>2. \A h \in Hooks : HookAlone(job[h], saved, tmp, recorded)
  BY <1>1, IdleAlone
<1> QED BY <1>1, <1>2, TranscriptConstants DEF Init, AloneInv, OneAtWork, FileAlone

LEMMA AloneInvariant == Spec => []AloneInv
  BY SyncInvariant, InitAlone, NextAlone, PTL DEF Spec

\* As long as the hooks of a session run one after the other, no message that a
\* saved state has recorded as seen is posted again, whichever of them fail and
\* however often the transcript is written anew.
THEOREM NothingIsRepeated == Spec => []NoReplay
<1>1. AloneInv => NoReplay
  BY DEF AloneInv, NoReplay
<1> QED BY <1>1, AloneInvariant, PTL

\* As long as the hooks of a session run one after the other, the state file
\* always parses, and what replaces it is the replacing hook's own state,
\* whenever a hook dies.
THEOREM SavesAreAtomic == Spec => []SaveAtomic
<1>1. AloneInv => SaveAtomic
  BY DEF AloneInv, FileAlone, HookAlone, SaveAtomic, S
<1> QED BY <1>1, AloneInvariant, PTL
=============================================================================
