----------------------------- MODULE BranchLog -----------------------------
(***************************************************************************)
(* What a ContextDB trajectory promises a client that is the only writer   *)
(* of its branch.  Branches are named tips over one shared, append-only    *)
(* log of events.  Recording an event makes it visible to readers of the   *)
(* whole trajectory; a tip only ever advances from an event to a recorded  *)
(* child of it; a fork starts at a recorded event.  So nothing recorded is *)
(* lost or changed, and nothing a tip has passed is taken off the branch.  *)
(***************************************************************************)

CONSTANTS EventIds, Branches, None, Main

VARIABLES
  log,   \* log[e]: the parents of the recorded event e, or None
  tip    \* tip[b]: the base and the head of branch b, or None

vars == <<log, tip>>

Init ==
  /\ log = [e \in EventIds |-> None]
  /\ tip = [b \in Branches |-> IF b = Main THEN [base |-> None, head |-> None] ELSE None]

\* A new event whose only parent is the tip of a branch.
Record(b, e) ==
  /\ log[e] = None
  /\ tip[b] # None
  /\ log' = [log EXCEPT ![e] = {tip[b].head} \ {None}]
  /\ tip' = tip

\* The tip of a branch advances to a child of the event it was at.
Advance(b, e) ==
  /\ log[e] # None
  /\ tip[b] # None
  /\ log[e] = {tip[b].head} \ {None}
  /\ tip' = [tip EXCEPT ![b].head = e]
  /\ log' = log

\* A new branch starts at a recorded event, or empty.
Fork(n, e) ==
  /\ tip[n] = None
  /\ e # None => log[e] # None
  /\ tip' = [tip EXCEPT ![n] = [base |-> e, head |-> e]]
  /\ log' = log

Next ==
  \/ \E b \in Branches, e \in EventIds : Record(b, e) \/ Advance(b, e)
  \/ \E n \in Branches, e \in EventIds \cup {None} : Fork(n, e)

Spec == Init /\ [][Next]_vars

=============================================================================
