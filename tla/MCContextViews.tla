--------------------------- MODULE MCContextViews ---------------------------
(* Small instances of ContextViews for TLC. *)
EXTENDS ContextViews, TLC

\* One request at a time.
OneWriter == [b \in Branches |-> Workers]

\* The queries are interchangeable.
QuerySymmetry == Permutations(Queries)

\* Queries are of one kind.  Judgments are asked of two events; contexts depend on no
\* outcomes.
OneKind ==
  \/ /\ \A q \in Queries : query[q].step # "context"
     /\ Stored \subseteq 1..2
  \/ /\ \A q \in Queries : query[q].step \in {"new", "context"}
     /\ \A e \in Stored : events[e].outcome = "other"
     /\ lost = {}

=============================================================================
