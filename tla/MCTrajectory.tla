---------------------------- MODULE MCTrajectory ----------------------------
(* Small instances of VersionedTrajectory for TLC. *)
EXTENDS VersionedTrajectory, TLC

CONSTANTS w1, w2, main, fix

\* Ids are interchangeable; so are the requests, when any may write any branch.
EventSymmetry == Permutations(EventIds)
FullSymmetry  == EventSymmetry \cup Permutations(Workers)

\* Every request may write every branch.
AnyWriter == [b \in {main, fix} |-> {w1, w2}]

\* One client per branch.
OneWriter == [b \in {main, fix} |-> IF b = main THEN {w1} ELSE {w2}]

\* The audited operations run every step of the plain ones.
AuditedOps == {"append", "version_snapshot", "version_branch", "version_rollback"}

\* A plain branch creation or rollback is an audited one that dies after its put.
OwnedOps == AuditedOps \cup {"snapshot"}

=============================================================================
