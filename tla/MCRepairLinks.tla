--------------------------- MODULE MCRepairLinks ---------------------------
(* Small instances of RepairLinks for TLC. *)
EXTENDS RepairLinks, TLC

CONSTANTS w1, w2, main, fix, back

\* One client per branch: one has the branch the trajectory starts with, the other
\* the repair branches.
OneWriter == [b \in {main, fix, back} |-> IF b = main THEN {w1} ELSE {w2}]

\* The repair branches are interchangeable.
BranchSymmetry == Permutations({fix, back})

=============================================================================
