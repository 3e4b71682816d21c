--------------------------- MODULE MCHookSession ---------------------------
(* Small instances of HookSession for TLC. *)
EXTENDS HookSession, TLC

\* All ids are interchangeable.
IdSymmetry == Permutations(CallIds) \cup Permutations(EventIds) \cup
              Permutations(Trajs) \cup Permutations(Snaps)

\* The last event id is for histories of one native call, the redelivered ones.
Unused(c) == native[c] = [state |-> "new", call |-> None, status |-> "ok",
                          mutating |-> FALSE, lost |-> FALSE]

LastIdForOneCall == Stored # EventIds \/ \E c \in CallIds : Unused(c)

=============================================================================
