-------------------------- MODULE MCTranscriptSync --------------------------
(* Small instances of TranscriptSync for TLC. *)
EXTENDS TranscriptSync, TLC

\* The hooks, and the messages, are interchangeable.
HookSymmetry == Permutations(Hooks) \cup Permutations(Messages)

=============================================================================
