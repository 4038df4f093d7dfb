-------------------------- MODULE MCTranscriptHook --------------------------
(* Two sessions of one agent, whose hooks share the state file, and two    *)
(* hook processes at a time.                                               *)
EXTENDS TranscriptHook

Symmetry == Permutations(Procs) \cup Permutations(Sessions)
=============================================================================
