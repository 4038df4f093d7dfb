----------------------------- MODULE MCFailedLog -----------------------------
(* FailedLog for TLC: a trace that is split in two, one that cannot be split *)
(* and is dropped, one of a hook that takes no flock.                        *)
EXTENDS FailedLog
CONSTANTS big, broken, stray
MCPieces == [t \in Traces |-> CASE t = big -> 2 [] t = broken -> 0 [] OTHER -> 1]
=============================================================================
