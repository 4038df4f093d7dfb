------------------------------ MODULE MCTester ------------------------------
(* Tester for TLC: two jobs of one branch and a silent one of another. *)
EXTENDS Tester
CONSTANTS j1, j2, j3
MCBranch == [j \in Jobs |-> IF j = j3 THEN "other" ELSE "one"]
=============================================================================
