------------------------------ MODULE MCUpgrade ------------------------------
(* Small instances of Upgrade; agents and installers are interchangeable. *)
EXTENDS Upgrade, TLC

Symmetry == Permutations(Agents) \cup Permutations(Installers)
=============================================================================
