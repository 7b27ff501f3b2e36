------------------------------ MODULE MCPinmux ------------------------------
(* Configurations and pages are interchangeable.                           *)
EXTENDS Pinmux, TLC
Symmetry == Permutations(Configs) \cup Permutations(Pages)
=============================================================================
