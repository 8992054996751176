--------------------------- MODULE MCBridgeBroker ---------------------------
(* Instances of BridgeBroker for TLC.                                      *)
EXTENDS BridgeBroker, TLC

\* The connections of the extension are interchangeable, and so are the calls.
Symmetry == Permutations(Bridges) \cup Permutations(Calls)
=============================================================================
