------------------------------- MODULE MCPush -------------------------------
(***************************************************************************)
(* Instances of Push for TLC.                                              *)
(***************************************************************************)
EXTENDS Push, TLC

CONSTANTS f1, a1, p1, w1, w2

\* Consumer instances are interchangeable.
Symmetry == Permutations(Workers)
=============================================================================
