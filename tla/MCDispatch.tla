----------------------------- MODULE MCDispatch -----------------------------
(***************************************************************************)
(* Instances of Dispatch for TLC.                                          *)
(***************************************************************************)
EXTENDS Dispatch, TLC

CONSTANTS m1, w1, w2, j1, j2

\* Consumer instances and job ids are interchangeable.
Symmetry == Permutations(Workers) \cup Permutations(JobIds)
=============================================================================
