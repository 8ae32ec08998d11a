------------------------------ MODULE MCUsers -------------------------------
(***************************************************************************)
(* Instances of Users for TLC.                                             *)
(***************************************************************************)
EXTENDS Users, TLC

CONSTANTS u1, u2, u3, d1, d2, t1, t2, e1, n1, n2

\* Ids, tokens and deliveries are interchangeable.
Symmetry == Permutations(UserIds) \cup Permutations(DeviceIds)
              \cup Permutations(Tokens) \cup Permutations(Handlers)
=============================================================================
