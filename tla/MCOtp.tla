-------------------------------- MODULE MCOtp --------------------------------
(***************************************************************************)
(* Instances of Otp for TLC.                                               *)
(***************************************************************************)
EXTENDS Otp, TLC

CONSTANTS r1, r2, login, signup, h1, h2, h3

\* Validation requests are interchangeable.
Symmetry == Permutations(Handlers)
=============================================================================
