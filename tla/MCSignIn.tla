------------------------------- MODULE MCSignIn -------------------------------
(* The instance of SignIn that TLC checks: subjects, sessions and requests are  *)
(* interchangeable.                                                             *)
EXTENDS SignIn, TLC

Symmetry == Permutations(Subjects) \cup Permutations(SessionIds) \cup Permutations(Requests)
=============================================================================
