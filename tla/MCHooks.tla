------------------------------- MODULE MCHooks -------------------------------
(* The instance of OutboundHooks that TLC checks: workers are interchangeable. *)
EXTENDS OutboundHooks, TLC

Symmetry == Permutations(Workers) \cup Permutations(Endpoints)
=============================================================================
