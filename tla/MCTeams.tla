-------------------------------- MODULE MCTeams --------------------------------
(* The instance of Teams that TLC checks: owners, managers who may do all but   *)
(* delete; subjects are interchangeable, and so are requests.                   *)
EXTENDS Teams, TLC

CONSTANT manager

MCGrants == [r \in RoleNames |->
    IF r = manager THEN {"invite", "manage"} ELSE Perms]

Symmetry == Permutations(Subjects) \cup Permutations(Requests)
=============================================================================
