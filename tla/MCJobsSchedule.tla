--------------------------- MODULE MCJobsSchedule ---------------------------
(* Instances of JobsSchedule for TLC: schedules are intervals. *)
EXTENDS JobsSchedule

\* Every(d): due at every multiple of d.
Every(d, t) == (t \div d) * d + d
=============================================================================
