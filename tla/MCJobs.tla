------------------------------- MODULE MCJobs -------------------------------
(* Instances of Jobs for TLC: one worker on each of two nodes. *)
EXTENDS Jobs, TLC

CONSTANTS n1, n2, w1, w2, j1, j2, j3, sync, mail, k1

TwoHomes == w1 :> n1 @@ w2 :> n2
OneHome == w1 :> n1

\* Two jobs of a kind with Concurrency(1).
SyncKinds == j1 :> sync @@ j2 :> sync
OneSync == j1 :> sync
NoKeys == [j \in JobIds |-> NoKey]
OneAtATime == [k \in Kinds |-> IF k = sync THEN 1 ELSE 0]
AllKinds == [n \in Nodes |-> Kinds]

\* Jobs of one key, in a free kind.
MailKinds == [j \in JobIds |-> mail]
SameKey == [j \in JobIds |-> k1]
Uncapped == [k \in Kinds |-> 0]
=============================================================================
