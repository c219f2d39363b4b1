------------------------- MODULE CoreServicesProofs -------------------------
(***************************************************************************)
(* Proofs about three services a pack is built on: the scheduler loop of   *)
(* packs/jobs, the breaker of pkg/resilience and the hub of packs/realtime,*)
(* for every number of nodes, calls and connections, every set of          *)
(* schedules whose Next is later than its argument, and every limit.       *)
(***************************************************************************)
EXTENDS JobsSchedule, CircuitBreaker, RealtimeHub,
        SequenceTheorems, FiniteSetTheorems, TLAPS

-----------------------------------------------------------------------------
(* The scheduler (JobsSchedule).                                           *)

\* The row lock is held by the one node between the UPDATE and the commit of
\* fire, and the row is still what that node matched.
LockInv ==
    /\ \A n \in Nodes : node[n].pc = "moved" <=> lock = n
    /\ \A n \in Nodes : node[n].pc = "moved" =>
          /\ row # NoRow /\ IsDue(n)
          /\ row.next = Seen(n).next

\* A tick is of a node that declared a schedule, and what it read was written.
TickInv ==
    \A n \in Nodes :
        /\ node[n].pc # "idle" => Declared(n)
        /\ Seen(n) # NoRow => row # NoRow

Inv == TypeOK /\ LockInv /\ TickInv /\ NextIsOfSpec

LEMMA InitInv == Init => Inv
<1>1. Init => TypeOK
  BY BoundAssumption DEF Init, TypeOK, Node, Down, PCs
<1>2. Init => LockInv /\ TickInv /\ NextIsOfSpec
  BY NullAssumption DEF Init, LockInv, TickInv, NextIsOfSpec, Down, Seen, Declared
<1> QED BY <1>1, <1>2 DEF Inv

\* What a node writes is a row of its own schedule.
LEMMA MineIsRow ==
    ASSUME TypeOK, NEW n \in Nodes, Declared(n)
    PROVE  /\ Mine(n) \in Row /\ Mine(n) # NoRow
           /\ Mine(n).spec = node[n].spec /\ node[n].now < Mine(n).next
           /\ \E t \in 0..MaxTime : Mine(n).next = NextDue(Mine(n).spec, t)
<1>1. node[n].spec \in Specs /\ node[n].now \in 0..MaxTime
  BY DEF TypeOK, Node, Declared
<1>2. NextDue(node[n].spec, node[n].now) \in Nat /\ node[n].now < NextDue(node[n].spec, node[n].now)
  BY <1>1, NextAssumption, BoundAssumption
<1>3. Mine(n) \in Row
  BY <1>1, <1>2 DEF Mine, Row
<1>4. /\ Mine(n).spec = node[n].spec
      /\ Mine(n).next = NextDue(node[n].spec, node[n].now)
  BY DEF Mine
<1>5. \E t \in 0..MaxTime : Mine(n).next = NextDue(Mine(n).spec, t)
  BY <1>1, <1>4
<1> QED BY <1>2, <1>3, <1>4, <1>5, NullAssumption

\* A node's record after a step is one of the few that steps write.
LEMMA RestIsNode ==
    ASSUME TypeOK, NEW n \in Nodes, NEW synced \in BOOLEAN
    PROVE  Rest(n, synced) \in Node
BY BoundAssumption DEF TypeOK, Node, Rest, PCs

LEMMA SyncedIsBool ==
    ASSUME TypeOK, NEW n \in Nodes
    PROVE  node[n].synced \in BOOLEAN
BY DEF TypeOK, Node

LEMMA NextInv == Inv /\ [Next]_vars => Inv'
<1> SUFFICES ASSUME Inv, [Next]_vars PROVE Inv'
  OBVIOUS
<1> USE DEF Inv
<1>1. CASE Pass
  BY <1>1, BoundAssumption
     DEF Pass, TypeOK, LockInv, TickInv, NextIsOfSpec, Seen, IsDue, Declared
<1>2. ASSUME NEW n \in Nodes, Declare(n) PROVE Inv'
  <2>1. PICK s \in Specs : node' = [node EXCEPT ![n] = [Down EXCEPT !.spec = s]]
    BY <1>2 DEF Declare
  <2>2. /\ node' = [node EXCEPT ![n] = [pc |-> "idle", spec |-> s, synced |-> FALSE, now |-> 0, seen |-> NoRow]]
        /\ node[n].pc = "idle"
    BY <2>1, <1>2 DEF Declare, Down, TickInv
  <2>3. TypeOK'
    <3>1. [pc |-> "idle", spec |-> s, synced |-> FALSE, now |-> 0, seen |-> NoRow] \in Node
      BY BoundAssumption DEF Node, PCs
    <3>2. node' \in [Nodes -> Node]
      BY <2>2, <3>1 DEF TypeOK
    <3>3. upsets' \in 0..MaxUpsets
      BY <1>2, BoundAssumption DEF Declare, Upset, TypeOK
    <3> QED BY <1>2, <3>2, <3>3 DEF Declare, TypeOK
  <2>4. LockInv' /\ TickInv' /\ NextIsOfSpec'
    BY <1>2, <2>2, NullAssumption DEF Declare, Upset, TypeOK, LockInv, TickInv, NextIsOfSpec, Seen, IsDue, Declared
  <2> QED BY <2>3, <2>4
<1>3. ASSUME NEW n \in Nodes, Exit(n) PROVE Inv'
  <2>1. TypeOK'
    BY <1>3, BoundAssumption DEF Exit, Unlocked, TypeOK, Node, PCs, Down
  <2>2. LockInv' /\ TickInv' /\ NextIsOfSpec'
    BY <1>3, NullAssumption DEF Exit, Unlocked, Down, TypeOK, LockInv, TickInv, NextIsOfSpec, Seen, IsDue, Declared
  <2> QED BY <2>1, <2>2
<1>4. ASSUME NEW n \in Nodes, Tick(n) PROVE Inv'
  <2>1. TypeOK'
    <3>1. [node[n] EXCEPT !.pc = "select", !.now = clock] \in Node
      BY DEF TypeOK, Node, PCs
    <3>2. node' \in [Nodes -> Node]
      BY <1>4, <3>1 DEF Tick, TypeOK
    <3> QED BY <1>4, <3>2 DEF Tick, TypeOK
  <2>2. LockInv' /\ TickInv' /\ NextIsOfSpec'
    BY <1>4 DEF Tick, TypeOK, Node, LockInv, TickInv, NextIsOfSpec, Seen, IsDue, Declared
  <2> QED BY <2>1, <2>2
<1>5. ASSUME NEW n \in Nodes, Select(n) PROVE Inv'
  <2>1. TypeOK'
    <3>1. Ticking(n, "decide", node[n].synced, row) \in Node
      BY DEF Ticking, TypeOK, Node, PCs
    <3>2. node' \in [Nodes -> Node]
      BY <1>5, <3>1 DEF Select, TypeOK
    <3> QED BY <1>5, <3>2 DEF Select, TypeOK
  <2>2. LockInv' /\ TickInv' /\ NextIsOfSpec'
    BY <1>5 DEF Select, Ticking, TypeOK, Node, LockInv, TickInv, NextIsOfSpec, Seen, IsDue, Declared
  <2> QED BY <2>1, <2>2
<1>6. ASSUME NEW n \in Nodes, Insert(n) PROVE Inv'
  <2>0. Declared(n) /\ Declared(n)' = Declared(n)
    BY <1>6 DEF Insert, TickInv, Declared, Rest, TypeOK
  <2>1. /\ Mine(n) \in Row /\ Mine(n) # NoRow
        /\ \E t \in 0..MaxTime : Mine(n).next = NextDue(Mine(n).spec, t)
    BY <2>0, MineIsRow
  <2>2. PICK b \in BOOLEAN : node' = [node EXCEPT ![n] = Rest(n, b)]
    BY <1>6, SyncedIsBool DEF Insert
  <2>3. TypeOK'
    <3>1. node' \in [Nodes -> Node]
      BY <2>2, RestIsNode DEF TypeOK
    <3> QED BY <1>6, <2>1, <3>1 DEF Insert, TypeOK
  <2>4. NextIsOfSpec'
    BY <1>6, <2>1 DEF Insert, NextIsOfSpec
  <2>5. LockInv' /\ TickInv'
    BY <1>6, <2>1, <2>2 DEF Insert, Rest, TypeOK, LockInv, TickInv, Seen, IsDue, Declared
  <2> QED BY <2>3, <2>4, <2>5
<1>7. ASSUME NEW n \in Nodes, ChangeSpec(n) PROVE Inv'
  <2>0. Declared(n) /\ row # NoRow
    BY <1>7 DEF ChangeSpec, Changed, TickInv, Declared, Seen
  <2>1. /\ Mine(n) \in Row /\ Mine(n) # NoRow
        /\ \E t \in 0..MaxTime : Mine(n).next = NextDue(Mine(n).spec, t)
    BY <2>0, MineIsRow
  <2>2. node' = [node EXCEPT ![n] = Rest(n, TRUE)]
    BY <1>7 DEF ChangeSpec
  <2>3. TypeOK'
    <3>1. node' \in [Nodes -> Node]
      BY <2>2, RestIsNode DEF TypeOK
    <3>2. row' \in Row \cup {NoRow} /\ changes' \in Nat
      BY <1>7, <2>1 DEF ChangeSpec, TypeOK
    <3> QED BY <1>7, <3>1, <3>2 DEF ChangeSpec, TypeOK
  <2>4. NextIsOfSpec'
    BY <1>7, <2>1 DEF ChangeSpec, NextIsOfSpec
  <2>5. row' # NoRow
    BY <1>7, <2>0, <2>1 DEF ChangeSpec
  <2>6. \A m \in Nodes : node[m].pc # "moved"
    BY <1>7, NullAssumption DEF ChangeSpec, LockInv
  <2>7. LockInv' /\ TickInv'
    BY <1>7, <2>2, <2>5, <2>6 DEF ChangeSpec, Rest, TypeOK, LockInv, TickInv, Seen, IsDue, Declared
  <2> QED BY <2>3, <2>4, <2>7
<1>8. ASSUME NEW n \in Nodes, Advance(n) PROVE Inv'
  <2> DEFINE synced == node[n].synced \/ SameSpec(n)
  <2>0. /\ synced \in BOOLEAN /\ row # NoRow
        /\ node[n].pc = "decide" /\ IsDue(n) /\ lock = Nobody
        /\ UNCHANGED <<clock, row, jobs, changes, upsets>>
    BY <1>8, SyncedIsBool DEF Advance, SameSpec, IsDue, TickInv, Seen
  <2>6. \A m \in Nodes : node[m].pc # "moved"
    BY <2>0, NullAssumption DEF LockInv
  <2>1. CASE row.next = Seen(n).next /\ lock' = n
             /\ node' = [node EXCEPT ![n] = Ticking(n, "moved", synced, Seen(n))]
    <3>1. Ticking(n, "moved", synced, Seen(n)) \in Node
      BY <2>0 DEF Ticking, Seen, TypeOK, Node, PCs
    <3>2. TypeOK'
      BY <2>0, <2>1, <3>1 DEF TypeOK
    <3>3. LockInv' /\ TickInv' /\ NextIsOfSpec'
      BY <2>0, <2>1, <2>6, NullAssumption DEF Ticking, TypeOK, LockInv, TickInv, NextIsOfSpec, Seen, IsDue, Declared
    <3> QED BY <3>2, <3>3
  <2>2. CASE row.next # Seen(n).next /\ lock' = lock
             /\ node' = [node EXCEPT ![n] = Rest(n, synced)]
    <3>1. node' \in [Nodes -> Node]
      BY <2>0, <2>2, RestIsNode DEF TypeOK
    <3>2. TypeOK'
      BY <2>0, <2>2, <3>1 DEF TypeOK
    <3>3. LockInv' /\ TickInv' /\ NextIsOfSpec'
      BY <2>0, <2>2, <2>6, NullAssumption DEF Rest, TypeOK, LockInv, TickInv, NextIsOfSpec, Seen, IsDue, Declared
    <3> QED BY <3>2, <3>3
  <2> QED BY <1>8, <2>1, <2>2 DEF Advance
<1>9. ASSUME NEW n \in Nodes, Commit(n) PROVE Inv'
  <2>0. Declared(n) /\ row # NoRow /\ Seen(n) \in Row /\ lock = n
    BY <1>9 DEF Commit, TickInv, LockInv, Declared, Seen, IsDue, TypeOK, Node
  <2>1. /\ Mine(n) \in Row /\ Mine(n) # NoRow
        /\ \E t \in 0..MaxTime : Mine(n).next = NextDue(Mine(n).spec, t)
        /\ row' = Mine(n)
    BY <1>9, <2>0, MineIsRow DEF Commit, Moved
  <2>2. node' = [node EXCEPT ![n] = Rest(n, node[n].synced)]
    BY <1>9 DEF Commit
  <2>3. node' \in [Nodes -> Node]
    BY <2>2, RestIsNode, SyncedIsBool DEF TypeOK
  <2>4. [due |-> Seen(n).next, at |-> node[n].now, era |-> changes]
          \in [due : Nat, at : Nat, era : Nat]
    BY <2>0, BoundAssumption DEF TypeOK, Node, Row
  <2>5. jobs' \in Seq([due : Nat, at : Nat, era : Nat])
    BY <1>9, <2>4 DEF Commit, TypeOK
  <2>6. TypeOK'
    BY <1>9, <2>1, <2>3, <2>5 DEF Commit, TypeOK
  <2>7. NextIsOfSpec'
    BY <2>1 DEF NextIsOfSpec
  <2>8. LockInv' /\ TickInv'
    BY <1>9, <2>0, <2>1, <2>2, NullAssumption
       DEF Commit, Rest, TypeOK, LockInv, TickInv, Seen, IsDue, Declared
  <2> QED BY <2>6, <2>7, <2>8
<1>10. ASSUME NEW n \in Nodes, Skip(n) PROVE Inv'
  <2>1. PICK b \in BOOLEAN : node' = [node EXCEPT ![n] = Rest(n, b)]
    BY <1>10, SyncedIsBool DEF Skip, SameSpec
  <2>2. node' \in [Nodes -> Node]
    BY <2>1, RestIsNode DEF TypeOK
  <2>3. TypeOK'
    BY <1>10, <2>2 DEF Skip, TypeOK
  <2>4. LockInv' /\ TickInv' /\ NextIsOfSpec'
    BY <1>10, <2>1 DEF Skip, Rest, TypeOK, LockInv, TickInv, NextIsOfSpec, Seen, IsDue, Declared
  <2> QED BY <2>3, <2>4
<1>11. ASSUME NEW n \in Nodes, Fail(n) PROVE Inv'
  <2>1. PICK b \in BOOLEAN : node' = [node EXCEPT ![n] = Rest(n, b)]
    BY <1>11, SyncedIsBool DEF Fail, SameSpec, IsDue
  <2>2. node' \in [Nodes -> Node]
    BY <2>1, RestIsNode DEF TypeOK
  <2>3. TypeOK'
    BY <1>11, <2>2, BoundAssumption DEF Fail, Upset, Unlocked, TypeOK
  <2>4. LockInv' /\ TickInv' /\ NextIsOfSpec'
    BY <1>11, <2>1, NullAssumption
       DEF Fail, Upset, Unlocked, Rest, TypeOK, LockInv, TickInv, NextIsOfSpec, Seen, IsDue, Declared
  <2> QED BY <2>3, <2>4
<1>12. ASSUME NEW n \in Nodes, AnswerLost(n) PROVE Inv'
  <2>0. Declared(n) /\ node' = [node EXCEPT ![n] = Rest(n, node[n].synced)]
    BY <1>12 DEF AnswerLost, TickInv
  <2>1. /\ row' = Mine(n) /\ Mine(n) \in Row /\ Mine(n) # NoRow
        /\ \E t \in 0..MaxTime : Mine(n).next = NextDue(Mine(n).spec, t)
    BY <1>12, <2>0, MineIsRow DEF AnswerLost
  <2>2. TypeOK'
    <3>1. node' \in [Nodes -> Node]
      BY <2>0, RestIsNode, SyncedIsBool DEF TypeOK
    <3>2. changes' \in Nat /\ upsets' \in 0..MaxUpsets
      BY <1>12, BoundAssumption DEF AnswerLost, Upset, TypeOK
    <3> QED BY <1>12, <2>1, <3>1, <3>2 DEF AnswerLost, TypeOK
  <2>3. NextIsOfSpec'
    BY <2>1 DEF NextIsOfSpec
  <2>4. \A m \in Nodes : node[m].pc # "moved"
    BY <1>12, NullAssumption DEF AnswerLost, LockInv
  <2>5. LockInv' /\ TickInv'
    BY <1>12, <2>0, <2>1, <2>4 DEF AnswerLost, Rest, TypeOK, LockInv, TickInv, Seen, IsDue, Declared
  <2> QED BY <2>2, <2>3, <2>5
<1>13. CASE UNCHANGED vars
  BY <1>13 DEF vars, TypeOK, LockInv, TickInv, NextIsOfSpec, Seen, IsDue, Declared
<1> QED
  BY <1>1, <1>2, <1>3, <1>4, <1>5, <1>6, <1>7, <1>8, <1>9, <1>10, <1>11, <1>12, <1>13 DEF Next, Step

\* The variables always hold values of their types.
THEOREM ScheduleTypeCorrect == Spec => []TypeOK
<1>1. Spec => []Inv
  BY InitInv, NextInv, PTL DEF Spec
<1>2. Inv => TypeOK
  BY DEF Inv
<1> QED BY <1>1, <1>2, PTL

\* Whatever the releases declare, the row's next due time is one of the schedule
\* the row names.
THEOREM NextDueOfItsSpec == Spec => []NextIsOfSpec
<1>1. Spec => []Inv
  BY InitInv, NextInv, PTL DEF Spec
<1>2. Inv => NextIsOfSpec
  BY DEF Inv
<1> QED BY <1>1, <1>2, PTL

-----------------------------------------------------------------------------
(* Between two changes of schedule no due time gets two jobs. *)

\* Every job was decided at or after its due time, and one decided since the last
\* change of schedule was decided before the row's next due time.
JobsInv ==
    \A i \in DOMAIN jobs :
        /\ row # NoRow
        /\ jobs[i].due <= jobs[i].at
        /\ jobs[i].era <= changes
        /\ jobs[i].era = changes => jobs[i].at < row.next

LEMMA JobsTypes ==
    ASSUME TypeOK
    PROVE  \A i \in DOMAIN jobs : jobs[i].due \in Nat /\ jobs[i].at \in Nat /\ jobs[i].era \in Nat
<1> DEFINE S == [due : Nat, at : Nat, era : Nat]
<1>1. jobs \in Seq(S)
  BY DEF TypeOK
<1>2. \A i \in 1..Len(jobs) : jobs[i] \in S
  <2> HIDE DEF S
  <2> QED BY <1>1, ElementOfSeq
<1>3. DOMAIN jobs = 1..Len(jobs)
  <2> HIDE DEF S
  <2> QED BY <1>1
<1> QED BY <1>2, <1>3

LEMMA JobsNext ==
    ASSUME Inv, JobsInv, CaughtUp, [Next]_vars
    PROVE  JobsInv' /\ CaughtUp'
<1>0. \A i \in DOMAIN jobs : jobs[i].due \in Nat /\ jobs[i].at \in Nat /\ jobs[i].era \in Nat
  BY JobsTypes DEF Inv
<1>1. ASSUME NEW n \in Nodes, Commit(n) PROVE JobsInv' /\ CaughtUp'
  <2> DEFINE job == [due |-> Seen(n).next, at |-> node[n].now, era |-> changes]
  <2>1. /\ row # NoRow /\ IsDue(n) /\ row.next = Seen(n).next /\ Declared(n)
    BY <1>1 DEF Commit, Inv, LockInv, TickInv
  <2>2. /\ row' = Mine(n) /\ Mine(n) # NoRow /\ node[n].now < Mine(n).next
        /\ Mine(n).next \in Nat /\ changes' = changes
    BY <1>1, <2>1, MineIsRow DEF Commit, Moved, Inv, Row
  <2>3. jobs \in Seq([due : Nat, at : Nat, era : Nat]) /\ jobs' = Append(jobs, job)
    BY <1>1 DEF Commit, Inv, TypeOK
  <2>4. /\ job.due <= job.at /\ job.due = row.next /\ job.at = node[n].now
        /\ job.due \in Nat /\ job.at \in Nat /\ changes \in Nat /\ job.era = changes
    BY <2>1, BoundAssumption DEF IsDue, Inv, TypeOK, Node, Row, Seen
  <2>5. /\ DOMAIN jobs' = 1..(Len(jobs) + 1) /\ DOMAIN jobs = 1..Len(jobs) /\ Len(jobs) \in Nat
        /\ \A i \in DOMAIN jobs : jobs'[i] = jobs[i]
        /\ jobs'[Len(jobs) + 1] = job
    BY <2>3, <2>4
  <2>6. \A i \in DOMAIN jobs : jobs[i].era = changes => jobs[i].at < job.due
    BY <2>4 DEF JobsInv
  <2>7. \A i \in DOMAIN jobs : jobs[i].era = changes => jobs[i].at < row'.next
    BY <2>2, <2>4, <2>6, <1>0
  <2>8. JobsInv'
    <3> SUFFICES ASSUME NEW i \in DOMAIN jobs'
                 PROVE  /\ jobs'[i].due <= jobs'[i].at
                        /\ jobs'[i].era <= changes
                        /\ jobs'[i].era = changes => jobs'[i].at < row'.next
      BY <2>2 DEF JobsInv
    <3>1. CASE i \in DOMAIN jobs
      BY <3>1, <2>5, <2>7 DEF JobsInv
    <3>2. CASE i = Len(jobs) + 1
      BY <3>2, <2>2, <2>4, <2>5
    <3> QED BY <3>1, <3>2, <2>5
  <2>9. CaughtUp'
    <3> SUFFICES ASSUME NEW i \in DOMAIN jobs', NEW j \in DOMAIN jobs',
                        i < j, jobs'[i].era = jobs'[j].era
                 PROVE  jobs'[i].at < jobs'[j].due
      BY DEF CaughtUp
    <3>1. i \in DOMAIN jobs
      BY <2>5
    <3>2. CASE j \in DOMAIN jobs
      BY <3>1, <3>2, <2>5 DEF CaughtUp
    <3>3. CASE j = Len(jobs) + 1
      BY <3>1, <3>3, <2>4, <2>5, <2>6
    <3> QED BY <3>2, <3>3, <2>5
  <2> QED BY <2>8, <2>9
<1>2. ASSUME NEW n \in Nodes, ChangeSpec(n) \/ (AnswerLost(n) /\ Changed(n)) PROVE JobsInv' /\ CaughtUp'
  <2>1. jobs' = jobs
    BY <1>2 DEF ChangeSpec, AnswerLost
  <2>2. CASE UNCHANGED <<row, changes>>
    BY <2>1, <2>2 DEF JobsInv, CaughtUp
  <2>3. CASE row' = Mine(n) /\ changes' = changes + 1
    <3>1. Mine(n) # NoRow
      BY <1>2, MineIsRow DEF ChangeSpec, AnswerLost, Inv, TickInv
    <3>2. changes \in Nat
      BY DEF Inv, TypeOK
    <3>3. \A i \in DOMAIN jobs : jobs[i].era <= changes + 1 /\ jobs[i].era # changes + 1
      BY <1>0, <3>2 DEF JobsInv
    <3> QED BY <2>1, <2>3, <3>1, <3>3 DEF JobsInv, CaughtUp
  <2> QED BY <1>2, <2>2, <2>3 DEF ChangeSpec, AnswerLost, Changed
<1>3. ASSUME UNCHANGED <<jobs, changes>>, row' = row \/ row = NoRow PROVE JobsInv' /\ CaughtUp'
  <2>1. CASE row' = row
    BY <1>3, <2>1 DEF JobsInv, CaughtUp
  <2>2. CASE row = NoRow
    <3>1. DOMAIN jobs = {}
      BY <2>2 DEF JobsInv
    <3> QED BY <1>3, <3>1 DEF JobsInv, CaughtUp
  <2> QED BY <1>3, <2>1, <2>2
<1>4. ASSUME NEW n \in Nodes, Declare(n) \/ Exit(n) \/ Tick(n) \/ Select(n) \/ Insert(n)
                              \/ Advance(n) \/ Skip(n) \/ Fail(n) \/ (AnswerLost(n) /\ ~Changed(n))
      PROVE  UNCHANGED <<jobs, changes>> /\ (row' = row \/ row = NoRow)
  BY <1>4 DEF Declare, Exit, Tick, Select, Insert, Advance, Skip, Fail, AnswerLost
<1>5. ASSUME Pass \/ UNCHANGED vars PROVE UNCHANGED <<jobs, changes>> /\ row' = row
  BY <1>5 DEF Pass, vars
<1> QED BY <1>1, <1>2, <1>3, <1>4, <1>5 DEF Next, Step

\* Between two changes of its schedule a kind gets one job per due time, and one for
\* a downtime, however many nodes tick, in any order, with any errors and exits.
THEOREM OneJobPerDueTime == Spec => []CaughtUp
<1>1. Init => JobsInv /\ CaughtUp
  BY DEF Init, JobsInv, CaughtUp
<1>2. Spec => []Inv
  BY InitInv, NextInv, PTL DEF Spec
<1>3. Inv /\ JobsInv /\ CaughtUp /\ [Next]_vars => JobsInv' /\ CaughtUp'
  BY JobsNext
<1> QED BY <1>1, <1>2, <1>3, PTL DEF Spec

-----------------------------------------------------------------------------
(* The breaker (CircuitBreaker).                                           *)

\* In a half-open state that still has its trial to give, none is running: what
\* makes the next one the only one.
TrialKept ==
    state = "half-open" /\ (\E c \in Calls : call[c] = "trial") => trial

BreakerInv == BreakerTypeOK /\ OneTrial /\ ClosedBelow /\ TrialKept

LEMMA BreakerInitInv == BreakerInit => BreakerInv
<1>1. 0 \in 0..Threshold /\ 0 < Threshold
  BY ThresholdAssumption
<1>2. BreakerInit => BreakerTypeOK
  BY <1>1 DEF BreakerInit, BreakerTypeOK, States, Admitted
<1>3. BreakerInit => OneTrial /\ ClosedBelow /\ TrialKept
  BY <1>1 DEF BreakerInit, OneTrial, ClosedBelow, TrialKept
<1> QED BY <1>2, <1>3 DEF BreakerInv

\* The failures kept never pass the threshold.
LEMMA CountedBelow ==
    ASSUME failures \in 0..Threshold
    PROVE  Min(failures + 1, Threshold) \in 0..Threshold
BY ThresholdAssumption DEF Min

LEMMA BreakerNextInv == BreakerInv /\ [BreakerNext]_breakerVars => BreakerInv'
<1> SUFFICES ASSUME BreakerInv, [BreakerNext]_breakerVars PROVE BreakerInv'
  OBVIOUS
<1> USE DEF BreakerInv
<1>1. CASE Elapse
  BY <1>1 DEF Elapse, BreakerTypeOK, OneTrial, ClosedBelow, TrialKept
<1>2. CASE State
  BY <1>2 DEF State, Known, HalfOpens, BreakerTypeOK, OneTrial, ClosedBelow, TrialKept, States, Admitted
<1>3. ASSUME NEW c \in Calls, Admit(c) PROVE BreakerInv'
  BY <1>3 DEF Admit, BreakerTypeOK, OneTrial, ClosedBelow, TrialKept, Admitted
<1>4. ASSUME NEW c \in Calls, Try(c) PROVE BreakerInv'
  <2>1. BreakerTypeOK'
    BY <1>4 DEF Try, Known, BreakerTypeOK, States, Admitted
  <2>2. \A d \in Calls : Known[d] # "trial"
    <3>1. CASE HalfOpens
      BY <3>1 DEF Known
    <3>2. CASE state = "half-open" /\ ~trial
      BY <3>2 DEF Known, TrialKept
    <3> QED BY <1>4, <3>1, <3>2 DEF Try, MayTry
  <2>3. OneTrial'
    BY <1>4, <2>2 DEF Try, Known, OneTrial
  <2>4. ClosedBelow' /\ TrialKept'
    BY <1>4 DEF Try, ClosedBelow, TrialKept
  <2> QED BY <2>1, <2>3, <2>4
<1>5. ASSUME NEW c \in Calls, Refuse(c) PROVE BreakerInv'
  BY <1>5 DEF Refuse, breakerVars, BreakerTypeOK, OneTrial, ClosedBelow, TrialKept
<1>6. ASSUME NEW c \in Calls, Fails(c) PROVE BreakerInv'
  <2>1. BreakerTypeOK'
    BY <1>6, CountedBelow DEF Fails, BreakerTypeOK, States, Admitted
  <2>2. OneTrial' /\ TrialKept'
    BY <1>6 DEF Fails, OneTrial, TrialKept, BreakerTypeOK
  <2>3. ClosedBelow'
    <3>1. CASE Opens
      BY <1>6, <3>1 DEF Fails, ClosedBelow
    <3>2. CASE ~Opens
      BY <1>6, <3>2, ThresholdAssumption DEF Fails, Opens, Min, ClosedBelow, BreakerTypeOK
    <3> QED BY <3>1, <3>2
  <2> QED BY <2>1, <2>2, <2>3
<1>7. ASSUME NEW c \in Calls, Succeed(c) PROVE BreakerInv'
  BY <1>7, ThresholdAssumption
     DEF Succeed, BreakerTypeOK, OneTrial, ClosedBelow, TrialKept, States, Admitted
<1>8. ASSUME NEW c \in Calls, Panic(c) PROVE BreakerInv'
  BY <1>8 DEF Panic, BreakerTypeOK, OneTrial, ClosedBelow, TrialKept, Admitted
<1>9. CASE UNCHANGED breakerVars
  BY <1>9 DEF breakerVars, BreakerTypeOK, OneTrial, ClosedBelow, TrialKept
<1> QED
  BY <1>1, <1>2, <1>3, <1>4, <1>5, <1>6, <1>7, <1>8, <1>9 DEF BreakerNext, Do, Return

LEMMA BreakerInvariance == BreakerSpec => []BreakerInv
BY BreakerInitInv, BreakerNextInv, PTL DEF BreakerSpec

\* The variables always hold values of their types.
THEOREM BreakerTypeCorrect == BreakerSpec => []BreakerTypeOK
<1>1. BreakerInv => BreakerTypeOK
  BY DEF BreakerInv
<1> QED BY <1>1, BreakerInvariance, PTL

\* However many calls run at the same time, panic, or return late, a half-open
\* period has one trial.
THEOREM OneTrialPerPeriod == BreakerSpec => []OneTrial
<1>1. BreakerInv => OneTrial
  BY DEF BreakerInv
<1> QED BY <1>1, BreakerInvariance, PTL

\* A closed breaker is below its threshold.
THEOREM ClosedIsBelow == BreakerSpec => []ClosedBelow
<1>1. BreakerInv => ClosedBelow
  BY DEF BreakerInv
<1> QED BY <1>1, BreakerInvariance, PTL

-----------------------------------------------------------------------------
(* The hub (RealtimeHub).  The removals of deliver and unsubscribe go      *)
(* through client.topics, so that a dropped client is in no topic rests on *)
(* the hub never knowing a subscription the client does not; that the      *)
(* count stays in bounds rests on it being the number of open connections; *)
(* and that a queue has no gap rests on what waits being of the client's   *)
(* own topics and not newer than what was delivered.                       *)

\* What waits for a client that was not dropped is of a topic it has, and is
\* a message that was delivered; so is what was taken.
QueueInv ==
    /\ \A c \in Clients : \A i \in DOMAIN send[c] :
           /\ c \notin dropped => send[c][i].topic \in mine[c]
           /\ send[c][i].n <= sent[send[c][i].topic]
    /\ \A c \in Clients : \A t \in Topics : got[c][t] <= sent[t]

\* The inductive strengthening of the safety properties.
HubInv ==
    /\ HubTypeOK
    /\ ConnsAreOpen
    /\ HubFollowsClients
    /\ DroppedIsGone
    /\ QueueInv
    /\ NoGaps

\* One connection more or less is counted.
LEMMA CountedMoves ==
    ASSUME NEW S \in SUBSET Clients, NEW c \in Clients
    PROVE  /\ IsFiniteSet(S) /\ Cardinality(S) \in Nat
           /\ c \notin S => Cardinality(S \cup {c}) = Cardinality(S) + 1
           /\ c \in S => Cardinality(S \ {c}) = Cardinality(S) - 1 /\ Cardinality(S) > 0
<1>1. IsFiniteSet(S)
  BY ClientsAssumption, FS_Subset
<1>2. Cardinality(S) \in Nat
  BY <1>1, FS_CardinalityType
<1>3. c \notin S => Cardinality(S \cup {c}) = Cardinality(S) + 1
  BY <1>1, FS_AddElement
<1>4. c \in S => Cardinality(S \ {c}) = Cardinality(S) - 1
  BY <1>1, FS_RemoveElement
<1>5. c \in S => Cardinality(S) > 0
  BY <1>1, <1>2, FS_EmptySet
<1>6. QED
  BY <1>1, <1>2, <1>3, <1>4, <1>5

\* The messages, topics and queues are left alone by what only moves a
\* connection from one place of serve to another.
LEMMA Moves ==
    ASSUME HubInv, UNCHANGED <<topics, mine, dropped, send, asked, sent, got>>,
           writer' \in [Clients -> WriterPCs], reader' \in [Clients -> ReaderPCs],
           conns' \in 0..MaxConns, conns' = Cardinality(Counted')
    PROVE  HubInv'
  BY DEF HubInv, HubTypeOK, ConnsAreOpen, HubFollowsClients, DroppedIsGone, QueueInv, NoGaps

\* The count when c leaves: in bounds, and the number of those that stay.
LEMMA Leaves ==
    ASSUME HubInv, NEW c \in Clients, c \in Counted,
           writer' = [writer EXCEPT ![c] = "ended"], conns' = conns - 1
    PROVE  writer' \in [Clients -> WriterPCs] /\ conns' \in 0..MaxConns
           /\ conns' = Cardinality(Counted')
<1>1. writer' \in [Clients -> WriterPCs]
  BY DEF HubInv, HubTypeOK, WriterPCs
<1>2. Counted' = Counted \ {c}
  BY DEF HubInv, HubTypeOK, Counted
<1>3. Counted \in SUBSET Clients
  BY DEF Counted
<1>4. Cardinality(Counted \ {c}) = Cardinality(Counted) - 1 /\ Cardinality(Counted) > 0
  BY <1>3, CountedMoves
<1>5. conns = Cardinality(Counted) /\ conns \in 0..MaxConns
  BY DEF HubInv, HubTypeOK, ConnsAreOpen
<1>6. QED
  BY <1>1, <1>2, <1>4, <1>5, LimitAssumption

\* The count when c moves on without leaving.
LEMMA Stays ==
    ASSUME HubInv, NEW c \in Clients, c \in Counted,
           NEW pc \in {"counted", "select", "write", "panicked"},
           writer' = [writer EXCEPT ![c] = pc], conns' = conns
    PROVE  writer' \in [Clients -> WriterPCs] /\ conns' \in 0..MaxConns
           /\ conns' = Cardinality(Counted')
<1>1. writer' \in [Clients -> WriterPCs]
  BY DEF HubInv, HubTypeOK, WriterPCs
<1>2. Counted' = Counted
  BY DEF HubInv, HubTypeOK, Counted
<1>3. QED
  BY <1>1, <1>2 DEF HubInv, HubTypeOK, ConnsAreOpen

\* The end of serve takes the client out of topics and leaves the rest.
LEMMA Unsubscribed ==
    ASSUME HubInv, NEW c \in Clients, c \in Counted, unsubscribe(c)
    PROVE  HubInv'
<1>1. writer' \in [Clients -> WriterPCs] /\ conns' \in 0..MaxConns
      /\ conns' = Cardinality(Counted')
  BY Leaves DEF unsubscribe
<1>2. topics' \in [Topics -> SUBSET Clients] /\ \A t \in Topics : topics'[t] \subseteq topics[t]
  BY DEF unsubscribe, HubInv, HubTypeOK
<1>3. HubTypeOK' /\ ConnsAreOpen'
  BY <1>1, <1>2 DEF unsubscribe, HubInv, HubTypeOK, ConnsAreOpen
<1>4. HubFollowsClients' /\ DroppedIsGone'
  BY <1>2 DEF unsubscribe, HubInv, HubTypeOK, HubFollowsClients, DroppedIsGone
<1>5. QueueInv' /\ NoGaps'
  BY <1>2 DEF unsubscribe, HubInv, HubTypeOK, QueueInv, NoGaps
<1>6. QED
  BY <1>3, <1>4, <1>5 DEF HubInv

\* A subscription starts at the messages delivered so far, with nothing of the
\* topic waiting.
LEMMA Subscribed ==
    ASSUME HubInv, NEW c \in Clients, NEW wanted \in SUBSET Topics, subscribe(c, wanted),
           UNCHANGED <<dropped, send, sent>>
    PROVE  /\ topics' \in [Topics -> SUBSET Clients]
           /\ mine' \in [Clients -> SUBSET Topics]
           /\ got' \in [Clients -> [Topics -> 0..MaxMessages]]
           /\ HubFollowsClients' /\ DroppedIsGone' /\ QueueInv' /\ NoGaps'
<1>1. CASE c \in dropped
  BY <1>1 DEF subscribe, HubInv, HubTypeOK, HubFollowsClients, DroppedIsGone, QueueInv, NoGaps
<1>2. CASE c \notin dropped
  <2>1. PICK new \in Added(c, wanted) : Join(c, new)
    BY <1>2 DEF subscribe
  <2>2. new \in SUBSET Topics /\ new \cap mine[c] = {}
    BY <2>1 DEF Added
  <2>3. /\ topics' \in [Topics -> SUBSET Clients]
        /\ \A t \in Topics : topics'[t] = IF t \in new THEN topics[t] \cup {c} ELSE topics[t]
    BY <2>1, <2>2 DEF Join, HubInv, HubTypeOK
  <2>4. /\ mine' \in [Clients -> SUBSET Topics]
        /\ \A d \in Clients : mine'[d] = IF d = c THEN mine[c] \cup new ELSE mine[d]
    BY <2>1, <2>2 DEF Join, HubInv, HubTypeOK
  <2>5. /\ got' \in [Clients -> [Topics -> 0..MaxMessages]]
        /\ \A d \in Clients : \A t \in Topics :
             got'[d][t] = IF d = c /\ t \in new THEN sent[t] ELSE got[d][t]
    BY <2>1, <2>2 DEF Join, HubInv, HubTypeOK
  <2>6. HubFollowsClients'
    BY <2>2, <2>3, <2>4 DEF HubInv, HubTypeOK, HubFollowsClients
  <2>7. DroppedIsGone'
    BY <1>2, <2>3 DEF HubInv, HubTypeOK, DroppedIsGone
  <2>8. QueueInv'
    <3>1. \A d \in Clients : \A i \in DOMAIN send'[d] :
             /\ d \notin dropped' => send'[d][i].topic \in mine'[d]
             /\ send'[d][i].n <= sent'[send'[d][i].topic]
      BY <2>4 DEF HubInv, QueueInv
    <3>2. \A t \in Topics : sent[t] \in Nat
      BY DEF HubInv, HubTypeOK
    <3>3. \A d \in Clients : \A t \in Topics : got'[d][t] <= sent'[t]
      BY <2>5, <3>2 DEF HubInv, QueueInv
    <3>4. QED
      BY <3>1, <3>3 DEF QueueInv
  <2>9. NoGaps'
    <3>1. ASSUME NEW t \in Topics, NEW d \in topics'[t], NEW k \in (got'[d][t] + 1)..sent'[t]
          PROVE  \E i \in DOMAIN send'[d] : send'[d][i] = [topic |-> t, n |-> k]
      <4>1. sent[t] \in Nat /\ k \in Int /\ d \in Clients
        BY <2>3 DEF HubInv, HubTypeOK
      <4>2. ~(d = c /\ t \in new)
        BY <2>5, <4>1
      <4>3. d \in topics[t] /\ got'[d][t] = got[d][t]
        BY <2>3, <2>5, <4>1, <4>2
      <4>4. QED
        BY <4>3 DEF HubInv, NoGaps
    <3>2. ASSUME NEW d \in Clients, NEW i \in DOMAIN send'[d]
          PROVE  /\ got'[d][send'[d][i].topic] < send'[d][i].n
                 /\ \A j \in 1..(i - 1) :
                      send'[d][j].topic = send'[d][i].topic => send'[d][j].n < send'[d][i].n
      <4>1. send[d][i] \in Message
        BY DEF HubInv, HubTypeOK
      <4>2. ~(d = c /\ send[d][i].topic \in new)
        BY <1>2, <2>2 DEF HubInv, QueueInv
      <4>3. got'[d][send[d][i].topic] = got[d][send[d][i].topic]
        BY <2>5, <4>1, <4>2 DEF Message
      <4>4. QED
        BY <4>3 DEF HubInv, NoGaps
    <3>3. QED
      BY <3>1, <3>2 DEF NoGaps
  <2>10. QED
    BY <2>3, <2>4, <2>5, <2>6, <2>7, <2>8, <2>9
<1>3. QED
  BY <1>1, <1>2

\* deliver queues the message for whoever has room and takes the others out of
\* every topic they had.
LEMMA Delivered ==
    ASSUME HubInv, NEW t \in Topics, deliver(t)
    PROVE  HubInv'
<1> DEFINE msg == [topic |-> t, n |-> sent[t] + 1]
           fed == topics[t] \ Slow(t)
<1>1. /\ sent[t] \in Nat /\ sent[t] < MaxMessages
      /\ sent' \in [Topics -> 0..MaxMessages]
      /\ \A u \in Topics : sent'[u] = IF u = t THEN sent[t] + 1 ELSE sent[u]
  BY LimitAssumption DEF deliver, HubInv, HubTypeOK
<1>2. topics[t] \in SUBSET Clients /\ Slow(t) \in SUBSET Clients /\ msg \in Message
  BY <1>1 DEF HubInv, HubTypeOK, Slow, Message
<1>3. \A c \in Clients : send'[c] = IF c \in fed THEN Append(send[c], msg) ELSE send[c]
  BY <1>1 DEF deliver, HubInv, HubTypeOK
<1>4. \A c \in Clients : send[c] \in Seq(Message)
  BY DEF HubInv, HubTypeOK
<1>5. send' \in [Clients -> Seq(Message)]
  <2>1. \A c \in Clients : send'[c] \in Seq(Message)
    <3>1. ASSUME NEW c \in Clients, c \in fed PROVE send'[c] \in Seq(Message)
      <4>1. send'[c] = Append(send[c], msg) /\ send[c] \in Seq(Message)
        BY <1>3, <1>4, <3>1
      <4>2. msg \in Message
        BY <1>2
      <4> HIDE DEF msg
      <4>3. QED
        BY <4>1, <4>2
    <3>2. ASSUME NEW c \in Clients, c \notin fed PROVE send'[c] \in Seq(Message)
      BY <1>3, <1>4, <3>2
    <3>3. QED
      BY <3>1, <3>2
  <2>2. send' = [c \in Clients |-> send'[c]]
    BY DEF deliver
  <2>3. QED
    BY <2>1, <2>2
<1>6. /\ topics' \in [Topics -> SUBSET Clients]
      /\ \A u \in Topics : topics'[u] = topics[u] \ {c \in Slow(t) : u \in mine[c]}
  BY DEF deliver, HubInv, HubTypeOK
<1>7. /\ mine' \in [Clients -> SUBSET Topics]
      /\ \A c \in Clients : mine'[c] = IF c \in Slow(t) THEN {} ELSE mine[c]
  BY DEF deliver, HubInv, HubTypeOK
<1>8. dropped' = dropped \cup Slow(t) /\ got' = got /\ conns' = conns /\ writer' = writer
  BY DEF deliver
<1>9. HubTypeOK'
  BY <1>1, <1>2, <1>5, <1>6, <1>7, <1>8 DEF deliver, HubInv, HubTypeOK
<1>10. ConnsAreOpen'
  BY <1>8 DEF HubInv, ConnsAreOpen, Counted
\* Slow clients leave every topic they are in, since the hub follows them.
<1>11. \A u \in Topics : topics'[u] = topics[u] \ Slow(t)
  BY <1>2, <1>6 DEF HubInv, HubTypeOK, HubFollowsClients
<1>12. HubFollowsClients'
  BY <1>7, <1>11 DEF HubInv, HubTypeOK, HubFollowsClients
<1>13. DroppedIsGone'
  BY <1>8, <1>11 DEF HubInv, DroppedIsGone
<1>14. \A c \in Clients : \A i \in DOMAIN send'[c] :
          \/ i \in DOMAIN send[c] /\ send'[c][i] = send[c][i]
          \/ c \in fed /\ i = Len(send[c]) + 1 /\ send'[c][i] = msg
  <2>1. SUFFICES ASSUME NEW c \in Clients, NEW i \in DOMAIN send'[c], c \in fed
                 PROVE  \/ i \in DOMAIN send[c] /\ send'[c][i] = send[c][i]
                        \/ i = Len(send[c]) + 1 /\ send'[c][i] = msg
    BY <1>3
  <2>2. send'[c] = Append(send[c], msg)
    BY <1>3, <2>1
  <2>3. QED
    BY <1>2, <1>4, <2>1, <2>2
<1>15. \A c \in Clients : \A i \in DOMAIN send[c] : i \in DOMAIN send'[c] /\ send'[c][i] = send[c][i]
  <2>1. SUFFICES ASSUME NEW c \in Clients, NEW i \in DOMAIN send[c], c \in fed
                 PROVE  i \in DOMAIN send'[c] /\ send'[c][i] = send[c][i]
    BY <1>3
  <2>2. send'[c] = Append(send[c], msg)
    BY <1>3, <2>1
  <2>3. QED
    BY <1>2, <1>4, <2>1, <2>2
<1>16. \A c \in fed : Len(send[c]) + 1 \in DOMAIN send'[c] /\ send'[c][Len(send[c]) + 1] = msg
  <2>1. SUFFICES ASSUME NEW c \in fed
                 PROVE  Len(send[c]) + 1 \in DOMAIN send'[c] /\ send'[c][Len(send[c]) + 1] = msg
    OBVIOUS
  <2>2. send'[c] = Append(send[c], msg) /\ send[c] \in Seq(Message)
    BY <1>2, <1>3, <1>4
  <2>3. QED
    BY <1>2, <2>2
<1>17. \A c \in Clients : \A i \in DOMAIN send[c] :
          /\ send[c][i].topic \in Topics /\ send[c][i].n \in Nat
          /\ send[c][i].n <= sent[send[c][i].topic]
  <2>1. \A c \in Clients : \A i \in DOMAIN send[c] : send[c][i] \in Message
    BY <1>4
  <2>2. QED
    BY <2>1 DEF HubInv, QueueInv, Message
<1> HIDE DEF msg, fed
<1>18. msg.topic = t /\ msg.n = sent[t] + 1
  BY DEF msg
<1>19. QueueInv'
  <2>1. SUFFICES ASSUME NEW c \in Clients, NEW i \in DOMAIN send'[c]
                 PROVE  /\ c \notin dropped' => send'[c][i].topic \in mine'[c]
                        /\ send'[c][i].n <= sent'[send'[c][i].topic]
    <3>1. \A d \in Clients : \A u \in Topics : got[d][u] <= sent[u] /\ sent[u] \in Int /\ got[d][u] \in Int
      BY DEF HubInv, HubTypeOK, QueueInv
    <3>2. \A d \in Clients : \A u \in Topics : got'[d][u] <= sent'[u]
      BY <1>1, <1>8, <3>1
    <3>3. QED
      BY <3>2 DEF QueueInv
  <2>2. CASE i \in DOMAIN send[c] /\ send'[c][i] = send[c][i]
    <3>1. send[c][i].n <= sent[send[c][i].topic] /\ send[c][i].topic \in Topics
          /\ send[c][i].n \in Nat
      BY <1>17, <2>2
    <3>2. send'[c][i].n <= sent'[send'[c][i].topic]
      BY <1>1, <2>2, <3>1
    <3>3. c \notin dropped' => send'[c][i].topic \in mine'[c]
      BY <1>7, <1>8, <2>2 DEF HubInv, QueueInv
    <3>4. QED
      BY <3>2, <3>3
  <2>3. CASE c \in fed /\ send'[c][i] = msg
    <3>1. c \in topics[t] /\ c \notin Slow(t)
      BY <2>3 DEF fed
    <3>2. t \in mine'[c]
      BY <1>7, <3>1 DEF HubInv, HubFollowsClients
    <3>3. QED
      BY <1>1, <1>18, <2>3, <3>2
  <2>4. QED
    BY <1>14, <2>1, <2>2, <2>3
<1>20. NoGaps'
  <2>1. ASSUME NEW u \in Topics, NEW c \in topics'[u], NEW k \in (got'[c][u] + 1)..sent'[u]
        PROVE  \E i \in DOMAIN send'[c] : send'[c][i] = [topic |-> u, n |-> k]
    <3>1. c \in Clients /\ c \in topics[u] /\ c \notin Slow(t)
      BY <1>6, <1>11
    <3>2. CASE k \in (got[c][u] + 1)..sent[u]
      <4>1. PICK i \in DOMAIN send[c] : send[c][i] = [topic |-> u, n |-> k]
        BY <3>1, <3>2 DEF HubInv, NoGaps
      <4>2. QED
        BY <1>15, <3>1, <4>1
    <3>3. CASE k \notin (got[c][u] + 1)..sent[u]
      <4>1. got[c][u] \in Int /\ sent[u] \in Int
        BY <3>1 DEF HubInv, HubTypeOK
      <4>2. u = t /\ k = sent[t] + 1
        BY <1>1, <1>8, <3>3, <4>1
      <4>3. c \in fed
        BY <3>1, <4>2 DEF fed
      <4>4. msg = [topic |-> u, n |-> k]
        BY <4>2 DEF msg
      <4>5. QED
        BY <1>16, <4>3, <4>4
    <3>4. QED
      BY <3>2, <3>3
  <2>2. ASSUME NEW c \in Clients, NEW i \in DOMAIN send'[c]
        PROVE  /\ got'[c][send'[c][i].topic] < send'[c][i].n
               /\ \A j \in 1..(i - 1) :
                    send'[c][j].topic = send'[c][i].topic => send'[c][j].n < send'[c][i].n
    <3>1. DOMAIN send[c] = 1..Len(send[c]) /\ Len(send[c]) \in Nat
      BY <1>4
    <3>2. CASE i \in DOMAIN send[c] /\ send'[c][i] = send[c][i]
      <4>1. \A j \in 1..(i - 1) : j \in DOMAIN send[c]
        BY <3>1, <3>2
      <4>2. \A j \in 1..(i - 1) : send'[c][j] = send[c][j]
        BY <1>15, <4>1
      <4>3. QED
        BY <1>8, <3>2, <4>2 DEF HubInv, NoGaps
    <3>3. CASE c \in fed /\ i = Len(send[c]) + 1 /\ send'[c][i] = msg
      <4>1. \A j \in 1..(i - 1) : j \in DOMAIN send[c]
        BY <3>1, <3>3
      <4>2. ASSUME NEW j \in 1..(i - 1), send'[c][j].topic = t
            PROVE  send'[c][j].n < sent[t] + 1
        <5>1. send'[c][j] = send[c][j] /\ j \in DOMAIN send[c]
          BY <1>15, <4>1
        <5>2. send[c][j].n <= sent[t] /\ send[c][j].n \in Nat
          BY <1>17, <4>2, <5>1
        <5>3. QED
          BY <1>1, <5>1, <5>2
      <4>3. got[c][t] \in 0..MaxMessages /\ got[c][t] < sent[t] + 1
        <5>1. got[c][t] \in Nat /\ got[c][t] \in 0..MaxMessages
          BY LimitAssumption DEF HubInv, HubTypeOK
        <5>2. got[c][t] <= sent[t]
          BY <3>3 DEF HubInv, QueueInv
        <5>3. QED
          BY <1>1, <5>1, <5>2
      <4>4. QED
        BY <1>8, <1>18, <3>3, <4>2, <4>3
    <3>4. QED
      BY <1>14, <3>2, <3>3
  <2>3. QED
    BY <2>1, <2>2 DEF NoGaps
<1>21. QED
  BY <1>9, <1>10, <1>12, <1>13, <1>19, <1>20 DEF HubInv

\* Taking the first message leaves the rest in order, behind it.
LEMMA Taken ==
    ASSUME HubInv, NEW c \in Clients, Take(c)
    PROVE  HubInv'
<1> DEFINE m == Head(send[c])
<1>1. /\ send[c] \in Seq(Message) /\ send[c] # <<>> /\ m = send[c][1]
      /\ Len(send[c]) \in Nat \ {0} /\ DOMAIN send[c] = 1..Len(send[c])
  BY DEF Take, HubInv, HubTypeOK
<1>2. m \in Message /\ m.topic \in Topics /\ m.n \in Nat
  <2>1. m \in Message
    BY <1>1
  <2>2. QED
    BY <2>1 DEF Message
<1>3. m.n \in 0..MaxMessages /\ m.n <= sent[m.topic]
  <2>1. 1 \in DOMAIN send[c]
    BY <1>1
  <2>2. send[c][1].n <= sent[send[c][1].topic]
    BY <2>1 DEF HubInv, QueueInv
  <2>3. sent[m.topic] \in 0..MaxMessages
    BY <1>2 DEF HubInv, HubTypeOK
  <2> HIDE DEF m
  <2>4. QED
    BY <1>1, <1>2, <2>2, <2>3, LimitAssumption
<1>4. /\ send' \in [Clients -> Seq(Message)] /\ send'[c] = Tail(send[c])
      /\ \A d \in Clients : d # c => send'[d] = send[d]
  <2>1. Tail(send[c]) \in Seq(Message)
    BY <1>1
  <2>2. QED
    BY <2>1 DEF Take, HubInv, HubTypeOK
<1>5. \A i \in DOMAIN send'[c] : i + 1 \in DOMAIN send[c] /\ send'[c][i] = send[c][i + 1] /\ i \in Nat \ {0}
  BY <1>1, <1>4
<1>6. \A i \in DOMAIN send[c] : i # 1 => i - 1 \in DOMAIN send'[c] /\ send'[c][i - 1] = send[c][i]
  BY <1>1, <1>4
<1> HIDE DEF m
<1>7. /\ got' \in [Clients -> [Topics -> 0..MaxMessages]]
      /\ \A d \in Clients : \A u \in Topics :
            got'[d][u] = IF d = c /\ u = m.topic THEN m.n ELSE got[d][u]
  <2>1. got' = [got EXCEPT ![c] = [got[c] EXCEPT ![m.topic] = m.n]]
    BY DEF Take, m
  <2>2. [got[c] EXCEPT ![m.topic] = m.n] \in [Topics -> 0..MaxMessages]
    BY <1>3 DEF HubInv, HubTypeOK
  <2>3. QED
    BY <1>2, <2>1, <2>2 DEF HubInv, HubTypeOK
<1>8. UNCHANGED <<topics, mine, dropped, conns, reader, asked, sent>>
  BY DEF Take
<1>9. c \in Counted
  BY DEF Take, Counted
<1>10. writer' \in [Clients -> WriterPCs] /\ conns' \in 0..MaxConns /\ conns' = Cardinality(Counted')
  BY <1>9, Stays DEF Take
<1>11. HubTypeOK' /\ ConnsAreOpen'
  BY <1>4, <1>7, <1>8, <1>10 DEF HubInv, HubTypeOK, ConnsAreOpen
<1>12. HubFollowsClients' /\ DroppedIsGone'
  BY <1>8 DEF HubInv, HubFollowsClients, DroppedIsGone
<1>13. QueueInv'
  <2>1. ASSUME NEW d \in Clients, NEW i \in DOMAIN send'[d]
        PROVE  /\ d \notin dropped' => send'[d][i].topic \in mine'[d]
               /\ send'[d][i].n <= sent'[send'[d][i].topic]
    <3>1. PICK j \in DOMAIN send[d] : send'[d][i] = send[d][j]
      BY <1>4, <1>5
    <3>2. QED
      BY <1>8, <3>1 DEF HubInv, QueueInv
  <2>2. \A d \in Clients : \A u \in Topics : got'[d][u] <= sent'[u]
    BY <1>3, <1>7, <1>8 DEF HubInv, QueueInv
  <2>3. QED
    BY <2>1, <2>2 DEF QueueInv
<1>14. NoGaps'
  <2>1. ASSUME NEW u \in Topics, NEW d \in topics'[u], NEW k \in (got'[d][u] + 1)..sent'[u]
        PROVE  \E i \in DOMAIN send'[d] : send'[d][i] = [topic |-> u, n |-> k]
    <3>1. d \in topics[u] /\ d \in Clients /\ sent' = sent /\ sent[u] \in Nat /\ got[d][u] \in Nat
      BY <1>8 DEF HubInv, HubTypeOK
    <3>2. k \in (got[d][u] + 1)..sent[u] /\ ~(d = c /\ u = m.topic /\ k = m.n)
      <4>1. CASE d = c /\ u = m.topic
        <5>1. got[c][m.topic] < m.n
          BY <1>1 DEF HubInv, NoGaps, m
        <5>2. QED
          BY <1>2, <1>7, <3>1, <4>1, <5>1
      <4>2. CASE ~(d = c /\ u = m.topic)
        BY <1>7, <3>1, <4>2
      <4>3. QED
        BY <4>1, <4>2
    <3>3. PICK i \in DOMAIN send[d] : send[d][i] = [topic |-> u, n |-> k]
      BY <3>1, <3>2 DEF HubInv, NoGaps
    <3>4. CASE d = c
      <4>1. i # 1
        BY <1>1, <3>2, <3>3, <3>4 DEF m
      <4>2. QED
        BY <1>6, <3>3, <3>4, <4>1
    <3>5. CASE d # c
      BY <1>4, <3>1, <3>3, <3>5
    <3>6. QED
      BY <3>4, <3>5
  <2>2. ASSUME NEW d \in Clients, NEW i \in DOMAIN send'[d]
        PROVE  /\ got'[d][send'[d][i].topic] < send'[d][i].n
               /\ \A j \in 1..(i - 1) :
                    send'[d][j].topic = send'[d][i].topic => send'[d][j].n < send'[d][i].n
    <3>1. CASE d = c
      <4>1. /\ i + 1 \in DOMAIN send[c] /\ send'[c][i] = send[c][i + 1] /\ i \in Nat \ {0}
            /\ DOMAIN send'[c] = 1..Len(send'[c])
        <5>1. send'[c] \in Seq(Message)
          BY <1>4
        <5>2. DOMAIN send'[c] = 1..Len(send'[c])
          BY <5>1
        <5>3. QED
          BY <1>5, <3>1, <5>2
      <4>2. send[c][i + 1].topic \in Topics /\ send[c][i + 1] \in Message
        <5>1. send[c][i + 1] \in Message
          BY <1>1, <4>1
        <5>2. QED
          BY <5>1 DEF Message
      <4>3. got'[c][send'[c][i].topic] < send'[c][i].n
        <5>1. CASE send[c][i + 1].topic = m.topic
          <6>1. m.n < send[c][i + 1].n
            BY <1>1, <4>1, <5>1 DEF HubInv, NoGaps, m
          <6>2. QED
            BY <1>7, <4>1, <4>2, <5>1, <6>1
        <5>2. CASE send[c][i + 1].topic # m.topic
          BY <1>7, <4>1, <4>2, <5>2 DEF HubInv, NoGaps
        <5>3. QED
          BY <5>1, <5>2
      <4>4. ASSUME NEW j \in 1..(i - 1), send'[c][j].topic = send'[c][i].topic
            PROVE  send'[c][j].n < send'[c][i].n
        <5>1. j \in DOMAIN send'[c] /\ j + 1 \in 1..((i + 1) - 1)
          BY <3>1, <4>1
        <5>2. send'[c][j] = send[c][j + 1]
          BY <1>5, <5>1
        <5>3. QED
          BY <4>1, <4>4, <5>1, <5>2 DEF HubInv, NoGaps
      <4>5. QED
        BY <3>1, <4>3, <4>4
    <3>2. CASE d # c
      <4>1. send'[d] = send[d]
        BY <1>4, <3>2
      <4>2. send[d][i].topic \in Topics
        <5>1. send[d][i] \in Message
          BY <4>1 DEF HubInv, HubTypeOK
        <5>2. QED
          BY <5>1 DEF Message
      <4>3. QED
        BY <1>7, <3>2, <4>1, <4>2 DEF HubInv, NoGaps
    <3>3. QED
      BY <3>1, <3>2
  <2>3. QED
    BY <2>1, <2>2 DEF NoGaps
<1>15. QED
  BY <1>11, <1>12, <1>13, <1>14 DEF HubInv

\* The strengthening is inductive.
LEMMA Inductive == HubInv /\ [HubNext]_hubVars => HubInv'
<1> SUFFICES ASSUME HubInv, [HubNext]_hubVars PROVE HubInv'
  OBVIOUS
<1>1. ASSUME NEW t \in Topics, deliver(t) PROVE HubInv'
  BY <1>1, Delivered
<1>2. ASSUME NEW c \in Clients, Connect(c) PROVE HubInv'
  <2>1. writer[c] = "new" /\ c \notin Counted /\ Counted \in SUBSET Clients
    BY <1>2 DEF Connect, Counted
  <2>2. writer' \in [Clients -> WriterPCs]
    BY <1>2 DEF Connect, HubInv, HubTypeOK, WriterPCs
  <2>3. CASE conns >= MaxConns
    <3>1. Counted' = Counted
      BY <1>2, <2>1, <2>3 DEF Connect, HubInv, HubTypeOK, Counted
    <3>2. QED
      BY <1>2, <2>2, <2>3, <3>1, Moves DEF Connect, HubInv, HubTypeOK, ConnsAreOpen
  <2>4. CASE ~(conns >= MaxConns)
    <3>1. Counted' = Counted \cup {c}
      BY <1>2, <2>1, <2>4 DEF Connect, HubInv, HubTypeOK, Counted
    <3>2. Cardinality(Counted') = conns + 1
      BY <2>1, <3>1, CountedMoves DEF HubInv, ConnsAreOpen
    <3>3. conns' = conns + 1 /\ conns' \in 0..MaxConns
      BY <1>2, <2>4, LimitAssumption DEF Connect, HubInv, HubTypeOK
    <3>4. QED
      BY <1>2, <2>2, <3>2, <3>3, Moves DEF Connect, HubInv, HubTypeOK
  <2>5. QED
    BY <2>3, <2>4
<1>3. ASSUME NEW c \in Clients, AcceptFails(c) PROVE HubInv'
  <2>1. c \in Counted
    BY <1>3 DEF AcceptFails, Counted
  <2>2. QED
    BY <1>3, <2>1, Leaves, Moves DEF AcceptFails, HubInv, HubTypeOK
<1>4. ASSUME NEW c \in Clients, Accept(c) PROVE HubInv'
  <2>1. c \in Counted
    BY <1>4 DEF Accept, Counted
  <2>2. writer' \in [Clients -> WriterPCs] /\ conns' \in 0..MaxConns /\ conns' = Cardinality(Counted')
    BY <1>4, <2>1, Stays DEF Accept
  <2>3. PICK wanted \in SUBSET Topics : subscribe(c, wanted)
    BY <1>4 DEF Accept
  <2>4. UNCHANGED <<dropped, send, sent>>
    BY <1>4 DEF Accept
  <2>5. /\ topics' \in [Topics -> SUBSET Clients] /\ mine' \in [Clients -> SUBSET Topics]
        /\ got' \in [Clients -> [Topics -> 0..MaxMessages]]
        /\ HubFollowsClients' /\ DroppedIsGone' /\ QueueInv' /\ NoGaps'
    BY <2>3, <2>4, Subscribed
  <2>6. HubTypeOK'
    BY <1>4, <2>2, <2>5 DEF Accept, HubInv, HubTypeOK, ReaderPCs
  <2>7. QED
    BY <2>2, <2>5, <2>6 DEF HubInv, ConnsAreOpen
<1>5. ASSUME NEW c \in Clients, AuthorizePanics(c) PROVE HubInv'
  <2>1. c \in Counted
    BY <1>5 DEF AuthorizePanics, Counted
  <2>2. QED
    BY <1>5, <2>1, Stays, Moves DEF AuthorizePanics, HubInv, HubTypeOK
<1>6. ASSUME NEW c \in Clients, Take(c) PROVE HubInv'
  BY <1>6, Taken
<1>7. ASSUME NEW c \in Clients, Written(c) PROVE HubInv'
  <2>1. c \in Counted
    BY <1>7 DEF Written, Counted
  <2>2. QED
    BY <1>7, <2>1, Stays, Moves DEF Written, HubInv, HubTypeOK
<1>8. ASSUME NEW c \in Clients, WriteFails(c) \/ SeesClosed(c) \/ SeesReadError(c) \/ SeesDone(c)
      PROVE HubInv'
  <2>1. c \in Counted /\ unsubscribe(c)
    BY <1>8 DEF WriteFails, SeesClosed, SeesReadError, SeesDone, Counted
  <2>2. QED
    BY <2>1, Unsubscribed
<1>9. ASSUME NEW c \in Clients, Read(c) PROVE HubInv'
  <2>1. asked' \in [Clients -> SUBSET Topics] /\ reader' \in [Clients -> ReaderPCs]
    BY <1>9 DEF Read, HubInv, HubTypeOK, ReaderPCs
  <2>2. QED
    BY <1>9, <2>1 DEF Read, HubInv, HubTypeOK, ConnsAreOpen, Counted, HubFollowsClients, DroppedIsGone, QueueInv, NoGaps
<1>10. ASSUME NEW c \in Clients, SubscribeMore(c) PROVE HubInv'
  <2>1. asked[c] \in SUBSET Topics /\ subscribe(c, asked[c]) /\ UNCHANGED <<dropped, send, sent>>
    BY <1>10 DEF SubscribeMore, HubInv, HubTypeOK
  <2>2. /\ topics' \in [Topics -> SUBSET Clients] /\ mine' \in [Clients -> SUBSET Topics]
        /\ got' \in [Clients -> [Topics -> 0..MaxMessages]]
        /\ HubFollowsClients' /\ DroppedIsGone' /\ QueueInv' /\ NoGaps'
    BY <2>1, Subscribed
  <2>3. asked' \in [Clients -> SUBSET Topics] /\ reader' \in [Clients -> ReaderPCs]
    BY <1>10 DEF SubscribeMore, HubInv, HubTypeOK, ReaderPCs
  <2>4. HubTypeOK' /\ ConnsAreOpen'
    BY <1>10, <2>2, <2>3 DEF SubscribeMore, HubInv, HubTypeOK, ConnsAreOpen, Counted
  <2>5. QED
    BY <2>2, <2>4 DEF HubInv
<1>11. ASSUME NEW c \in Clients, ReadFails(c) PROVE HubInv'
  <2>1. reader' \in [Clients -> ReaderPCs] /\ writer' = writer /\ conns' = conns
    BY <1>11 DEF ReadFails, HubInv, HubTypeOK, ReaderPCs
  <2>2. QED
    BY <1>11, <2>1, Moves DEF ReadFails, HubInv, HubTypeOK, ConnsAreOpen, Counted
<1>12. CASE UNCHANGED hubVars
  BY <1>12 DEF hubVars, HubInv, HubTypeOK, ConnsAreOpen, Counted, HubFollowsClients, DroppedIsGone, QueueInv, NoGaps
<1>13. QED
  BY <1>1, <1>2, <1>3, <1>4, <1>5, <1>6, <1>7, <1>8, <1>9, <1>10, <1>11, <1>12 DEF HubNext, Serving

LEMMA Initial == HubInit => HubInv
<1> SUFFICES ASSUME HubInit PROVE HubInv
  OBVIOUS
<1>1. HubTypeOK
  <2>1. <<>> \in Seq(Message)
    OBVIOUS
  <2>2. QED
    BY <2>1, LimitAssumption DEF HubInit, HubTypeOK, WriterPCs, ReaderPCs
<1>2. ConnsAreOpen
  <2>1. Counted = {}
    BY DEF HubInit, Counted
  <2>2. QED
    BY <2>1, FS_EmptySet DEF HubInit, ConnsAreOpen
<1>3. HubFollowsClients /\ DroppedIsGone /\ QueueInv /\ NoGaps
  BY DEF HubInit, HubFollowsClients, DroppedIsGone, QueueInv, NoGaps
<1>4. QED
  BY <1>1, <1>2, <1>3 DEF HubInv

\* The strengthening holds of every reachable state.
THEOREM HubInvariant == HubSpec => []HubInv
BY Initial, Inductive, PTL DEF HubSpec

\* Every variable keeps its type; conns stays within MaxConns (serve's check).
THEOREM HubTypeCorrect == HubSpec => []HubTypeOK
<1>1. HubInv => HubTypeOK
  BY DEF HubInv
<1>2. QED
  BY <1>1, HubInvariant, PTL

\* deliver never sends on a channel it closed, the hub has no subscription its client does
\* not know of, the count that admits connections is the number of open ones, and a
\* subscriber's stream has no gap and no repeat.
THEOREM HubKeeps == HubSpec => []HubKept
<1>1. HubInv => HubKept
  BY DEF HubInv, HubKept
<1>2. QED
  BY <1>1, HubInvariant, PTL
=============================================================================
