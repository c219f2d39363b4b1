---------------------------- MODULE JobsSchedule ----------------------------
(***************************************************************************)
(* The scheduler loop of packs/jobs (schedule.go) for one kind: every node *)
(* that declares a schedule checks the kind's row of job_schedule on each  *)
(* tick, and the transaction of fire moves next_run_at and enqueues the    *)
(* job.  The ticks of several nodes interleave between SQL statements, and *)
(* a node works with the "now" it read when its tick began.                *)
(*                                                                         *)
(* Kinds do not share rows, and an error of one kind does not stop the     *)
(* loop over the others, so one kind is enough.  last_job_id is left out:  *)
(* the commit that moves next_run_at writes it and nothing here reads it.  *)
(***************************************************************************)
EXTENDS Integers, Sequences

CONSTANTS
    Nodes,
    Specs,           \* the schedules that releases of the app declare for the kind
    NextDue(_, _),   \* Schedule.Next of a spec, from a time
    MaxTime,         \* the clock stops here
    MaxUpsets,       \* bound on process starts and database errors, together
    NoSpec,          \* the spec of a node that is down, or has declared nothing yet
    NoRow,
    Nobody

\* "Next returns the first due time strictly after t", of every implementation.
ASSUME NextAssumption ==
    \A s \in Specs : \A t \in 0..MaxTime : NextDue(s, t) \in Nat /\ t < NextDue(s, t)
ASSUME BoundAssumption == MaxTime \in Nat /\ MaxUpsets \in Nat

Row == [spec : Specs, next : Nat]

ASSUME NullAssumption == NoSpec \notin Specs /\ Nobody \notin Nodes /\ NoRow \notin Row

VARIABLES
    clock,    \* time.Now()
    row,      \* the kind's row of job_schedule, as committed
    lock,     \* the node whose open transaction has updated the row
    node,     \* the scheduler loop of every node
    jobs,     \* the jobs enqueued: the due time of each, the now it was decided at,
              \* and how many changes of schedule had been written before
    changes,  \* changes of schedule written
    upsets    \* process starts and database errors so far

vars == <<clock, row, lock, node, jobs, changes, upsets>>

-----------------------------------------------------------------------------

PCs == {"idle", "select", "decide", "moved"}

\* A node's loop: what it declares, whether it has seen or written its spec, the
\* now of its tick and the row its SELECT returned.
Node == [pc : PCs, spec : Specs \cup {NoSpec}, synced : BOOLEAN,
         now : 0..MaxTime, seen : Row \cup {NoRow}]

Down == [pc |-> "idle", spec |-> NoSpec, synced |-> FALSE, now |-> 0, seen |-> NoRow]

\* The end of a tick.
Rest(n, synced) ==
    [pc |-> "idle", spec |-> node[n].spec, synced |-> synced, now |-> 0, seen |-> NoRow]

\* A tick under way.
Ticking(n, pc, synced, seen) ==
    [pc |-> pc, spec |-> node[n].spec, synced |-> synced,
     now |-> node[n].now, seen |-> seen]

Declared(n) == node[n].spec # NoSpec
Seen(n) == node[n].seen
IsDue(n) == Seen(n) # NoRow /\ Seen(n).next <= node[n].now
SameSpec(n) == Seen(n) # NoRow /\ Seen(n).spec = node[n].spec
Changed(n) == Seen(n) # NoRow /\ Seen(n).spec # node[n].spec /\ ~node[n].synced

\* Mutant of Mine: the schedule is not validated when it is declared, and the Next
\* of an invalid one is the zero time.
MineUnchecked(n) == [spec |-> node[n].spec, next |-> -1]

\* The row a node writes: its own spec, and the next due time from its now.
Mine(n) == [spec |-> node[n].spec, next |-> NextDue(node[n].spec, node[n].now)]

Init ==
    /\ clock = 0
    /\ row = NoRow
    /\ lock = Nobody
    /\ node = [n \in Nodes |-> Down]
    /\ jobs = <<>>
    /\ changes = 0
    /\ upsets = 0

Upset == upsets < MaxUpsets /\ upsets' = upsets + 1

Pass ==
    /\ clock < MaxTime
    /\ clock' = clock + 1
    /\ UNCHANGED <<row, lock, node, jobs, changes, upsets>>

\* A process of a release starts, and its OnStart declares the kind's schedule.
Declare(n) ==
    /\ ~Declared(n)
    /\ \E s \in Specs : node' = [node EXCEPT ![n] = [Down EXCEPT !.spec = s]]
    /\ Upset
    /\ UNCHANGED <<clock, row, lock, jobs, changes>>

Unlocked(n) == IF lock = n THEN Nobody ELSE lock

\* The process stops or dies; a transaction it had open rolls back.
Exit(n) ==
    /\ Declared(n)
    /\ node' = [node EXCEPT ![n] = Down]
    /\ lock' = Unlocked(n)
    /\ UNCHANGED <<clock, row, jobs, changes, upsets>>

\* The loop ticks: checkSchedules is called with time.Now().
Tick(n) ==
    /\ node[n].pc = "idle" /\ Declared(n)
    /\ node' = [node EXCEPT ![n].pc = "select", ![n].now = clock]
    /\ UNCHANGED <<clock, row, lock, jobs, changes, upsets>>

Select(n) ==
    /\ node[n].pc = "select"
    /\ node' = [node EXCEPT ![n] = Ticking(n, "decide", node[n].synced, row)]
    /\ UNCHANGED <<clock, row, lock, jobs, changes, upsets>>

\* First sight: INSERT ... ON CONFLICT DO NOTHING.  A node that loses the race is
\* not synced, and writes its spec on the next tick.
Insert(n) ==
    /\ node[n].pc = "decide" /\ Seen(n) = NoRow
    /\ row' = IF row = NoRow THEN Mine(n) ELSE row
    /\ node' = [node EXCEPT ![n] = Rest(n, IF row = NoRow THEN TRUE ELSE node[n].synced)]
    /\ UNCHANGED <<clock, lock, jobs, changes, upsets>>

\* A schedule changed in code: UPDATE ... WHERE spec = the one read.  The node is
\* synced whether the statement matched or not.  It waits for a row lock.
ChangeSpec(n) ==
    /\ node[n].pc = "decide" /\ Changed(n)
    /\ lock = Nobody
    /\ \/ /\ row.spec = Seen(n).spec
          /\ row' = Mine(n)
          /\ changes' = changes + 1
       \/ /\ row.spec # Seen(n).spec
          /\ UNCHANGED <<row, changes>>
    /\ node' = [node EXCEPT ![n] = Rest(n, TRUE)]
    /\ UNCHANGED <<clock, lock, jobs, upsets>>

\* Mutant of Advance: the UPDATE of fire without "AND next_run_at = due".
AdvanceAlways(n) ==
    /\ node[n].pc = "decide" /\ ~Changed(n) /\ IsDue(n)
    /\ lock = Nobody
    /\ lock' = n
    /\ node' = [node EXCEPT ![n] = Ticking(n, "moved", node[n].synced \/ SameSpec(n), Seen(n))]
    /\ UNCHANGED <<clock, row, jobs, changes, upsets>>

\* fire: the UPDATE of a due row.  It waits for the row lock, and matches only
\* while next_run_at is still the due time read; else another node enqueued it.
Advance(n) ==
    /\ node[n].pc = "decide" /\ ~Changed(n) /\ IsDue(n)
    /\ lock = Nobody
    /\ LET synced == node[n].synced \/ SameSpec(n) IN
       \/ /\ row.next = Seen(n).next
          /\ lock' = n
          /\ node' = [node EXCEPT ![n] = Ticking(n, "moved", synced, Seen(n))]
       \/ /\ row.next # Seen(n).next
          /\ lock' = lock
          /\ node' = [node EXCEPT ![n] = Rest(n, synced)]
    /\ UNCHANGED <<clock, row, jobs, changes, upsets>>

\* Mutant of Moved: the UPDATE of fire leaves the spec of the row alone.
MovedKeepingSpec(n) == [spec |-> row.spec, next |-> NextDue(node[n].spec, node[n].now)]

\* Mutant of Moved: the next due time of the row's spec, not of the node's own.
MovedByRow(n) == [spec |-> row.spec, next |-> NextDue(row.spec, node[n].now)]

\* What the UPDATE of fire sets.
Moved(n) == Mine(n)

\* Mutant of Commit: the transaction is not ended and the row stays locked.
CommitHolding(n) ==
    /\ node[n].pc = "moved"
    /\ row' = Moved(n)
    /\ jobs' = Append(jobs, [due |-> Seen(n).next, at |-> node[n].now, era |-> changes])
    /\ node' = [node EXCEPT ![n] = Rest(n, node[n].synced)]
    /\ UNCHANGED <<clock, lock, changes, upsets>>

\* fire: the job is inserted in the same transaction, which commits, whether or not the
\* node hears of it.
Commit(n) ==
    /\ node[n].pc = "moved"
    /\ row' = Moved(n)
    /\ lock' = Nobody
    /\ jobs' = Append(jobs, [due |-> Seen(n).next, at |-> node[n].now, era |-> changes])
    /\ node' = [node EXCEPT ![n] = Rest(n, node[n].synced)]
    /\ UNCHANGED <<clock, changes, upsets>>

\* Nothing to do: the row is not due, or its spec is one this node gave way to.
Skip(n) ==
    /\ node[n].pc = "decide" /\ Seen(n) # NoRow /\ ~Changed(n) /\ ~IsDue(n)
    /\ node' = [node EXCEPT ![n] = Rest(n, node[n].synced \/ SameSpec(n))]
    /\ UNCHANGED <<clock, row, lock, jobs, changes, upsets>>

\* A statement fails or the tick's timeout ends it: the transaction rolls back,
\* the error is logged, and the next tick starts over.
Fail(n) ==
    /\ node[n].pc # "idle"
    /\ node' = [node EXCEPT ![n] = Rest(n, node[n].synced \/ (IsDue(n) /\ SameSpec(n)))]
    /\ lock' = Unlocked(n)
    /\ Upset
    /\ UNCHANGED <<clock, row, jobs, changes>>

\* A statement of the tick takes effect and its answer is lost: the row is written, but the
\* node does not know it.  For fire this is Commit, since nothing in memory hangs on it.
AnswerLost(n) ==
    /\ node[n].pc = "decide" /\ lock = Nobody
    /\ \/ Seen(n) = NoRow /\ row = NoRow /\ UNCHANGED changes
       \/ Changed(n) /\ row.spec = Seen(n).spec /\ changes' = changes + 1
    /\ row' = Mine(n)
    /\ node' = [node EXCEPT ![n] = Rest(n, node[n].synced)]
    /\ Upset
    /\ UNCHANGED <<clock, lock, jobs>>

Step(n) ==
    \/ Tick(n)
    \/ Select(n)
    \/ Insert(n)
    \/ ChangeSpec(n)
    \/ Advance(n)
    \/ Commit(n)
    \/ Skip(n)

Next ==
    \/ Pass
    \/ \E n \in Nodes : Declare(n) \/ Exit(n) \/ Step(n) \/ Fail(n) \/ AnswerLost(n)

Spec == Init /\ [][Next]_vars

\* Time passes and every loop that runs keeps ticking; a process that exits need
\* not be started again.
FairSpec == Spec /\ WF_vars(Pass) /\ \A n \in Nodes : WF_vars(Step(n))

-----------------------------------------------------------------------------
(* Properties *)

TypeOK ==
    /\ clock \in 0..MaxTime
    /\ row \in Row \cup {NoRow}
    /\ lock \in Nodes \cup {Nobody}
    /\ node \in [Nodes -> Node]
    /\ jobs \in Seq([due : Nat, at : Nat, era : Nat])
    /\ changes \in Nat
    /\ upsets \in 0..MaxUpsets

\* Between two changes of schedule, every job is for a due time after the moment
\* the job before it was decided: however many nodes run no due time gets two jobs,
\* and a downtime that missed several gets one.
CaughtUp ==
    \A i, j \in DOMAIN jobs :
        i < j /\ jobs[i].era = jobs[j].era => jobs[i].at < jobs[j].due

\* The row's next due time is one of the schedule it names, also while nodes of
\* two releases fire it and change it.
NextIsOfSpec == row # NoRow => \E t \in 0..MaxTime : row.next = NextDue(row.spec, t)

RowDue == row # NoRow /\ row.next <= clock

\* A due time that has come gets its job, or a changed schedule, as long as a node
\* runs: no order of ticks and errors leaves the row due for ever.
DuePasses == RowDue ~> ~RowDue \/ \A n \in Nodes : ~Declared(n)

Only(s) ==
    /\ \E n \in Nodes : Declared(n)
    /\ \A n \in Nodes : Declared(n) => node[n].spec = s

\* When a deploy is over and only nodes of one release run, the row comes to name
\* their schedule, at the latest when it is next due.
DeploySettles ==
    \A s \in Specs :
        [](RowDue /\ []Only(s) => <>(row # NoRow /\ row.spec = s))

\* "Exactly one job is enqueued per due time however many nodes run", also while a
\* deploy changes the schedule: a node that began its tick before the due time and
\* writes its new spec after the time was fired makes it due again.
OneRunPerDue == \A i, j \in DOMAIN jobs : i # j => jobs[i].due # jobs[j].due
=============================================================================
