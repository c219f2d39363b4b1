-------------------------------- MODULE Jobs --------------------------------
(***************************************************************************)
(* The queue of packs/jobs: the rows of the job table, the workers of      *)
(* every node that claim and run them (runOne, claim), and the lifecycle   *)
(* of a node (Run, Stop, a crash).  One action is one SQL statement, one   *)
(* commit, or one return of a handler, which is where two nodes interleave.*)
(*                                                                         *)
(* Time is abstract.  run_at is the flag "due" (run_at <= now()), raised   *)
(* by ComesDue; locked_at is a stamp no live claim of the same row has,    *)
(* and the flag "stale" says that it is more than JOBS_STALE ago.  The     *)
(* ORDER BY run_at of a claim is left open: SKIP LOCKED makes it a         *)
(* preference, and no property here is about it.                           *)
(***************************************************************************)
EXTENDS Integers, FiniteSets

CONSTANTS
    Nodes,        \* processes that share the job table
    Workers,      \* worker goroutines of all nodes (JOBS_WORKERS each)
    Home,         \* Home[w]: the node of worker w
    JobIds,       \* ids of rows that may ever be inserted
    Kinds,        \* job kinds
    KindOf,       \* KindOf[j]: the kind row j is inserted with
    KeyOf,        \* KeyOf[j]: the Unique key j is enqueued with, or NoKey
    NoKey,
    Cap,          \* Cap[k]: Concurrency of the kind on every node, 0 for none
    Handles,      \* Handles[n]: the kinds node n registered a handler for
    MaxAttempts,  \* max_attempts of every row
    Callers,      \* goroutines that call Enqueue with Unique
    Stamps,       \* values of locked_at
    NoStamp,      \* locked_at IS NULL
    Nobody,
    NoJob,
    MaxUpsets     \* bound on crashes, stops, database errors, overlong runs and Retry

ASSUME HomeAssumption == Home \in [Workers -> Nodes]
ASSUME JobAssumption ==
    /\ IsFiniteSet(JobIds)
    /\ KindOf \in [JobIds -> Kinds]
    /\ NoJob \notin JobIds
ASSUME CapAssumption == Cap \in [Kinds -> Nat]
ASSUME HandlesAssumption == Handles \in [Nodes -> SUBSET Kinds]
ASSUME BudgetAssumption == MaxAttempts \in Nat /\ MaxUpsets \in Nat
ASSUME NullAssumption ==
    /\ Nobody \notin Workers
    /\ NoStamp \notin Stamps

VARIABLES
    row,      \* the job table
    lock,     \* lock[k]: the worker whose transaction holds k's advisory lock
    wk,       \* the workers
    phase,    \* how far each node is in its life
    claimed,  \* q.claimed of each node: the claim it has of each job
    snap,     \* snap[n]: the claims Stop has still to release
    call,     \* the calls of Enqueue with a Unique key
    upsets    \* how many of the bounded disturbances have happened

vars == <<row, lock, wk, phase, claimed, snap, call, upsets>>

-----------------------------------------------------------------------------

RowStates == {"none", "draft", "pending", "running", "done", "failed"}
Live == {"draft", "pending", "running"}

\* A row of the job table.  "none" is no row yet, "draft" a row inserted by a
\* transaction that has not committed.
Row == [state : RowStates, due : BOOLEAN, attempts : Nat,
        lockedAt : Stamps \cup {NoStamp}, stale : BOOLEAN, keyed : BOOLEAN]

NoRow == [state |-> "none", due |-> FALSE, attempts |-> 0,
          lockedAt |-> NoStamp, stale |-> FALSE, keyed |-> FALSE]

WorkerPCs == {"off", "idle", "claim", "locking", "locked", "taken", "run", "write", "leave"}
Outcomes == {"none", "done", "release", "failed", "retry"}

\* What runOne holds in its local variables.
WorkerState == [pc : WorkerPCs, job : JobIds \cup {NoJob},
                lockedAt : Stamps \cup {NoStamp}, attempts : Nat,
                keyed : BOOLEAN, outcome : Outcomes, tries : SUBSET Kinds]

At(pc) == [pc |-> pc, job |-> NoJob, lockedAt |-> NoStamp, attempts |-> 0,
           keyed |-> FALSE, outcome |-> "none", tries |-> {}]

Phases == {"down", "up", "draining", "cancelled", "releasing", "stopped", "aborted"}

Topics == {<<KindOf[j], KeyOf[j]>> : j \in {i \in JobIds : KeyOf[i] # NoKey}}
Topic(j) == <<KindOf[j], KeyOf[j]>>
NoTopic == <<>>

NoClaims == [j \in JobIds |-> NoStamp]

NoCall == [pc |-> "idle", topic |-> NoTopic, tx |-> FALSE, job |-> NoJob, tries |-> 0]

Limited == {k \in Kinds : Cap[k] > 0}
FreeKinds(w) == Handles[Home[w]] \ Limited
LimitedKinds(w) == Handles[Home[w]] \cap Limited

Running(k) == {j \in JobIds : row[j].state = "running" /\ KindOf[j] = k}
Due(k) == {j \in JobIds : row[j].state = "pending" /\ row[j].due /\ KindOf[j] = k}

\* Rows locked by a claim that has not committed (FOR UPDATE SKIP LOCKED).
Taken == {wk[w].job : w \in {v \in Workers : wk[v].pc = "taken"}}

\* w is in the handler of a claim, or about to write its outcome.
Tracked(w) == wk[w].pc \in {"run", "write"}

\* w's claim still holds: the row carries the locked_at w was given.
Holds(w, j) == Tracked(w) /\ wk[w].job = j /\ row[j].lockedAt = wk[w].lockedAt

\* Stop has cancelled the handlers' context (q.runCtx.Err() # nil).
Cancelled(n) == phase[n] \in {"cancelled", "releasing", "stopped", "aborted"}

\* stopClaim has been called (ctx.Err() # nil in worker).
Claiming(n) == phase[n] = "up"

InUse(j, s) ==
    \/ row[j].lockedAt = s
    \/ \E w \in Workers : wk[w].job = j /\ wk[w].lockedAt = s
    \/ \E n \in Nodes : <<j, s>> \in snap[n] \/ claimed[n][j] = s

\* Mutant of Fresh: a clock too coarse to tell two claims apart.
FreshCoarse(j) == Stamps

\* clock_timestamp() of a claim: an instant no other claim of the row that
\* anyone remembers was made at.
Fresh(j) == {s \in Stamps : ~InUse(j, s)}
Now(j) == CHOOSE s \in Fresh(j) : TRUE

Upset == upsets < MaxUpsets /\ upsets' = upsets + 1

\* A row back in the queue, its claim given up.
Waiting(r, due, attempts) ==
    [state |-> "pending", due |-> due, attempts |-> attempts,
     lockedAt |-> NoStamp, stale |-> FALSE, keyed |-> r.keyed]

Unlocked(w) == [k \in Limited |-> IF lock[k] = w THEN Nobody ELSE lock[k]]

-----------------------------------------------------------------------------
(* Enqueue *)

Inserted(state, due, keyed) ==
    [state |-> state, due |-> due, attempts |-> 0,
     lockedAt |-> NoStamp, stale |-> FALSE, keyed |-> keyed]

\* Enqueue without Unique: one INSERT, due now or later (RunAt).
Enqueue(j) ==
    /\ KeyOf[j] = NoKey
    /\ row[j].state = "none"
    /\ \E due \in BOOLEAN : row' = [row EXCEPT ![j] = Inserted("pending", due, FALSE)]
    /\ UNCHANGED <<lock, wk, phase, claimed, snap, call, upsets>>

Inserting(t, tx, tries) ==
    [pc |-> "insert", topic |-> t, tx |-> tx, job |-> NoJob, tries |-> tries]

\* A call of Enqueue or EnqueueTx with Unique.
Begin(c) ==
    /\ call[c].pc = "idle"
    /\ \E t \in Topics, tx \in BOOLEAN :
         call' = [call EXCEPT ![c] = Inserting(t, tx, 0)]
    /\ UNCHANGED <<row, lock, wk, phase, claimed, snap, upsets>>

KeyHolders(t) == {j \in JobIds : row[j].keyed /\ Topic(j) = t}

\* INSERT ... ON CONFLICT (kind, unique_key) DO NOTHING.  It waits while an
\* uncommitted row has the key.
Insert(c) ==
    /\ call[c].pc = "insert"
    /\ \A j \in KeyHolders(call[c].topic) : row[j].state # "draft"
    /\ \/ /\ KeyHolders(call[c].topic) = {}
          /\ \E j \in JobIds :
               /\ row[j].state = "none" /\ KeyOf[j] # NoKey /\ Topic(j) = call[c].topic
               /\ row' = [row EXCEPT ![j] = Inserted(IF call[c].tx THEN "draft" ELSE "pending", TRUE, TRUE)]
               /\ call' = [call EXCEPT ![c] = IF call[c].tx
                                              THEN [@ EXCEPT !.pc = "open", !.job = j]
                                              ELSE NoCall]
       \/ /\ KeyHolders(call[c].topic) # {}
          /\ call' = [call EXCEPT ![c].pc = "lookup"]
          /\ UNCHANGED row
    /\ UNCHANGED <<lock, wk, phase, claimed, snap, upsets>>

\* Mutant of Lookup: no limit on the tries.
LookupForever(c) ==
    /\ call[c].pc = "lookup"
    /\ call' = [call EXCEPT ![c] =
         IF \E j \in KeyHolders(call[c].topic) : row[j].state # "draft"
         THEN NoCall ELSE Inserting(call[c].topic, call[c].tx, call[c].tries + 1)]
    /\ UNCHANGED <<row, lock, wk, phase, claimed, snap, upsets>>

\* SELECT id ... WHERE kind AND unique_key: the live job's id is returned, or
\* the job has finished meanwhile and the insert is tried again, three times
\* in all ("kept changing hands").
Lookup(c) ==
    /\ call[c].pc = "lookup"
    /\ LET found == \E j \in KeyHolders(call[c].topic) : row[j].state # "draft"
       IN \/ /\ found \/ call[c].tries = 2
             /\ call' = [call EXCEPT ![c] = NoCall]
          \/ /\ ~found /\ call[c].tries # 2
             /\ call' = [call EXCEPT ![c] = Inserting(call[c].topic, call[c].tx, call[c].tries + 1)]
    /\ UNCHANGED <<row, lock, wk, phase, claimed, snap, upsets>>

\* The caller's transaction ends.
CommitTx(c) ==
    /\ call[c].pc = "open"
    /\ row' = [row EXCEPT ![call[c].job].state = "pending"]
    /\ call' = [call EXCEPT ![c] = NoCall]
    /\ UNCHANGED <<lock, wk, phase, claimed, snap, upsets>>

RollbackTx(c) ==
    /\ call[c].pc = "open"
    /\ row' = [row EXCEPT ![call[c].job] = NoRow]
    /\ call' = [call EXCEPT ![c] = NoCall]
    /\ UNCHANGED <<lock, wk, phase, claimed, snap, upsets>>

\* Retry (the admin pages): a failed job runs again, attempts reset.  Its key
\* was given up when it failed and is not taken back.
Retry(j) ==
    /\ row[j].state = "failed"
    /\ row' = [row EXCEPT ![j] = Waiting(@, TRUE, 0)]
    /\ Upset
    /\ UNCHANGED <<lock, wk, phase, claimed, snap, call>>

-----------------------------------------------------------------------------
(* Time *)

\* now() reaches run_at.
ComesDue(j) ==
    /\ row[j].state \in {"draft", "pending"} /\ ~row[j].due
    /\ row' = [row EXCEPT ![j].due = TRUE]
    /\ UNCHANGED <<lock, wk, phase, claimed, snap, call, upsets>>

\* JOBS_STALE passes after locked_at.  While the claim is held this takes a
\* handler, or an outcome, that lasts longer than JOBS_STALE.
Age(j) ==
    /\ row[j].state = "running" /\ ~row[j].stale
    /\ ~ \E w \in Workers : Holds(w, j)
    /\ row' = [row EXCEPT ![j].stale = TRUE]
    /\ UNCHANGED <<lock, wk, phase, claimed, snap, call, upsets>>

Overrun(j) ==
    /\ row[j].state = "running" /\ ~row[j].stale
    /\ \E w \in Workers : Holds(w, j)
    /\ row' = [row EXCEPT ![j].stale = TRUE]
    /\ Upset
    /\ UNCHANGED <<lock, wk, phase, claimed, snap, call>>

-----------------------------------------------------------------------------
(* worker and runOne *)

\* The top of runOne: nothing is claimed once Stop was called, or while the
\* node handles no kind; otherwise the first statement takes back every job
\* whose claim is stale.
Exit(w) ==
    /\ wk[w].pc = "idle" /\ ~Claiming(Home[w])
    /\ wk' = [wk EXCEPT ![w] = At("off")]
    /\ UNCHANGED <<row, lock, phase, claimed, snap, call, upsets>>

\* Mutant of TakeBack: stale jobs are left alone.
TakeBackNothing(r) == r

TakeBack(r) ==
    IF r.state = "running" /\ r.stale THEN Waiting(r, TRUE, r.attempts) ELSE r

Poll(w) ==
    /\ wk[w].pc = "idle" /\ Claiming(Home[w])
    /\ Handles[Home[w]] # {}
    /\ row' = [j \in JobIds |-> TakeBack(row[j])]
    /\ wk' = [wk EXCEPT ![w] = At("claim")]
    /\ UNCHANGED <<lock, phase, claimed, snap, call, upsets>>

\* The claimed row, and the worker that runs it.
Claimed(j) == [row EXCEPT ![j] =
    [state |-> "running", due |-> FALSE, attempts |-> row[j].attempts + 1,
     lockedAt |-> Now(j), stale |-> FALSE, keyed |-> row[j].keyed]]

Runs(w, j) == [wk EXCEPT ![w] = [pc |-> "run", job |-> j, lockedAt |-> Now(j),
                                 attempts |-> row[j].attempts + 1, keyed |-> row[j].keyed,
                                 outcome |-> "none", tries |-> {}]]

\* claim with limited kinds, first statement: as it begins it sees which of them
\* have due work ...
LookForDue(w) ==
    /\ wk[w].pc = "claim" /\ LimitedKinds(w) # {}
    /\ wk' = [wk EXCEPT ![w] = [At("locking") EXCEPT
                !.tries = {k \in LimitedKinds(w) : Due(k) # {}}]]
    /\ UNCHANGED <<row, lock, phase, claimed, snap, call, upsets>>

\* ... then tries the advisory lock of one after the other, never waiting for the
\* transaction that holds it.
TryLock(w) ==
    /\ wk[w].pc = "locking"
    /\ \E k \in wk[w].tries :
         /\ lock' = IF lock[k] = Nobody THEN [lock EXCEPT ![k] = w] ELSE lock
         /\ wk' = [wk EXCEPT ![w].tries = @ \ {k}]
    /\ UNCHANGED <<row, phase, claimed, snap, call, upsets>>

HasLock(w) == \E k \in Limited : lock[k] = w

\* Without a lock and without a free kind there is nothing to claim.
Locked(w) ==
    /\ wk[w].pc = "locking" /\ wk[w].tries = {}
    /\ wk' = [wk EXCEPT ![w] = At(IF FreeKinds(w) # {} \/ HasLock(w) THEN "locked" ELSE "idle")]
    /\ UNCHANGED <<row, lock, phase, claimed, snap, call, upsets>>

\* Mutant of Open: the running jobs are counted without the lock.
OpenUnlocked(w) == {k \in LimitedKinds(w) : Cardinality(Running(k)) < Cap[k]}

\* The kinds whose lock w holds and that run fewer jobs than their cap.
Open(w) == {k \in Limited : lock[k] = w /\ Cardinality(Running(k)) < Cap[k]}

\* Second statement (the only one on a node without limited kinds): counts the
\* running jobs and picks a row, which is locked, but not visibly running until
\* the commit.
Take(w) ==
    /\ \/ wk[w].pc = "locked"
       \/ wk[w].pc = "claim" /\ LimitedKinds(w) = {}
    /\ LET found == (UNION {Due(k) : k \in FreeKinds(w) \cup Open(w)}) \ Taken
       IN \/ /\ found = {}
             /\ wk' = [wk EXCEPT ![w] = At("idle")]
             /\ lock' = Unlocked(w)
          \/ \E j \in found :
               /\ wk' = [wk EXCEPT ![w] = [At("taken") EXCEPT !.job = j]]
               /\ UNCHANGED lock
    /\ UNCHANGED <<row, phase, claimed, snap, call, upsets>>

\* track and untrack: one entry for each job, whichever worker of the node has it.
Track(n, j, s) == [claimed EXCEPT ![n][j] = s]

\* The commit publishes the claim and gives the locks back; the worker tracks it.
Commit(w) ==
    /\ wk[w].pc = "taken"
    /\ Fresh(wk[w].job) # {}
    /\ row' = Claimed(wk[w].job)
    /\ wk' = Runs(w, wk[w].job)
    /\ lock' = Unlocked(w)
    /\ claimed' = Track(Home[w], wk[w].job, Now(wk[w].job))
    /\ UNCHANGED <<phase, snap, call, upsets>>

\* A database error or dbTimeout before the commit: the transaction rolls back.
ClaimFails(w) ==
    /\ wk[w].pc \in {"claim", "locking", "locked", "taken"}
    /\ wk' = [wk EXCEPT ![w] = At("idle")]
    /\ lock' = Unlocked(w)
    /\ Upset
    /\ UNCHANGED <<row, phase, claimed, snap, call>>

\* The claim commits but the answer does not arrive: nobody runs the job.
ClaimLost(w) ==
    /\ wk[w].pc = "taken"
    /\ Fresh(wk[w].job) # {}
    /\ row' = Claimed(wk[w].job)
    /\ wk' = [wk EXCEPT ![w] = At("idle")]
    /\ lock' = Unlocked(w)
    /\ Upset
    /\ UNCHANGED <<phase, claimed, snap, call>>

\* Mutant of Return: the attempt after this one is compared.
ReturnEarly(w) ==
    /\ wk[w].pc = "run"
    /\ \E ok \in BOOLEAN :
         LET outcome == CASE ok -> "done"
                          [] ~ok /\ Cancelled(Home[w]) -> "release"
                          [] ~ok /\ ~Cancelled(Home[w]) /\ wk[w].attempts + 1 >= MaxAttempts -> "failed"
                          [] OTHER -> "retry"
         IN wk' = [wk EXCEPT ![w] = [@ EXCEPT !.pc = "write", !.outcome = outcome]]
    /\ UNCHANGED <<row, lock, phase, claimed, snap, call, upsets>>

\* The handler returns, by itself, at its timeout or because Stop cancelled it
\* (or panics, which safeRun makes an error); runOne decides what to write.
Return(w) ==
    /\ wk[w].pc = "run"
    /\ \E ok \in BOOLEAN :
         LET outcome == CASE ok -> "done"
                          [] ~ok /\ Cancelled(Home[w]) -> "release"
                          [] ~ok /\ ~Cancelled(Home[w]) /\ wk[w].attempts >= MaxAttempts -> "failed"
                          [] OTHER -> "retry"
         IN wk' = [wk EXCEPT ![w] = [@ EXCEPT !.pc = "write", !.outcome = outcome]]
    /\ UNCHANGED <<row, lock, phase, claimed, snap, call, upsets>>

\* Mutant of Released: locked_at is kept.
ReleasedLocked(r) == [r EXCEPT !.state = "pending", !.due = TRUE]

\* The row a statement with WHERE id = j AND locked_at = s leaves.
Released(r) == Waiting(r, TRUE, IF r.attempts > 0 THEN r.attempts - 1 ELSE 0)

Finished(r, state, clearKey) ==
    [state |-> state, due |-> FALSE, attempts |-> r.attempts,
     lockedAt |-> NoStamp, stale |-> FALSE, keyed |-> r.keyed /\ ~clearKey]

\* Mutants of Written: a failed job keeps its key; a retried one loses it.
WrittenKeepsKey(w, r) ==
    CASE wk[w].outcome = "done"    -> Finished(r, "done", wk[w].keyed)
      [] wk[w].outcome = "failed"  -> Finished(r, "failed", FALSE)
      [] wk[w].outcome = "release" -> Released(r)
      [] OTHER                     -> Waiting(r, FALSE, r.attempts)

WrittenDropsKey(w, r) ==
    CASE wk[w].outcome = "done"    -> Finished(r, "done", wk[w].keyed)
      [] wk[w].outcome = "failed"  -> Finished(r, "failed", wk[w].keyed)
      [] wk[w].outcome = "release" -> Released(r)
      [] OTHER                     -> [Waiting(r, FALSE, r.attempts) EXCEPT !.keyed = FALSE]

Written(w, r) ==
    CASE wk[w].outcome = "done"    -> Finished(r, "done", wk[w].keyed)
      [] wk[w].outcome = "failed"  -> Finished(r, "failed", wk[w].keyed)
      [] wk[w].outcome = "release" -> Released(r)
      [] OTHER                     -> Waiting(r, FALSE, r.attempts)

\* runOne returns: untrack is deferred.
Leaves(w) == [wk EXCEPT ![w] = [At("leave") EXCEPT !.job = wk[w].job]]

\* Mutant of Write: WHERE id = $1, without locked_at.
WriteById(w) ==
    /\ wk[w].pc = "write"
    /\ row' = [j \in JobIds |-> IF j = wk[w].job THEN Written(w, row[j]) ELSE row[j]]
    /\ wk' = Leaves(w)
    /\ UNCHANGED <<lock, phase, claimed, snap, call, upsets>>

\* The outcome is written only while the claim holds.
Write(w) ==
    /\ wk[w].pc = "write"
    /\ row' = [j \in JobIds |-> IF Holds(w, j) THEN Written(w, row[j]) ELSE row[j]]
    /\ wk' = Leaves(w)
    /\ UNCHANGED <<lock, phase, claimed, snap, call, upsets>>

\* A database error instead: the job stays running until it is stale.
WriteFails(w) ==
    /\ wk[w].pc = "write"
    /\ wk' = Leaves(w)
    /\ Upset
    /\ UNCHANGED <<row, lock, phase, claimed, snap, call>>

\* untrack: the job's entry goes, be it another worker's claim by now.
Untrack(w) ==
    /\ wk[w].pc = "leave"
    /\ claimed' = Track(Home[w], wk[w].job, NoStamp)
    /\ wk' = [wk EXCEPT ![w] = At("idle")]
    /\ UNCHANGED <<row, lock, phase, snap, call, upsets>>

-----------------------------------------------------------------------------
(* The node *)

\* Run: the workers start.
Run(n) ==
    /\ phase[n] = "down"
    /\ phase' = [phase EXCEPT ![n] = "up"]
    /\ wk' = [w \in Workers |-> IF Home[w] = n THEN At("idle") ELSE wk[w]]
    /\ UNCHANGED <<row, lock, claimed, snap, call, upsets>>

\* The process ends, by a crash or after Stop: its transactions roll back.
Ends(n) ==
    /\ phase' = [phase EXCEPT ![n] = "down"]
    /\ wk' = [w \in Workers |-> IF Home[w] = n THEN At("off") ELSE wk[w]]
    /\ lock' = [k \in Limited |-> IF \E w \in Workers : lock[k] = w /\ Home[w] = n
                                  THEN Nobody ELSE lock[k]]
    /\ claimed' = [claimed EXCEPT ![n] = NoClaims]
    /\ snap' = [snap EXCEPT ![n] = {}]

Crash(n) ==
    /\ phase[n] # "down"
    /\ Ends(n)
    /\ Upset
    /\ UNCHANGED <<row, call>>

ProcessExit(n) ==
    /\ phase[n] \in {"stopped", "aborted"}
    /\ Ends(n)
    /\ UNCHANGED <<row, call, upsets>>

\* Stop: no more claims ...
StopClaim(n) ==
    /\ phase[n] = "up"
    /\ phase' = [phase EXCEPT ![n] = "draining"]
    /\ Upset
    /\ UNCHANGED <<row, lock, wk, claimed, snap, call>>

\* ... the drain is over, the handlers are cancelled ...
StopRun(n) ==
    /\ phase[n] = "draining"
    /\ phase' = [phase EXCEPT ![n] = "cancelled"]
    /\ UNCHANGED <<row, lock, wk, claimed, snap, call, upsets>>

\* ... every worker has returned ...
StopFinished(n) ==
    /\ phase[n] = "cancelled"
    /\ \A w \in Workers : Home[w] = n => wk[w].pc = "off"
    /\ phase' = [phase EXCEPT ![n] = "stopped"]
    /\ UNCHANGED <<row, lock, wk, claimed, snap, call, upsets>>

\* ... or the grace is over: releaseClaimed copies the claims ...
StopGivesUp(n) ==
    /\ phase[n] = "cancelled"
    /\ \E w \in Workers : Home[w] = n /\ wk[w].pc # "off"
    /\ phase' = [phase EXCEPT ![n] = "releasing"]
    /\ snap' = [snap EXCEPT ![n] = {<<j, claimed[n][j]>> :
                                      j \in {i \in JobIds : claimed[n][i] # NoStamp}}]
    /\ UNCHANGED <<row, lock, wk, claimed, call, upsets>>

\* ... and releases them one by one, as long as each claim still holds.
ReleaseNext(n) ==
    /\ phase[n] = "releasing"
    /\ \E claim \in snap[n] :
         LET j == claim[1]
         IN /\ row' = IF row[j].state = "running" /\ row[j].lockedAt = claim[2]
                      THEN [row EXCEPT ![j] = Released(@)] ELSE row
            /\ snap' = [snap EXCEPT ![n] = @ \ {claim}]
    /\ UNCHANGED <<lock, wk, phase, claimed, call, upsets>>

ReleaseDone(n) ==
    /\ phase[n] = "releasing" /\ snap[n] = {}
    /\ phase' = [phase EXCEPT ![n] = "stopped"]
    /\ UNCHANGED <<row, lock, wk, claimed, snap, call, upsets>>

\* A database error, or the shutdown deadline, ends the release early.
ReleaseFails(n) ==
    /\ phase[n] = "releasing" /\ snap[n] # {}
    /\ phase' = [phase EXCEPT ![n] = "aborted"]
    /\ snap' = [snap EXCEPT ![n] = {}]
    /\ Upset
    /\ UNCHANGED <<row, lock, wk, claimed, call>>

-----------------------------------------------------------------------------

Init ==
    /\ row = [j \in JobIds |-> NoRow]
    /\ lock = [k \in Limited |-> Nobody]
    /\ wk = [w \in Workers |-> At("off")]
    /\ phase = [n \in Nodes |-> "down"]
    /\ claimed = [n \in Nodes |-> NoClaims]
    /\ snap = [n \in Nodes |-> {}]
    /\ call = [c \in Callers |-> NoCall]
    /\ upsets = 0

\* What a worker does by itself.
WorkerStep(w) ==
    \/ Exit(w) \/ Poll(w) \/ LookForDue(w) \/ TryLock(w) \/ Locked(w) \/ Take(w) \/ Commit(w)
    \/ Return(w) \/ Write(w) \/ Untrack(w)

\* What a node does by itself.
NodeStep(n) ==
    \/ Run(n) \/ ProcessExit(n) \/ StopRun(n) \/ StopFinished(n) \/ StopGivesUp(n)
    \/ ReleaseNext(n) \/ ReleaseDone(n)

CallStep(c) == Insert(c) \/ Lookup(c) \/ CommitTx(c) \/ RollbackTx(c)

Next ==
    \/ \E j \in JobIds : Enqueue(j) \/ Retry(j) \/ ComesDue(j) \/ Age(j) \/ Overrun(j)
    \/ \E c \in Callers : Begin(c) \/ CallStep(c)
    \/ \E w \in Workers : WorkerStep(w) \/ ClaimFails(w) \/ ClaimLost(w) \/ WriteFails(w)
    \/ \E n \in Nodes : NodeStep(n) \/ Crash(n) \/ StopClaim(n) \/ ReleaseFails(n)

Spec == Init /\ [][Next]_vars

\* Workers are goroutines of live processes and handlers return (their context
\* has a deadline); time passes; a supervisor restarts a node that is down; a
\* call of Enqueue and its transaction end.  No fairness is asked of callers
\* that begin, of Retry, or of any disturbance.
Fairness ==
    /\ \A w \in Workers : WF_vars(WorkerStep(w))
    /\ \A n \in Nodes : WF_vars(NodeStep(n))
    /\ \A j \in JobIds : WF_vars(ComesDue(j)) /\ WF_vars(Age(j))
    /\ \A c \in Callers : WF_vars(CallStep(c))

FairSpec == Spec /\ Fairness

-----------------------------------------------------------------------------
(* Properties *)

TypeOK ==
    /\ row \in [JobIds -> Row]
    /\ lock \in [Limited -> Workers \cup {Nobody}]
    /\ wk \in [Workers -> WorkerState]
    /\ phase \in [Nodes -> Phases]
    /\ claimed \in [Nodes -> [JobIds -> Stamps \cup {NoStamp}]]
    /\ snap \in [Nodes -> SUBSET (JobIds \X Stamps)]
    /\ call \in [Callers -> [pc : {"idle", "insert", "lookup", "open"},
                             topic : Topics \cup {NoTopic}, tx : BOOLEAN,
                             job : JobIds \cup {NoJob}, tries : 0..2]]
    /\ upsets \in 0..MaxUpsets

\* No more jobs of a limited kind are marked running than its Concurrency,
\* whichever nodes claim at the same time (the advisory lock around the count).
CapRespected == \A k \in Limited : Cardinality(Running(k)) <= Cap[k]

\* At most one worker's claim of a job holds, across takeovers, releases at
\* shutdown and restarts: no two workers can both write an outcome.
OneHolder ==
    \A j \in JobIds : \A v, w \in Workers : Holds(v, j) /\ Holds(w, j) => v = w

\* What runOne read when it claimed (the attempt it compares with max_attempts,
\* whether it has a key to give up) is still what the row says when it may write.
HolderUpToDate ==
    \A w \in Workers : \A j \in JobIds : Holds(w, j) =>
        /\ row[j].state = "running"
        /\ wk[w].attempts = row[j].attempts
        /\ wk[w].keyed = row[j].keyed

\* A claim: within the kind's Concurrency, of one worker, which knows the row as it is.
ClaimsKept == CapRespected /\ OneHolder /\ HolderUpToDate

\* A job keeps its Unique key until it finishes, through retries, takeovers and
\* releases, and no longer: a finished job with a key would swallow every later
\* Enqueue of the key, since Insert finds the key taken and Lookup returns it.
KeyFollowsJob ==
    [][\A j \in JobIds :
           /\ row'[j].keyed => row'[j].state \in Live
           /\ row[j].keyed /\ ~row'[j].keyed => row'[j].state \in {"done", "failed", "none"}]_vars

\* A job fails for good only after its whole budget of attempts, not counting
\* those a shutdown cut short.
FailsOnlyOutOfBudget ==
    [][\A j \in JobIds : row[j].state # "failed" /\ row'[j].state = "failed" =>
           row[j].attempts >= MaxAttempts]_vars

\* Every job that is queued ends, done or failed, once the disturbances are over:
\* a dead node's job is taken over, a lost claim too, and a full kind drains.
JobsEnd ==
    \A j \in JobIds :
        row[j].state \in {"pending", "running"} ~> row[j].state \in {"done", "failed"}

\* Unique: "while a job of the kind with that key is pending (retries included)
\* or running, Enqueue stores nothing".  Retry breaks it: the failed job gave its
\* key up and runs again without it.
UniqueOnce ==
    \A i, j \in JobIds :
        /\ row[i].state \in Live /\ row[j].state \in Live
        /\ KeyOf[i] # NoKey /\ Topic(i) = Topic(j)
        => i = j

\* Stop "releases what is still claimed back to pending": once it has returned
\* without an error of the release, no job is still claimed by the node.  A claim
\* sent before Stop and committed after releaseClaimed made its copy is.
StopReleases ==
    \A w \in Workers : \A j \in JobIds : phase[Home[w]] = "stopped" => ~Holds(w, j)

\* What WorkQueue promises, of the rows and the claims that hold.
Owner(j) == IF \E w \in Workers : Holds(w, j) THEN CHOOSE w \in Workers : Holds(w, j) ELSE Nobody
Status(j) == IF row[j].state = "draft" THEN "none" ELSE row[j].state

Queue == INSTANCE WorkQueue WITH
    Jobs <- JobIds,
    status <- [j \in JobIds |-> Status(j)],
    owner <- [j \in JobIds |-> Owner(j)]

QueueSpec == Queue!Spec
=============================================================================
