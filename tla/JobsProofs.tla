----------------------------- MODULE JobsProofs -----------------------------
(***************************************************************************)
(* Proofs about Jobs, for every number of nodes, workers, jobs and kinds.  *)
(***************************************************************************)
EXTENDS Jobs, FiniteSetTheorems, TLAPS

\* An advisory lock is held only inside the transaction of a claim.
LockInv == \A k \in Limited : \A w \in Workers :
    lock[k] = w => wk[w].pc \in {"locking", "locked", "taken"}

\* A node that is down runs no worker.
DownInv == \A w \in Workers : phase[Home[w]] = "down" => wk[w].pc = "off"

\* A picked row is still pending at the commit, no other claim has picked it, and
\* when its kind is limited the lock is held and a slot is free.
TakenInv == \A w \in Workers : wk[w].pc = "taken" =>
    /\ wk[w].job \in JobIds
    /\ row[wk[w].job].state = "pending"
    /\ KindOf[wk[w].job] \in Limited =>
         /\ lock[KindOf[wk[w].job]] = w
         /\ Cardinality(Running(KindOf[wk[w].job])) < Cap[KindOf[wk[w].job]]

TakenOnce == \A v, w \in Workers :
    wk[v].pc = "taken" /\ wk[w].pc = "taken" /\ wk[v].job = wk[w].job => v = w

\* Only a running row carries a locked_at, and only a live one a key.
RowInv == \A j \in JobIds :
    /\ row[j].lockedAt # NoStamp => row[j].state = "running"
    /\ row[j].keyed => row[j].state \in Live

\* A worker in a handler has a stamp of its own for its job.
TrackedInv == \A w \in Workers : Tracked(w) => wk[w].job \in JobIds /\ wk[w].lockedAt \in Stamps

StampsApart == \A v, w \in Workers :
    Tracked(v) /\ Tracked(w) /\ wk[v].job = wk[w].job /\ wk[v].lockedAt = wk[w].lockedAt => v = w

\* The draft of an open transaction is its own.
CallInv == \A c \in Callers : call[c].pc = "open" =>
    /\ call[c].job \in JobIds
    /\ row[call[c].job].state = "draft"

CallsApart == \A b, c \in Callers :
    call[b].pc = "open" /\ call[c].pc = "open" /\ call[b].job = call[c].job => b = c

IInv ==
    /\ TypeOK
    /\ LockInv
    /\ DownInv
    /\ TakenInv
    /\ TakenOnce
    /\ RowInv
    /\ TrackedInv
    /\ StampsApart
    /\ CallInv
    /\ CallsApart
    /\ HolderUpToDate
    /\ CapRespected

-----------------------------------------------------------------------------
(* Types *)

LEMMA NoRowType == NoRow \in Row
  BY DEF NoRow, Row, RowStates

LEMMA AtType == ASSUME NEW pc \in WorkerPCs PROVE At(pc) \in WorkerState
  BY DEF At, WorkerState, Outcomes

LEMMA LeavesType ==
  ASSUME TypeOK, NEW w \in Workers
  PROVE  Leaves(w) \in [Workers -> WorkerState]
  <1>1. wk[w].job \in JobIds \cup {NoJob} /\ wk \in [Workers -> WorkerState]
    BY DEF TypeOK, WorkerState
  <1>2. [At("leave") EXCEPT !.job = wk[w].job] \in WorkerState
    BY <1>1 DEF At, WorkerState, WorkerPCs, Outcomes
  <1> QED
    BY <1>1, <1>2 DEF Leaves

LEMMA TrackType ==
  ASSUME TypeOK, NEW n, NEW j, NEW s \in Stamps \cup {NoStamp}
  PROVE  Track(n, j, s) \in [Nodes -> [JobIds -> Stamps \cup {NoStamp}]]
  BY DEF TypeOK, Track

LEMMA NowType ==
  ASSUME NEW j \in JobIds, Fresh(j) # {}
  PROVE  Now(j) \in Stamps /\ ~InUse(j, Now(j))
  BY DEF Now, Fresh

LEMMA RunsType ==
  ASSUME TypeOK, NEW w \in Workers, NEW j \in JobIds, Fresh(j) # {}
  PROVE  /\ Claimed(j) \in [JobIds -> Row]
         /\ Runs(w, j) \in [Workers -> WorkerState]
  <1>1. row[j] \in Row
    BY DEF TypeOK
  <1>2. Now(j) \in Stamps
    BY NowType
  <1>3. [state |-> "running", due |-> FALSE, attempts |-> row[j].attempts + 1,
         lockedAt |-> Now(j), stale |-> FALSE, keyed |-> row[j].keyed] \in Row
    BY <1>1, <1>2 DEF Row, RowStates
  <1>4. [pc |-> "run", job |-> j, lockedAt |-> Now(j), attempts |-> row[j].attempts + 1,
         keyed |-> row[j].keyed, outcome |-> "none", tries |-> {}] \in WorkerState
    BY <1>1, <1>2 DEF Row, WorkerState, WorkerPCs, Outcomes
  <1> QED
    BY <1>3, <1>4 DEF TypeOK, Claimed, Runs

LEMMA UnlockedType ==
  ASSUME TypeOK, NEW w \in Workers
  PROVE  Unlocked(w) \in [Limited -> Workers \cup {Nobody}]
  BY DEF TypeOK, Unlocked

LEMMA WaitingType ==
  ASSUME NEW r \in Row, NEW due \in BOOLEAN, NEW attempts \in Nat
  PROVE  Waiting(r, due, attempts) \in Row
  BY DEF Waiting, Row, RowStates

LEMMA ReleasedType == ASSUME NEW r \in Row PROVE Released(r) \in Row
  <1>1. r.attempts \in Nat
    BY DEF Row
  <1>2. (IF r.attempts > 0 THEN r.attempts - 1 ELSE 0) \in Nat
    BY <1>1
  <1> QED
    BY <1>2, WaitingType DEF Released

LEMMA FinishedType ==
  ASSUME NEW r \in Row, NEW s \in RowStates, NEW clear \in BOOLEAN
  PROVE  Finished(r, s, clear) \in Row
  BY DEF Finished, Row

LEMMA InsertedType ==
  ASSUME NEW s \in RowStates, NEW due \in BOOLEAN, NEW keyed \in BOOLEAN
  PROVE  Inserted(s, due, keyed) \in Row
  BY DEF Inserted, Row

LEMMA FlagType ==
  ASSUME NEW r \in Row
  PROVE  [r EXCEPT !.due = TRUE] \in Row /\ [r EXCEPT !.stale = TRUE] \in Row
  <1>1. [r EXCEPT !.due = TRUE] \in Row
    BY DEF Row
  <1>2. [r EXCEPT !.stale = TRUE] \in Row
    BY DEF Row
  <1> QED
    BY <1>1, <1>2

LEMMA WrittenType ==
  ASSUME TypeOK, NEW w \in Workers, NEW r \in Row
  PROVE  Written(w, r) \in Row
  <1>1. wk[w].keyed \in BOOLEAN /\ r.attempts \in Nat
    BY DEF TypeOK, WorkerState, Row
  <1>2. {"done", "failed"} \subseteq RowStates
    BY DEF RowStates
  <1> QED
    BY <1>1, <1>2, WaitingType, ReleasedType, FinishedType DEF Written

LEMMA RowUpdate ==
  ASSUME TypeOK, NEW j \in JobIds, NEW r \in Row
  PROVE  [row EXCEPT ![j] = r] \in [JobIds -> Row]
  BY DEF TypeOK

LEMMA WorkerUpdate ==
  ASSUME TypeOK, NEW w \in Workers, NEW r \in WorkerState
  PROVE  [wk EXCEPT ![w] = r] \in [Workers -> WorkerState]
  BY DEF TypeOK

CallState == [pc : {"idle", "insert", "lookup", "open"},
              topic : Topics \cup {NoTopic}, tx : BOOLEAN,
              job : JobIds \cup {NoJob}, tries : 0..2]

LEMMA CallUpdate ==
  ASSUME TypeOK, NEW c \in Callers, NEW r \in CallState
  PROVE  [call EXCEPT ![c] = r] \in [Callers -> CallState]
  BY DEF TypeOK, CallState

LEMMA UpsetType == ASSUME TypeOK, Upset PROVE upsets' \in 0..MaxUpsets
  BY BudgetAssumption DEF TypeOK, Upset

\* TypeOK' from its parts.
LEMMA TypeParts ==
  ASSUME row' \in [JobIds -> Row],
         lock' \in [Limited -> Workers \cup {Nobody}],
         wk' \in [Workers -> WorkerState],
         phase' \in [Nodes -> Phases],
         claimed' \in [Nodes -> [JobIds -> Stamps \cup {NoStamp}]],
         snap' \in [Nodes -> SUBSET (JobIds \X Stamps)],
         call' \in [Callers -> CallState],
         upsets' \in 0..MaxUpsets
  PROVE  TypeOK'
  BY DEF TypeOK, CallState, Limited, Topics

\* The steps of enqueueing and of time keep the types.
LEMMA TypeEnqueue ==
  ASSUME TypeOK,
         \/ \E j \in JobIds : Enqueue(j) \/ Retry(j) \/ ComesDue(j) \/ Age(j) \/ Overrun(j)
         \/ \E c \in Callers : Begin(c) \/ CallStep(c)
  PROVE  TypeOK'
  <1> USE DEF CallState
  <1>0. /\ NoCall \in CallState
        /\ {"none", "draft", "pending"} \subseteq RowStates
        /\ NoRow \in Row
    BY NoRowType DEF NoCall, RowStates
  <1>t. /\ row \in [JobIds -> Row] /\ call \in [Callers -> CallState]
        /\ lock \in [Limited -> Workers \cup {Nobody}] /\ wk \in [Workers -> WorkerState]
        /\ phase \in [Nodes -> Phases] /\ snap \in [Nodes -> SUBSET (JobIds \X Stamps)]
        /\ claimed \in [Nodes -> [JobIds -> Stamps \cup {NoStamp}]]
        /\ upsets \in 0..MaxUpsets
    BY DEF TypeOK
  <1>1. ASSUME NEW j \in JobIds, Enqueue(j) PROVE TypeOK'
    <2>1. PICK due \in BOOLEAN : row' = [row EXCEPT ![j] = Inserted("pending", due, FALSE)]
      BY <1>1 DEF Enqueue
    <2>2. Inserted("pending", due, FALSE) \in Row
      BY <1>0, InsertedType
    <2> QED
      BY <1>1, <1>t, <2>1, <2>2, TypeParts DEF Enqueue
  <1>2. ASSUME NEW j \in JobIds, Retry(j) PROVE TypeOK'
    <2>1. row' \in [JobIds -> Row]
      BY <1>2, <1>t, WaitingType DEF Retry
    <2> QED
      BY <1>2, <1>t, <2>1, UpsetType, TypeParts DEF Retry
  <1>3. ASSUME NEW j \in JobIds, ComesDue(j) \/ Age(j) \/ Overrun(j) PROVE TypeOK'
    <2>1. [row[j] EXCEPT !.due = TRUE] \in Row /\ [row[j] EXCEPT !.stale = TRUE] \in Row
      BY <1>t, FlagType
    <2>2. row' \in [JobIds -> Row]
      BY <1>3, <1>t, <2>1 DEF ComesDue, Age, Overrun
    <2>3. upsets' \in 0..MaxUpsets
      BY <1>3, <1>t, UpsetType DEF ComesDue, Age, Overrun
    <2> QED
      BY <1>3, <1>t, <2>2, <2>3, TypeParts DEF ComesDue, Age, Overrun
  <1>4. ASSUME NEW c \in Callers, Begin(c) PROVE TypeOK'
    <2>1. ASSUME NEW t \in Topics, NEW tx \in BOOLEAN
          PROVE  Inserting(t, tx, 0) \in CallState
      BY DEF Inserting
    <2>2. call' \in [Callers -> CallState]
      BY <1>4, <1>t, <2>1 DEF Begin
    <2> QED
      BY <1>4, <1>t, <2>2, TypeParts DEF Begin
  <1>5. ASSUME NEW c \in Callers, Insert(c) PROVE TypeOK'
    <2>1. CASE KeyHolders(call[c].topic) = {}
      <3>1. PICK j \in JobIds :
              /\ row' = [row EXCEPT ![j] = Inserted(IF call[c].tx THEN "draft" ELSE "pending", TRUE, TRUE)]
              /\ call' = [call EXCEPT ![c] = IF call[c].tx
                                             THEN [@ EXCEPT !.pc = "open", !.job = j] ELSE NoCall]
        BY <1>5, <2>1 DEF Insert
      <3>2. row' \in [JobIds -> Row]
        BY <3>1, <1>0, <1>t, InsertedType, RowUpdate
      <3>3. [call[c] EXCEPT !.pc = "open", !.job = j] \in CallState
        BY <1>t
      <3>4. call' \in [Callers -> CallState]
        BY <1>0, <1>t, <3>1, <3>3
      <3> QED
        BY <1>5, <1>t, <3>2, <3>4, TypeParts DEF Insert
    <2>2. CASE KeyHolders(call[c].topic) # {}
      <3>1. call' = [call EXCEPT ![c].pc = "lookup"] /\ row' = row
        BY <1>5, <2>2 DEF Insert
      <3>2. [call[c] EXCEPT !.pc = "lookup"] \in CallState
        BY <1>t
      <3>3. call' \in [Callers -> CallState]
        BY <1>t, <3>1, <3>2
      <3> QED
        BY <1>5, <1>t, <3>1, <3>3, TypeParts DEF Insert
    <2> QED
      BY <2>1, <2>2
  <1>6. ASSUME NEW c \in Callers, Lookup(c) PROVE TypeOK'
    <2> DEFINE again == Inserting(call[c].topic, call[c].tx, call[c].tries + 1)
    <2>1. call[c] \in CallState
      BY <1>t
    <2>2. call[c].tries # 2 => call[c].tries + 1 \in 0..2
      BY <2>1
    <2>3. call[c].tries # 2 => again \in CallState
      BY <2>1, <2>2 DEF Inserting
    <2>4. \/ call' = [call EXCEPT ![c] = NoCall]
          \/ call[c].tries # 2 /\ call' = [call EXCEPT ![c] = again]
      BY <1>6 DEF Lookup
    <2> HIDE DEF CallState, again
    <2>5. call' \in [Callers -> CallState]
      BY <1>0, <2>3, <2>4, CallUpdate
    <2> QED
      BY <1>6, <1>t, <2>5, TypeParts DEF Lookup
  <1>7. ASSUME NEW c \in Callers, CommitTx(c) \/ RollbackTx(c) PROVE TypeOK'
    <2>1. \A j \in JobIds : [row[j] EXCEPT !.state = "pending"] \in Row
      BY <1>0, <1>t DEF Row
    <2>2. row' \in [JobIds -> Row]
      BY <1>0, <1>7, <1>t, <2>1 DEF CommitTx, RollbackTx
    <2>3. call' \in [Callers -> CallState]
      BY <1>0, <1>7, <1>t DEF CommitTx, RollbackTx
    <2> QED
      BY <1>7, <1>t, <2>2, <2>3, TypeParts DEF CommitTx, RollbackTx
  <1> QED
    BY <1>1, <1>2, <1>3, <1>4, <1>5, <1>6, <1>7 DEF CallStep

\* So do the steps of the workers.
LEMMA TypeWorker ==
  ASSUME TypeOK, NEW w \in Workers,
         wk[w].pc = "taken" => wk[w].job \in JobIds,
         WorkerStep(w) \/ ClaimFails(w) \/ ClaimLost(w) \/ WriteFails(w)
  PROVE  TypeOK'
  <1>t. /\ row \in [JobIds -> Row] /\ call \in [Callers -> CallState]
        /\ lock \in [Limited -> Workers \cup {Nobody}] /\ wk \in [Workers -> WorkerState]
        /\ phase \in [Nodes -> Phases] /\ snap \in [Nodes -> SUBSET (JobIds \X Stamps)]
        /\ claimed \in [Nodes -> [JobIds -> Stamps \cup {NoStamp}]]
        /\ upsets \in 0..MaxUpsets
    BY DEF TypeOK, CallState
  <1>0. \A pc \in WorkerPCs : [wk EXCEPT ![w] = At(pc)] \in [Workers -> WorkerState]
    BY AtType, WorkerUpdate
  <1>c. {"off", "idle", "claim", "locking", "locked", "taken"} \subseteq WorkerPCs
    BY DEF WorkerPCs
  <1>u. Unlocked(w) \in [Limited -> Workers \cup {Nobody}]
    BY UnlockedType
  <1>1. CASE Exit(w)
    BY <1>0, <1>1, <1>c, <1>t, TypeParts DEF Exit
  <1>2. CASE Poll(w)
    <2>1. \A r \in Row : TakeBack(r) \in Row
      <3>1. \A r \in Row : r.attempts \in Nat
        BY DEF Row
      <3> QED
        BY <3>1, WaitingType DEF TakeBack
    <2>2. row' \in [JobIds -> Row]
      BY <1>2, <1>t, <2>1 DEF Poll
    <2> QED
      BY <1>0, <1>2, <1>c, <1>t, <2>2, TypeParts DEF Poll
  <1>3. CASE LookForDue(w) \/ TryLock(w) \/ Locked(w)
    <2>1. CASE LookForDue(w)
      <3>1. {k \in LimitedKinds(w) : Due(k) # {}} \in SUBSET Kinds
        BY DEF LimitedKinds, Limited
      <3>2. [At("locking") EXCEPT !.tries = {k \in LimitedKinds(w) : Due(k) # {}}] \in WorkerState
        BY <3>1 DEF At, WorkerState, WorkerPCs, Outcomes
      <3>3. wk' \in [Workers -> WorkerState]
        BY <2>1, <3>2, WorkerUpdate DEF LookForDue
      <3> QED
        BY <1>t, <2>1, <3>3, TypeParts DEF LookForDue
    <2>2. CASE TryLock(w)
      <3>1. PICK k : /\ lock' = IF lock[k] = Nobody THEN [lock EXCEPT ![k] = w] ELSE lock
                     /\ wk' = [wk EXCEPT ![w] = [wk[w] EXCEPT !.tries = @ \ {k}]]
        BY <2>2 DEF TryLock
      <3>2. [wk[w] EXCEPT !.tries = @ \ {k}] \in WorkerState
        BY <1>t DEF WorkerState
      <3>3. wk' \in [Workers -> WorkerState]
        BY <3>1, <3>2, WorkerUpdate
      <3>4. lock' \in [Limited -> Workers \cup {Nobody}]
        BY <1>t, <3>1
      <3> QED
        BY <1>t, <2>2, <3>3, <3>4, TypeParts DEF TryLock
    <2>3. CASE Locked(w)
      <3>1. wk' = [wk EXCEPT ![w] = At("idle")] \/ wk' = [wk EXCEPT ![w] = At("locked")]
        BY <2>3 DEF Locked
      <3> QED
        BY <1>0, <1>c, <1>t, <2>3, <3>1, TypeParts DEF Locked
    <2> QED
      BY <1>3, <2>1, <2>2, <2>3
  <1>4. CASE Take(w)
    <2>1. \A j \in JobIds : [At("taken") EXCEPT !.job = j] \in WorkerState
      BY <1>c, AtType DEF WorkerState
    <2>2. \A k \in Kinds : Due(k) \subseteq JobIds
      BY DEF Due
    <2>3. FreeKinds(w) \cup Open(w) \subseteq Kinds
      BY HomeAssumption, HandlesAssumption DEF FreeKinds, Open, Limited
    <2>4. \/ wk' = [wk EXCEPT ![w] = At("idle")] /\ lock' = Unlocked(w)
          \/ \E j \in JobIds : wk' = [wk EXCEPT ![w] = [At("taken") EXCEPT !.job = j]] /\ lock' = lock
      BY <1>4, <2>2, <2>3 DEF Take
    <2>5. wk' \in [Workers -> WorkerState]
      BY <1>0, <1>c, <2>1, <2>4, WorkerUpdate
    <2> QED
      BY <1>4, <1>t, <1>u, <2>4, <2>5, TypeParts DEF Take
  <1>5. CASE Commit(w)
    <2>1. wk[w].job \in JobIds /\ Fresh(wk[w].job) # {}
      BY <1>5 DEF Commit
    <2>2. claimed' \in [Nodes -> [JobIds -> Stamps \cup {NoStamp}]]
      BY <1>5, <2>1, NowType, TrackType DEF Commit
    <2> QED
      BY <1>5, <1>t, <1>u, <2>1, <2>2, RunsType, TypeParts DEF Commit
  <1>6. CASE ClaimFails(w)
    BY <1>0, <1>6, <1>c, <1>t, <1>u, UpsetType, TypeParts DEF ClaimFails
  <1>7. CASE ClaimLost(w)
    <2>1. wk[w].job \in JobIds
      BY <1>7 DEF ClaimLost
    <2> QED
      BY <1>0, <1>7, <1>c, <1>t, <1>u, <2>1, RunsType, UpsetType, TypeParts DEF ClaimLost
  <1>8. CASE Return(w)
    <2>1. PICK outcome \in Outcomes : wk' = [wk EXCEPT ![w] = [@ EXCEPT !.pc = "write", !.outcome = outcome]]
      BY <1>8 DEF Return, Outcomes
    <2>2. [wk[w] EXCEPT !.pc = "write", !.outcome = outcome] \in WorkerState
      BY <1>t DEF WorkerState, WorkerPCs
    <2>3. wk' \in [Workers -> WorkerState]
      BY <2>1, <2>2, WorkerUpdate
    <2> QED
      BY <1>8, <1>t, <2>3, TypeParts DEF Return
  <1>9. CASE Write(w)
    <2>1. row' \in [JobIds -> Row]
      BY <1>9, <1>t, WrittenType DEF Write
    <2> QED
      BY <1>9, <1>t, <2>1, LeavesType, TypeParts DEF Write
  <1>10. CASE WriteFails(w)
    BY <1>10, <1>t, LeavesType, UpsetType, TypeParts DEF WriteFails
  <1>11. CASE Untrack(w)
    BY <1>0, <1>11, <1>c, <1>t, TrackType, TypeParts DEF Untrack
  <1> QED
    BY <1>1, <1>2, <1>3, <1>4, <1>5, <1>6, <1>7, <1>8, <1>9, <1>10, <1>11 DEF WorkerStep

\* And of the nodes.
LEMMA TypeNode ==
  ASSUME TypeOK, NEW n \in Nodes,
         NodeStep(n) \/ Crash(n) \/ StopClaim(n) \/ ReleaseFails(n)
  PROVE  TypeOK'
  <1>t. /\ row \in [JobIds -> Row] /\ call \in [Callers -> CallState]
        /\ lock \in [Limited -> Workers \cup {Nobody}] /\ wk \in [Workers -> WorkerState]
        /\ phase \in [Nodes -> Phases] /\ snap \in [Nodes -> SUBSET (JobIds \X Stamps)]
        /\ claimed \in [Nodes -> [JobIds -> Stamps \cup {NoStamp}]]
        /\ upsets \in 0..MaxUpsets
    BY DEF TypeOK, CallState
  <1>p. \A p \in Phases : [phase EXCEPT ![n] = p] \in [Nodes -> Phases]
    BY <1>t
  <1>c. {"down", "up", "draining", "cancelled", "releasing", "stopped", "aborted"} \subseteq Phases
    BY DEF Phases
  <1>a. At("idle") \in WorkerState /\ At("off") \in WorkerState
    BY AtType DEF WorkerPCs
  <1>e. ASSUME Ends(n)
        PROVE  /\ lock' \in [Limited -> Workers \cup {Nobody}]
               /\ wk' \in [Workers -> WorkerState]
               /\ phase' \in [Nodes -> Phases]
               /\ snap' \in [Nodes -> SUBSET (JobIds \X Stamps)]
               /\ claimed' \in [Nodes -> [JobIds -> Stamps \cup {NoStamp}]]
    <2>1. wk' \in [Workers -> WorkerState]
      BY <1>a, <1>e, <1>t DEF Ends
    <2>2. phase' \in [Nodes -> Phases]
      BY <1>c, <1>e, <1>p DEF Ends
    <2>3. lock' \in [Limited -> Workers \cup {Nobody}]
      BY <1>e, <1>t DEF Ends
    <2>4. snap' \in [Nodes -> SUBSET (JobIds \X Stamps)]
      BY <1>e, <1>t DEF Ends
    <2>5. claimed' \in [Nodes -> [JobIds -> Stamps \cup {NoStamp}]]
      BY <1>e, <1>t DEF Ends, NoClaims
    <2> QED
      BY <2>1, <2>2, <2>3, <2>4, <2>5
  <1>1. CASE Run(n)
    <2>1. wk' \in [Workers -> WorkerState]
      BY <1>1, <1>a, <1>t DEF Run
    <2> QED
      BY <1>1, <1>c, <1>p, <1>t, <2>1, TypeParts DEF Run
  <1>2. CASE ProcessExit(n)
    BY <1>2, <1>e, <1>t, TypeParts DEF ProcessExit
  <1>3. CASE Crash(n)
    BY <1>3, <1>e, <1>t, UpsetType, TypeParts DEF Crash
  <1>4. CASE StopClaim(n)
    BY <1>4, <1>c, <1>p, <1>t, UpsetType, TypeParts DEF StopClaim
  <1>5. CASE StopRun(n) \/ StopFinished(n) \/ ReleaseDone(n)
    BY <1>5, <1>c, <1>p, <1>t, TypeParts DEF StopRun, StopFinished, ReleaseDone
  <1>6. CASE StopGivesUp(n)
    <2>1. {<<j, claimed[n][j]>> : j \in {i \in JobIds : claimed[n][i] # NoStamp}}
            \subseteq JobIds \X Stamps
      BY <1>t
    <2>2. snap' \in [Nodes -> SUBSET (JobIds \X Stamps)]
      BY <1>6, <1>t, <2>1 DEF StopGivesUp
    <2> QED
      BY <1>6, <1>c, <1>p, <1>t, <2>2, TypeParts DEF StopGivesUp
  <1>7. CASE ReleaseNext(n)
    <2>1. PICK claim \in snap[n] :
            /\ row' = IF row[claim[1]].state = "running" /\ row[claim[1]].lockedAt = claim[2]
                      THEN [row EXCEPT ![claim[1]] = Released(@)] ELSE row
            /\ snap' = [snap EXCEPT ![n] = @ \ {claim}]
      BY <1>7 DEF ReleaseNext
    <2>2. row' \in [JobIds -> Row]
      BY <1>t, <2>1, ReleasedType
    <2>3. snap' \in [Nodes -> SUBSET (JobIds \X Stamps)]
      BY <1>t, <2>1
    <2> QED
      BY <1>7, <1>t, <2>2, <2>3, TypeParts DEF ReleaseNext
  <1>8. CASE ReleaseFails(n)
    <2>1. snap' \in [Nodes -> SUBSET (JobIds \X Stamps)]
      BY <1>8, <1>t DEF ReleaseFails
    <2> QED
      BY <1>8, <1>c, <1>p, <1>t, <2>1, UpsetType, TypeParts DEF ReleaseFails
  <1> QED
    BY <1>1, <1>2, <1>3, <1>4, <1>5, <1>6, <1>7, <1>8 DEF NodeStep

-----------------------------------------------------------------------------
(* What the steps do to the workers *)

Disturbs(w) == ClaimFails(w) \/ ClaimLost(w) \/ WriteFails(w)

LEMMA LockStep ==
  ASSUME IInv, TypeOK', Next
  PROVE  LockInv' /\ DownInv'
  <1>t. /\ wk \in [Workers -> WorkerState] /\ wk' \in [Workers -> WorkerState]
        /\ lock \in [Limited -> Workers \cup {Nobody}]
        /\ phase \in [Nodes -> Phases]
        /\ \A w \in Workers : Home[w] \in Nodes
    BY HomeAssumption DEF IInv, TypeOK
  <1>i. LockInv /\ DownInv
    BY DEF IInv
  <1>1. CASE lock' = lock /\ wk' = wk /\ phase' = phase
    BY <1>1, <1>i DEF LockInv, DownInv
  <1>2. ASSUME NEW w \in Workers, WorkerStep(w) \/ Disturbs(w) PROVE LockInv' /\ DownInv'
    <2>0. wk[w].pc # "off" /\ phase' = phase
      BY <1>2 DEF WorkerStep, Disturbs, Exit, Poll, LookForDue, TryLock, Locked, Take,
                  Commit, Return, Write, Leaves, Untrack,
                  ClaimFails, ClaimLost, WriteFails
    <2>1. \A v \in Workers \ {w} : wk'[v] = wk[v]
      BY <1>2, <1>t DEF WorkerStep, Disturbs, Exit, Poll, LookForDue, TryLock, Locked, Take,
                  Commit, Return, Write, Leaves, Untrack,
                  ClaimFails, ClaimLost, WriteFails, Runs
    <2>2. DownInv'
      BY <1>i, <2>0, <2>1 DEF DownInv
    <2>3. \A v \in Workers \ {w} : \A k \in Limited : lock'[k] = v => lock[k] = v
      BY <1>2, <1>t, NullAssumption DEF WorkerStep, Disturbs, Exit, Poll, LookForDue, TryLock, Locked, Take,
                  Commit, Return, Write, Leaves, Untrack,
                  ClaimFails, ClaimLost, WriteFails, Unlocked
    <2>4. \A k \in Limited : lock'[k] = w => wk'[w].pc \in {"locking", "locked", "taken"}
      <3>1. CASE \/ Exit(w) \/ Poll(w) \/ LookForDue(w) \/ Return(w) \/ Write(w)
                 \/ WriteFails(w) \/ Untrack(w)
        BY <1>i, <3>1 DEF Exit, Poll, LookForDue, Return, Write, WriteFails, Untrack, LockInv
      <3>2. CASE TryLock(w)
        <4>1. wk'[w].pc = wk[w].pc /\ wk[w].pc = "locking"
          BY <1>t, <3>2 DEF TryLock, WorkerState
        <4> QED
          BY <4>1
      <3>5. CASE Locked(w)
        <4>1. CASE HasLock(w)
          BY <1>t, <3>5, <4>1 DEF Locked, At
        <4>2. CASE ~HasLock(w)
          BY <3>5, <4>2 DEF Locked, HasLock
        <4> QED
          BY <4>1, <4>2
      <3>3. CASE Take(w)
        BY <1>i, <1>t, <3>3, NullAssumption DEF Take, LockInv, At, Unlocked
      <3>4. CASE Commit(w) \/ ClaimFails(w) \/ ClaimLost(w)
        BY <3>4, NullAssumption DEF Commit, ClaimFails, ClaimLost, Unlocked
      <3> QED
        BY <1>2, <3>1, <3>2, <3>3, <3>4, <3>5 DEF WorkerStep, Disturbs
    <2>5. LockInv'
      BY <1>i, <2>1, <2>3, <2>4 DEF LockInv
    <2> QED
      BY <2>2, <2>5
  <1>3. ASSUME NEW n \in Nodes, Ends(n) PROVE LockInv' /\ DownInv'
    <2>1. \A w \in Workers : wk'[w] = IF Home[w] = n THEN At("off") ELSE wk[w]
      BY <1>3 DEF Ends
    <2>2. \A w \in Workers : \A k \in Limited : lock'[k] = w => Home[w] # n /\ lock[k] = w
      BY <1>3, NullAssumption DEF Ends
    <2>3. LockInv'
      BY <1>i, <2>1, <2>2 DEF LockInv
    <2>4. DownInv'
      BY <1>3, <1>i, <1>t, <2>1 DEF DownInv, Ends, At
    <2> QED
      BY <2>3, <2>4
  <1>4. ASSUME NEW n \in Nodes, Run(n) PROVE LockInv' /\ DownInv'
    <2>1. \A w \in Workers : wk'[w] = IF Home[w] = n THEN At("idle") ELSE wk[w]
      BY <1>4 DEF Run
    <2>2. LockInv'
      BY <1>4, <1>i, <2>1 DEF Run, LockInv, DownInv
    <2>3. DownInv'
      BY <1>4, <1>i, <1>t, <2>1 DEF Run, DownInv
    <2> QED
      BY <2>2, <2>3
  <1>5. ASSUME NEW n \in Nodes,
               \/ StopRun(n) \/ StopFinished(n) \/ StopGivesUp(n) \/ ReleaseNext(n)
               \/ ReleaseDone(n) \/ StopClaim(n) \/ ReleaseFails(n)
        PROVE  LockInv' /\ DownInv'
    <2>1. lock' = lock /\ wk' = wk
      BY <1>5 DEF StopRun, StopFinished, StopGivesUp, ReleaseNext, ReleaseDone, StopClaim, ReleaseFails
    <2>2. \A m \in Nodes : phase'[m] = "down" => phase[m] = "down"
      BY <1>5, <1>t DEF StopRun, StopFinished, StopGivesUp, ReleaseNext, ReleaseDone, StopClaim, ReleaseFails
    <2> QED
      BY <1>i, <1>t, <2>1, <2>2 DEF LockInv, DownInv
  <1>6. CASE \E j \in JobIds : Enqueue(j) \/ Retry(j) \/ ComesDue(j) \/ Age(j) \/ Overrun(j)
    BY <1>1, <1>6 DEF Enqueue, Retry, ComesDue, Age, Overrun
  <1>7. CASE \E c \in Callers : Begin(c) \/ CallStep(c)
    BY <1>1, <1>7 DEF Begin, CallStep, Insert, Lookup, CommitTx, RollbackTx
  <1> QED
    BY <1>2, <1>3, <1>4, <1>5, <1>6, <1>7 DEF Next, NodeStep, Disturbs, Crash, ProcessExit

\* A worker comes by a job in two ways only: it picks a pending row that no other
\* claim has picked, or it commits the claim of the row it picked.
LEMMA WorkerChange ==
  ASSUME IInv, TypeOK', Next, NEW w \in Workers, wk'[w] # wk[w]
  PROVE  \/ wk'[w].pc \notin {"taken", "run", "write"}
         \/ /\ Take(w)
            /\ \E j \in JobIds : /\ wk'[w] = [At("taken") EXCEPT !.job = j]
                                 /\ row[j].state = "pending" /\ j \notin Taken
                                 /\ KindOf[j] \in FreeKinds(w) \cup Open(w)
         \/ Commit(w) /\ wk' = Runs(w, wk[w].job)
         \/ Return(w) /\ wk'[w].pc = "write" /\ wk'[w].job = wk[w].job
            /\ wk'[w].lockedAt = wk[w].lockedAt /\ wk'[w].attempts = wk[w].attempts
            /\ wk'[w].keyed = wk[w].keyed /\ wk[w].pc = "run"
  <1>t. wk \in [Workers -> WorkerState]
    BY DEF IInv, TypeOK
  <1>a. \A pc \in WorkerPCs : At(pc).pc = pc
    BY DEF At
  <1>1. ASSUME NEW v \in Workers, WorkerStep(v) \/ Disturbs(v), v # w PROVE FALSE
    BY <1>1, <1>t DEF WorkerStep, Disturbs, Exit, Poll, LookForDue, TryLock, Locked, Take,
                  Commit, Return, Write, Leaves, Untrack,
                ClaimFails, ClaimLost, WriteFails, Runs
  <1>2. CASE Exit(w) \/ Poll(w) \/ Locked(w) \/ ClaimFails(w) \/ ClaimLost(w) \/ Untrack(w)
    <2>1. PICK pc \in {"off", "idle", "claim", "locked"} : wk' = [wk EXCEPT ![w] = At(pc)]
      BY <1>2 DEF Exit, Poll, Locked, ClaimFails, ClaimLost, Untrack
    <2>2. wk'[w].pc = pc
      BY <2>1, <1>t DEF At
    <2> QED
      BY <2>2
  <1>3. CASE Take(w)
    <2>1. CASE wk' = [wk EXCEPT ![w] = At("idle")]
      BY <2>1, <1>t DEF At
    <2>2. CASE wk' # [wk EXCEPT ![w] = At("idle")]
      <3>1. PICK j \in (UNION {Due(k) : k \in FreeKinds(w) \cup Open(w)}) \ Taken :
              wk' = [wk EXCEPT ![w] = [At("taken") EXCEPT !.job = j]]
        BY <1>3, <2>2 DEF Take
      <3>4. PICK k \in FreeKinds(w) \cup Open(w) : j \in Due(k)
        BY <3>1
      <3>5. j \notin Taken
        OBVIOUS
      <3>2. /\ j \in JobIds /\ row[j].state = "pending"
            /\ KindOf[j] \in FreeKinds(w) \cup Open(w)
        BY <3>4 DEF Due
      <3>3. wk'[w] = [At("taken") EXCEPT !.job = j]
        BY <3>1, <1>t
      <3> QED
        BY <1>3, <3>2, <3>3, <3>5
    <2> QED
      BY <2>1, <2>2
  <1>4. CASE Commit(w)
    BY <1>4 DEF Commit
  <1>5. CASE Return(w)
    <2>1. PICK outcome \in Outcomes : wk' = [wk EXCEPT ![w] = [@ EXCEPT !.pc = "write", !.outcome = outcome]]
      BY <1>5 DEF Return, Outcomes
    <2>2. wk'[w] = [wk[w] EXCEPT !.pc = "write", !.outcome = outcome]
      BY <2>1, <1>t
    <2>3. wk[w] \in WorkerState
      BY <1>t
    <2>4. /\ wk'[w].pc = "write" /\ wk'[w].job = wk[w].job /\ wk'[w].lockedAt = wk[w].lockedAt
          /\ wk'[w].attempts = wk[w].attempts /\ wk'[w].keyed = wk[w].keyed
      BY <2>2, <2>3 DEF WorkerState
    <2> QED
      BY <1>5, <2>4 DEF Return
  <1>10. CASE Write(w) \/ WriteFails(w)
    BY <1>10, <1>t DEF Write, WriteFails, Leaves, At
  <1>11. CASE LookForDue(w)
    BY <1>11, <1>t DEF LookForDue, At
  <1>12. CASE TryLock(w)
    BY <1>12, <1>t DEF TryLock, WorkerState
  <1>6. ASSUME NEW n \in Nodes, Run(n) \/ Ends(n) PROVE wk'[w].pc \in {"idle", "off"}
    BY <1>6 DEF Run, Ends, At
  <1>7. ASSUME NEW n \in Nodes,
               \/ StopRun(n) \/ StopFinished(n) \/ StopGivesUp(n) \/ ReleaseNext(n)
               \/ ReleaseDone(n) \/ StopClaim(n) \/ ReleaseFails(n)
        PROVE  FALSE
    BY <1>7 DEF StopRun, StopFinished, StopGivesUp, ReleaseNext, ReleaseDone, StopClaim, ReleaseFails
  <1>8. CASE \E j \in JobIds : Enqueue(j) \/ Retry(j) \/ ComesDue(j) \/ Age(j) \/ Overrun(j)
    BY <1>8 DEF Enqueue, Retry, ComesDue, Age, Overrun
  <1>9. CASE \E c \in Callers : Begin(c) \/ CallStep(c)
    BY <1>9 DEF Begin, CallStep, Insert, Lookup, CommitTx, RollbackTx
  <1> QED
    BY <1>1, <1>2, <1>3, <1>4, <1>5, <1>6, <1>7, <1>8, <1>9, <1>10, <1>11, <1>12
       DEF Next, NodeStep, WorkerStep, Disturbs, Crash, ProcessExit

-----------------------------------------------------------------------------
(* What the steps do to the rows *)

\* The row j leaves its claim, or never had one.
Unclaimed(j) ==
    /\ row[j].state \in {"none", "draft", "running", "failed"}
    /\ row'[j].state # "running" /\ row'[j].lockedAt = NoStamp
    /\ row'[j].keyed => row'[j].state \in Live

\* Only the passing of time is noticed.
Ages(j) ==
    /\ row'[j].state = row[j].state /\ row'[j].lockedAt = row[j].lockedAt
    /\ row'[j].attempts = row[j].attempts /\ row'[j].keyed = row[j].keyed

Commits(w, j) == (Commit(w) \/ ClaimLost(w)) /\ wk[w].job = j

ClaimedRow(j) == [state |-> "running", due |-> FALSE, attempts |-> row[j].attempts + 1,
                  lockedAt |-> Now(j), stale |-> FALSE, keyed |-> row[j].keyed]

LEMMA RowChange ==
  ASSUME IInv, TypeOK', Next, NEW j \in JobIds, row'[j] # row[j]
  PROVE  \/ Unclaimed(j)
         \/ Ages(j)
         \/ /\ row'[j] = ClaimedRow(j)
            /\ \E w \in Workers : Commits(w, j)
  <1>t. row \in [JobIds -> Row] /\ row' \in [JobIds -> Row]
    BY DEF IInv, TypeOK
  <1>r. row[j] \in Row /\ RowInv
    BY <1>t DEF IInv
  <1>1. ASSUME NEW i \in JobIds, Enqueue(i) PROVE Unclaimed(j)
    BY <1>1, <1>t DEF Enqueue, Inserted, Unclaimed, Live
  <1>2. ASSUME NEW i \in JobIds, Retry(i) PROVE Unclaimed(j)
    BY <1>2, <1>t DEF Retry, Waiting, Unclaimed, Live
  <1>3. ASSUME NEW i \in JobIds, ComesDue(i) \/ Age(i) \/ Overrun(i) PROVE Ages(j)
    <2>1. i = j /\ (row'[j] = [row[j] EXCEPT !.due = TRUE] \/ row'[j] = [row[j] EXCEPT !.stale = TRUE])
      BY <1>3, <1>t DEF ComesDue, Age, Overrun
    <2> QED
      BY <1>r, <2>1 DEF Row, Ages
  <1>4. ASSUME NEW c \in Callers, Begin(c) \/ CallStep(c) PROVE Unclaimed(j)
    <2>1. CASE Begin(c) \/ Lookup(c)
      BY <2>1 DEF Begin, Lookup
    <2>2. CASE Insert(c)
      <3>1. PICK i \in JobIds :
              /\ row[i].state = "none"
              /\ row' = [row EXCEPT ![i] = Inserted(IF call[c].tx THEN "draft" ELSE "pending", TRUE, TRUE)]
        BY <2>2 DEF Insert
      <3> QED
        BY <1>t, <3>1 DEF Inserted, Unclaimed, Live
    <2>3. CASE CommitTx(c)
      <3>1. /\ row[call[c].job].state = "draft"
            /\ row' = [row EXCEPT ![call[c].job].state = "pending"]
        BY <2>3 DEF CommitTx, IInv, CallInv
      <3>2. call[c].job = j /\ row'[j] = [row[j] EXCEPT !.state = "pending"]
        BY <1>t, <3>1
      <3>3. row'[j].state = "pending" /\ row'[j].lockedAt = row[j].lockedAt
        BY <1>r, <3>2 DEF Row
      <3> QED
        BY <1>r, <3>1, <3>2, <3>3 DEF Unclaimed, RowInv, Live
    <2>4. CASE RollbackTx(c)
      BY <1>t, <2>4 DEF RollbackTx, IInv, CallInv, Unclaimed, NoRow
    <2> QED
      BY <1>4, <2>1, <2>2, <2>3, <2>4 DEF CallStep
  <1>5. ASSUME NEW w \in Workers, Poll(w) PROVE Unclaimed(j)
    <2>1. row[j].state = "running" /\ row'[j] = Waiting(row[j], TRUE, row[j].attempts)
      BY <1>5 DEF Poll, TakeBack
    <2> QED
      BY <2>1 DEF Waiting, Unclaimed, Live
  <1>6. ASSUME NEW w \in Workers, Commit(w) \/ ClaimLost(w)
        PROVE  row'[j] = ClaimedRow(j) /\ Commits(w, j)
    <2>1. row' = [row EXCEPT ![wk[w].job] = ClaimedRow(wk[w].job)]
      BY <1>6 DEF Commit, ClaimLost, Claimed, ClaimedRow
    <2> QED
      BY <1>6, <1>t, <2>1 DEF Commits
  <1>7. ASSUME NEW w \in Workers, Write(w) PROVE Unclaimed(j)
    <2>1. Holds(w, j) /\ row'[j] = Written(w, row[j])
      BY <1>7 DEF Write
    <2>2. row[j].state = "running"
      BY <2>1 DEF IInv, HolderUpToDate
    <2>3. \/ row'[j].state \in {"done", "failed"} /\ row'[j].lockedAt = NoStamp
             /\ row'[j].keyed = (row[j].keyed /\ ~wk[w].keyed)
          \/ row'[j].state = "pending" /\ row'[j].lockedAt = NoStamp
      BY <2>1 DEF Written, Finished, Released, Waiting
    <2>4. wk[w].keyed = row[j].keyed
      BY <2>1 DEF IInv, HolderUpToDate
    <2> QED
      BY <2>2, <2>3, <2>4 DEF Unclaimed, Live
  <1>8. ASSUME NEW n \in Nodes, ReleaseNext(n) PROVE Unclaimed(j)
    <2>1. PICK claim \in snap[n] :
            row' = IF row[claim[1]].state = "running" /\ row[claim[1]].lockedAt = claim[2]
                   THEN [row EXCEPT ![claim[1]] = Released(@)] ELSE row
      BY <1>8 DEF ReleaseNext
    <2>2. row[j].state = "running" /\ row'[j] = Released(row[j])
      BY <1>t, <2>1
    <2> QED
      BY <2>2 DEF Released, Waiting, Unclaimed, Live
  <1>9. ASSUME NEW w \in Workers, \/ Exit(w) \/ LookForDue(w) \/ TryLock(w) \/ Locked(w) \/ Take(w)
             \/ Return(w) \/ ClaimFails(w) \/ WriteFails(w) \/ Untrack(w)
        PROVE  FALSE
    BY <1>9 DEF Exit, LookForDue, TryLock, Locked, Take, Return, ClaimFails, WriteFails, Untrack
  <1>10. ASSUME NEW n \in Nodes,
               \/ Run(n) \/ ProcessExit(n) \/ StopRun(n) \/ StopFinished(n) \/ StopGivesUp(n)
               \/ ReleaseDone(n) \/ Crash(n) \/ StopClaim(n) \/ ReleaseFails(n)
        PROVE  FALSE
    BY <1>10 DEF Run, ProcessExit, StopRun, StopFinished, StopGivesUp, ReleaseDone, Crash, StopClaim, ReleaseFails
  <1> QED
    BY <1>1, <1>2, <1>3, <1>4, <1>5, <1>6, <1>7, <1>8, <1>9, <1>10 DEF Next, NodeStep, WorkerStep

-----------------------------------------------------------------------------
(* The invariant is inductive *)

\* The claim that publishes a row is its worker's alone, and leaves it running it
\* or knowing nothing of it.
LEMMA CommitChange ==
  ASSUME IInv, TypeOK', Next, NEW w \in Workers, NEW j \in JobIds, Commits(w, j)
  PROVE  /\ wk[w].pc = "taken"
         /\ \A v \in Workers \ {w} : wk'[v] = wk[v]
         /\ wk'[w] = At("idle") \/ wk' = Runs(w, j)
         /\ \A i \in JobIds \ {j} : row'[i] = row[i]
         /\ row'[j] = ClaimedRow(j)
         /\ Now(j) \in Stamps /\ ~InUse(j, Now(j))
         /\ row[j].state = "pending"
  <1>t. wk \in [Workers -> WorkerState] /\ row \in [JobIds -> Row]
    BY DEF IInv, TypeOK
  <1>1. wk[w].pc = "taken" /\ wk[w].job = j /\ Fresh(j) # {} /\ row' = Claimed(j)
        /\ (wk' = Runs(w, j) \/ wk' = [wk EXCEPT ![w] = At("idle")])
    BY DEF Commits, Commit, ClaimLost
  <1>2. Now(j) \in Stamps /\ ~InUse(j, Now(j))
    BY <1>1, NowType
  <1>3. row' = [row EXCEPT ![j] = ClaimedRow(j)]
    BY <1>1 DEF Claimed, ClaimedRow
  <1>4. \A v \in Workers \ {w} : wk'[v] = wk[v]
    BY <1>1, <1>t DEF Runs
  <1>5. row[j].state = "pending"
    BY <1>1 DEF IInv, TakenInv
  <1> QED
    BY <1>1, <1>2, <1>3, <1>4, <1>5, <1>t

LEMMA RunsFields ==
  ASSUME IInv, NEW w \in Workers, NEW j \in JobIds, wk' = Runs(w, j)
  PROVE  /\ wk'[w].pc = "run" /\ wk'[w].job = j /\ wk'[w].lockedAt = Now(j)
         /\ wk'[w].attempts = row[j].attempts + 1 /\ wk'[w].keyed = row[j].keyed
  BY DEF IInv, TypeOK, Runs

LEMMA RowStep ==
  ASSUME IInv, TypeOK', Next
  PROVE  RowInv'
  <1> SUFFICES ASSUME NEW j \in JobIds
               PROVE  /\ row'[j].lockedAt # NoStamp => row'[j].state = "running"
                      /\ row'[j].keyed => row'[j].state \in Live
    BY DEF RowInv
  <1>i. /\ row[j].lockedAt # NoStamp => row[j].state = "running"
        /\ row[j].keyed => row[j].state \in Live
    BY DEF IInv, RowInv
  <1>1. CASE row'[j] = row[j]
    BY <1>1, <1>i
  <1>2. CASE Unclaimed(j)
    BY <1>2 DEF Unclaimed
  <1>3. CASE Ages(j)
    BY <1>3, <1>i DEF Ages
  <1>4. CASE row'[j] = ClaimedRow(j)
    BY <1>4 DEF ClaimedRow, Live
  <1> QED
    BY <1>1, <1>2, <1>3, <1>4, RowChange

LEMMA TrackedStep ==
  ASSUME IInv, TypeOK', Next
  PROVE  TrackedInv' /\ StampsApart'
  <1>i. TrackedInv /\ StampsApart /\ TakenInv
    BY DEF IInv
  <1>1. ASSUME NEW w \in Workers, Tracked(w)'
        PROVE  /\ wk'[w].job \in JobIds /\ wk'[w].lockedAt \in Stamps
               /\ \/ Tracked(w) /\ wk'[w].job = wk[w].job /\ wk'[w].lockedAt = wk[w].lockedAt
                  \/ wk[w].pc = "taken" /\ wk' = Runs(w, wk'[w].job) /\ Commits(w, wk'[w].job)
    <2>1. CASE wk'[w] = wk[w]
      BY <1>1, <1>i, <2>1 DEF Tracked, TrackedInv
    <2>2. CASE Return(w) /\ wk'[w].pc = "write" /\ wk'[w].job = wk[w].job
            /\ wk'[w].lockedAt = wk[w].lockedAt /\ wk[w].pc = "run"
      BY <1>i, <2>2 DEF Tracked, TrackedInv
    <2>3. CASE Commit(w) /\ wk' = Runs(w, wk[w].job)
      <3>1. wk[w].pc = "taken" /\ wk[w].job \in JobIds
        BY <1>i, <2>3 DEF Commit, TakenInv
      <3>2. wk'[w].job = wk[w].job /\ wk'[w].lockedAt = Now(wk[w].job)
        BY <2>3, <3>1, RunsFields
      <3>3. Commits(w, wk[w].job)
        BY <2>3 DEF Commits
      <3>4. Now(wk[w].job) \in Stamps
        BY <3>1, <3>3, CommitChange
      <3> QED
        BY <2>3, <3>1, <3>2, <3>3, <3>4
    <2>4. CASE \E j \in JobIds : wk'[w] = [At("taken") EXCEPT !.job = j]
      BY <1>1, <2>4 DEF Tracked, At
    <2> QED
      BY <1>1, <2>1, <2>2, <2>3, <2>4, WorkerChange DEF Tracked
  <1>2. TrackedInv'
    BY <1>1 DEF TrackedInv
  <1>3. ASSUME NEW v \in Workers, NEW w \in Workers, v # w, Tracked(v)', Tracked(w)',
               wk'[v].job = wk'[w].job, wk'[v].lockedAt = wk'[w].lockedAt
        PROVE  FALSE
    <2>1. ASSUME NEW x \in Workers, NEW y \in Workers, x # y, Tracked(x)', Tracked(y)',
                 wk'[x].job = wk'[y].job, wk'[x].lockedAt = wk'[y].lockedAt,
                 wk' = Runs(x, wk'[x].job) /\ Commits(x, wk'[x].job)
          PROVE  FALSE
      <3>1. wk'[x].job \in JobIds
        BY <1>1, <2>1
      <3>2. wk'[y] = wk[y] /\ ~InUse(wk'[x].job, Now(wk'[x].job))
        BY <2>1, <3>1, CommitChange
      <3>3. wk'[x].lockedAt = Now(wk'[x].job)
        BY <2>1, <3>1, RunsFields
      <3> QED
        BY <2>1, <3>2, <3>3 DEF InUse
    <2> QED
      BY <1>1, <1>3, <1>i, <2>1 DEF StampsApart
  <1>4. StampsApart'
    BY <1>3 DEF StampsApart
  <1> QED
    BY <1>2, <1>4

LEMMA HolderStep ==
  ASSUME IInv, TypeOK', Next
  PROVE  HolderUpToDate'
  <1>i. HolderUpToDate /\ TrackedInv /\ TrackedInv' /\ TakenInv
    BY TrackedStep DEF IInv
  <1> SUFFICES ASSUME NEW w \in Workers, NEW j \in JobIds, Holds(w, j)'
               PROVE  /\ row'[j].state = "running"
                      /\ wk'[w].attempts = row'[j].attempts
                      /\ wk'[w].keyed = row'[j].keyed
    BY DEF HolderUpToDate
  <1>h. /\ wk'[w].pc \in {"run", "write"} /\ wk'[w].job = j
        /\ row'[j].lockedAt = wk'[w].lockedAt /\ row'[j].lockedAt # NoStamp
    BY <1>i, NullAssumption DEF Holds, Tracked, TrackedInv
  <1>1. ASSUME NEW v \in Workers, Commits(v, j), v # w PROVE FALSE
    <2>1. wk'[w] = wk[w] /\ row'[j] = ClaimedRow(j) /\ ~InUse(j, Now(j))
      BY <1>1, CommitChange
    <2>2. row'[j].lockedAt = Now(j)
      BY <2>1 DEF ClaimedRow
    <2> QED
      BY <1>h, <2>1, <2>2 DEF InUse
  <1>2. ASSUME Commits(w, j)
        PROVE  /\ row'[j].state = "running"
               /\ wk'[w].attempts = row'[j].attempts
               /\ wk'[w].keyed = row'[j].keyed
    <2>1. wk' = Runs(w, j) /\ row'[j] = ClaimedRow(j)
      <3>1. wk'[w] # At("idle")
        BY <1>h DEF At
      <3> QED
        BY <1>2, <3>1, CommitChange
    <2> QED
      BY <2>1, RunsFields DEF ClaimedRow
  <1>3. ASSUME ~ \E v \in Workers : Commits(v, j)
        PROVE  row'[j] = row[j] \/ Ages(j)
    BY <1>3, <1>h, RowChange DEF Unclaimed
  <1>4. ASSUME ~ \E v \in Workers : Commits(v, j)
        PROVE  /\ Holds(w, j)
               /\ wk'[w].attempts = wk[w].attempts /\ wk'[w].keyed = wk[w].keyed
    <2>1. \/ wk'[w] = wk[w]
          \/ /\ wk'[w].job = wk[w].job /\ wk'[w].lockedAt = wk[w].lockedAt
             /\ wk'[w].attempts = wk[w].attempts /\ wk'[w].keyed = wk[w].keyed /\ wk[w].pc = "run"
      <3>1. CASE \E i \in JobIds : wk'[w] = [At("taken") EXCEPT !.job = i]
        BY <1>h, <3>1 DEF At
      <3>2. CASE Commit(w) /\ wk' = Runs(w, wk[w].job)
        <4>1. wk[w].job \in JobIds
          BY <1>i, <3>2 DEF Commit, TakenInv
        <4> QED
          BY <1>4, <1>h, <3>2, <4>1, RunsFields DEF Commits
      <3> QED
        BY <1>h, <3>1, <3>2, WorkerChange
    <2>2. row'[j].lockedAt = row[j].lockedAt
      BY <1>3, <1>4 DEF Ages
    <2> QED
      BY <1>h, <2>1, <2>2 DEF Holds, Tracked
  <1> QED
    BY <1>1, <1>2, <1>3, <1>4, <1>i DEF HolderUpToDate, Ages

LEMMA CallStepInv ==
  ASSUME IInv, TypeOK', Next
  PROVE  CallInv' /\ CallsApart'
  <1>t. call \in [Callers -> CallState] /\ row \in [JobIds -> Row]
    BY DEF IInv, TypeOK, CallState
  <1>i. CallInv /\ CallsApart
    BY DEF IInv
  \* A draft changes only with the end of its own transaction.
  <1>1. ASSUME NEW j \in JobIds, row[j].state = "draft", row'[j].state # "draft"
        PROVE  \E c \in Callers : (CommitTx(c) \/ RollbackTx(c)) /\ call[c].job = j
    <2>1. ASSUME NEW i \in JobIds, Enqueue(i) \/ Retry(i) \/ ComesDue(i) \/ Age(i) \/ Overrun(i)
          PROVE  FALSE
      <3>1. CASE Enqueue(i)
        BY <1>1, <1>t, <3>1 DEF Enqueue
      <3>2. CASE Retry(i)
        BY <1>1, <1>t, <3>2 DEF Retry
      <3>3. CASE ComesDue(i) \/ Age(i) \/ Overrun(i)
        <4>1. row'[j] = row[j] \/ row'[j] = [row[j] EXCEPT !.due = TRUE] \/ row'[j] = [row[j] EXCEPT !.stale = TRUE]
          BY <1>t, <3>3 DEF ComesDue, Age, Overrun
        <4> QED
          BY <1>1, <1>t, <4>1 DEF Row
      <3> QED
        BY <2>1, <3>1, <3>2, <3>3
    <2>2. ASSUME NEW c \in Callers, Begin(c) \/ Insert(c) \/ Lookup(c)
          PROVE  FALSE
      <3>1. CASE Begin(c) \/ Lookup(c)
        BY <1>1, <3>1 DEF Begin, Lookup
      <3>2. CASE Insert(c)
        <4>1. row' = row \/ \E i \in JobIds : row[i].state = "none" /\
                 \E x : row' = [row EXCEPT ![i] = x]
          BY <3>2 DEF Insert
        <4> QED
          BY <1>1, <1>t, <4>1
      <3> QED
        BY <2>2, <3>1, <3>2
    <2>3. ASSUME NEW c \in Callers, CommitTx(c) \/ RollbackTx(c)
          PROVE  call[c].job = j
      BY <1>1, <1>i, <1>t, <2>3 DEF CommitTx, RollbackTx, CallInv
    <2>4. ASSUME NEW w \in Workers, WorkerStep(w) \/ Disturbs(w)
          PROVE  FALSE
      <3>1. CASE Commit(w) \/ ClaimLost(w)
        <4>1. wk[w].job \in JobIds /\ row[wk[w].job].state = "pending"
          BY <3>1 DEF Commit, ClaimLost, IInv, TakenInv
        <4> QED
          BY <1>1, <1>t, <3>1, <4>1 DEF Commit, ClaimLost, Claimed
      <3>2. CASE Poll(w)
        BY <1>1, <1>t, <3>2 DEF Poll, TakeBack
      <3>3. CASE Write(w)
        BY <1>1, <1>t, <3>3 DEF Write, IInv, HolderUpToDate
      <3>4. CASE \/ Exit(w) \/ LookForDue(w) \/ TryLock(w) \/ Locked(w) \/ Take(w)
             \/ Return(w) \/ ClaimFails(w) \/ WriteFails(w) \/ Untrack(w)
        BY <1>1, <3>4 DEF Exit, LookForDue, TryLock, Locked, Take, Return, ClaimFails, WriteFails, Untrack
      <3> QED
        BY <2>4, <3>1, <3>2, <3>3, <3>4 DEF WorkerStep, Disturbs
    <2>5. ASSUME NEW n \in Nodes, NodeStep(n) \/ Crash(n) \/ StopClaim(n) \/ ReleaseFails(n)
          PROVE  FALSE
      <3>1. CASE ReleaseNext(n)
        BY <1>1, <1>t, <3>1 DEF ReleaseNext
      <3>2. CASE ~ReleaseNext(n)
        BY <1>1, <2>5, <3>2 DEF NodeStep, Run, ProcessExit, StopRun, StopFinished, StopGivesUp,
           ReleaseDone, Crash, StopClaim, ReleaseFails
      <3> QED
        BY <3>1, <3>2
    <2> QED
      BY <2>1, <2>2, <2>3, <2>4, <2>5 DEF Next, CallStep, Disturbs
  \* A call opens a transaction with a row nobody had.
  <1>2. ASSUME NEW c \in Callers, call'[c].pc = "open", call'[c] # call[c]
        PROVE  /\ call'[c].job \in JobIds /\ row[call'[c].job].state = "none"
               /\ row'[call'[c].job].state = "draft"
               /\ \A b \in Callers \ {c} : call'[b] = call[b]
    <2>1. ASSUME NEW b \in Callers, Begin(b) \/ Lookup(b) \/ CommitTx(b) \/ RollbackTx(b)
          PROVE  FALSE
      BY <1>2, <1>t, <2>1 DEF Begin, Lookup, CommitTx, RollbackTx, Inserting, NoCall
    <2>2. ASSUME NEW b \in Callers, Insert(b)
          PROVE  /\ call'[c].job \in JobIds /\ row[call'[c].job].state = "none"
                 /\ row'[call'[c].job].state = "draft"
                 /\ \A a \in Callers \ {c} : call'[a] = call[a]
      <3>1. CASE call' = [call EXCEPT ![b].pc = "lookup"]
        BY <1>2, <1>t, <3>1 DEF CallState
      <3>2. CASE call' # [call EXCEPT ![b].pc = "lookup"]
        <4>1. PICK j \in JobIds :
                /\ row[j].state = "none"
                /\ row' = [row EXCEPT ![j] = Inserted(IF call[b].tx THEN "draft" ELSE "pending", TRUE, TRUE)]
                /\ call' = [call EXCEPT ![b] = IF call[b].tx
                                               THEN [@ EXCEPT !.pc = "open", !.job = j]
                                               ELSE NoCall]
          BY <2>2, <3>2 DEF Insert
        <4>2. b = c /\ \A a \in Callers \ {c} : call'[a] = call[a]
          BY <1>2, <1>t, <4>1
        <4>3. call[b].tx
          BY <1>2, <1>t, <4>1, <4>2 DEF NoCall
        <4>4. call'[c].job = j
          BY <1>t, <4>1, <4>2, <4>3 DEF CallState
        <4>5. row'[j].state = "draft"
          BY <1>t, <4>1, <4>3 DEF Inserted
        <4> QED
          BY <4>1, <4>2, <4>4, <4>5
      <3> QED
        BY <3>1, <3>2
    <2>3. ASSUME ~ \E b \in Callers : Begin(b) \/ CallStep(b)
          PROVE  call' = call
      BY <2>3 DEF Next, Enqueue, Retry, ComesDue, Age, Overrun, WorkerStep, Exit, Poll, LookForDue,
         TryLock, Locked, Take, Commit, Return, Write, Untrack, ClaimFails, ClaimLost, WriteFails, NodeStep, Run, ProcessExit,
         StopRun, StopFinished, StopGivesUp, ReleaseNext, ReleaseDone, Crash, StopClaim, ReleaseFails
    <2> QED
      BY <1>2, <2>1, <2>2, <2>3 DEF CallStep
  <1>3. ASSUME NEW c \in Callers, call'[c].pc = "open"
        PROVE  call'[c].job \in JobIds /\ row'[call'[c].job].state = "draft"
    <2>1. CASE call'[c] # call[c]
      BY <1>2, <1>3, <2>1
    <2>2. CASE call'[c] = call[c]
      <3>1. ASSUME NEW b \in Callers, CommitTx(b) \/ RollbackTx(b), call[b].job = call[c].job
            PROVE  FALSE
        <4>1. b = c
          BY <1>3, <1>i, <2>2, <3>1 DEF CommitTx, RollbackTx, CallsApart
        <4> QED
          BY <1>3, <1>t, <3>1, <4>1 DEF CommitTx, RollbackTx, NoCall
      <3> QED
        BY <1>1, <1>3, <1>i, <2>2, <3>1 DEF CallInv
    <2> QED
      BY <2>1, <2>2
  <1>4. CallInv'
    BY <1>3 DEF CallInv
  <1>5. CallsApart'
    BY <1>2, <1>i DEF CallInv, CallsApart
  <1> QED
    BY <1>4, <1>5

\* The running jobs of a kind grow by the committed claim of one, or not at all.
RunningNext(k) == {j \in JobIds : row'[j].state = "running" /\ KindOf[j] = k}

LEMMA RunningGrows ==
  ASSUME IInv, TypeOK', Next, NEW k \in Kinds
  PROVE  \/ RunningNext(k) \subseteq Running(k)
         \/ \E w \in Workers : \E j \in JobIds :
              Commits(w, j) /\ KindOf[j] = k /\ RunningNext(k) \subseteq Running(k) \cup {j}
  <1>1. CASE \E j \in JobIds : KindOf[j] = k /\ \E w \in Workers : Commits(w, j)
    <2>1. PICK j \in JobIds, w \in Workers : KindOf[j] = k /\ Commits(w, j)
      BY <1>1
    <2>2. \A i \in JobIds \ {j} : row'[i] = row[i]
      BY <2>1, CommitChange
    <2>3. RunningNext(k) \subseteq Running(k) \cup {j}
      BY <2>2 DEF Running, RunningNext
    <2> QED
      BY <2>1, <2>3
  <1>2. CASE ~ \E j \in JobIds : KindOf[j] = k /\ \E w \in Workers : Commits(w, j)
    <2>1. ASSUME NEW j \in JobIds, KindOf[j] = k, row'[j].state = "running"
          PROVE  row[j].state = "running"
      BY <1>2, <2>1, RowChange DEF Unclaimed, Ages
    <2> QED
      BY <2>1 DEF Running, RunningNext
  <1> QED
    BY <1>1, <1>2

LEMMA AddOne ==
  ASSUME NEW S, IsFiniteSet(S), NEW x
  PROVE  IsFiniteSet(S \cup {x}) /\ Cardinality(S \cup {x}) <= Cardinality(S) + 1
  <1>0. Cardinality(S) \in Nat
    BY FS_CardinalityType
  <1>1. CASE x \in S
    <2>1. S \cup {x} = S
      BY <1>1
    <2>2. Cardinality(S) <= Cardinality(S) + 1
      BY <1>0
    <2> QED
      BY <2>1, <2>2, Zenon
  <1>2. CASE x \notin S
    <2>1. IsFiniteSet(S \cup {x})
      BY <1>2, FS_AddElement
    <2>2. Cardinality(S \cup {x}) = Cardinality(S) + 1
      BY <1>2, FS_AddElement
    <2>3. \A m, n \in Nat : m = n + 1 => m <= n + 1
      OBVIOUS
    <2>4. Cardinality(S \cup {x}) \in Nat
      BY <2>1, FS_CardinalityType
    <2> QED
      BY <1>0, <2>1, <2>2, <2>3, <2>4
  <1> QED
    BY <1>1, <1>2

LEMMA RunningFinite == \A k : IsFiniteSet(Running(k)) /\ Cardinality(Running(k)) \in Nat
  <1>1. \A k : Running(k) \subseteq JobIds
    BY DEF Running
  <1> QED
    BY <1>1, JobAssumption, FS_Subset, FS_CardinalityType

\* A lock is given back only by the transaction that took it.
LEMMA LockKept ==
  ASSUME IInv, TypeOK', Next, NEW w \in Workers, NEW k \in Limited,
         lock[k] = w, wk'[w].pc = "taken"
  PROVE  lock'[k] = w
  <1>t. /\ wk \in [Workers -> WorkerState] /\ lock \in [Limited -> Workers \cup {Nobody}]
        /\ At("idle").pc = "idle" /\ At("off").pc = "off"
    BY DEF IInv, TypeOK, At
  <1>1. ASSUME NEW v \in Workers, WorkerStep(v) \/ Disturbs(v) PROVE lock'[k] = w
    <2>1. CASE \/ Exit(v) \/ Poll(v) \/ LookForDue(v) \/ Locked(v) \/ Return(v) \/ Write(v)
               \/ WriteFails(v) \/ Untrack(v)
      BY <2>1 DEF Exit, Poll, LookForDue, Locked, Return, Write, WriteFails, Untrack
    <2>2. CASE TryLock(v)
      BY <1>t, <2>2, NullAssumption DEF TryLock
    <2>3. CASE v # w /\ (Take(v) \/ Commit(v) \/ ClaimFails(v) \/ ClaimLost(v))
      BY <1>t, <2>3 DEF Take, Commit, ClaimFails, ClaimLost, Unlocked
    <2>4. CASE Take(w)
      BY <1>t, <2>4 DEF Take
    <2>5. CASE Commit(w) \/ ClaimFails(w) \/ ClaimLost(w)
      BY <1>t, <2>5 DEF Commit, ClaimFails, ClaimLost, Runs
    <2> QED
      BY <1>1, <2>1, <2>2, <2>3, <2>4, <2>5 DEF WorkerStep, Disturbs
  <1>2. ASSUME NEW n \in Nodes, Ends(n) PROVE lock'[k] = w
    BY <1>2, <1>t DEF Ends
  <1>3. ASSUME ~ \E v \in Workers : WorkerStep(v) \/ Disturbs(v),
               ~ \E n \in Nodes : Ends(n)
        PROVE  lock' = lock
    BY <1>3 DEF Next, Enqueue, Retry, ComesDue, Age, Overrun, Begin, CallStep, Insert, Lookup,
       CommitTx, RollbackTx, Disturbs, NodeStep, Run, ProcessExit, StopRun, StopFinished,
       StopGivesUp, ReleaseNext, ReleaseDone, Crash, StopClaim, ReleaseFails
  <1> QED
    BY <1>1, <1>2, <1>3

LEMMA TakenStep ==
  ASSUME IInv, TypeOK', Next
  PROVE  TakenInv' /\ TakenOnce'
  <1>i. TakenInv /\ TakenOnce
    BY DEF IInv
  <1>t. wk \in [Workers -> WorkerState] /\ row \in [JobIds -> Row]
        /\ KindOf \in [JobIds -> Kinds] /\ Cap \in [Kinds -> Nat] /\ Limited \subseteq Kinds
    BY JobAssumption, CapAssumption DEF IInv, TypeOK, Limited
  \* A pick just made.
  <1>1. ASSUME NEW w \in Workers, wk'[w].pc = "taken", wk'[w] # wk[w]
        PROVE  /\ Take(w) /\ wk'[w].job \in JobIds
               /\ row[wk'[w].job].state = "pending" /\ wk'[w].job \notin Taken
               /\ KindOf[wk'[w].job] \in FreeKinds(w) \cup Open(w)
    <2>1. ~(Commit(w) /\ wk' = Runs(w, wk[w].job))
      <3>1. ASSUME Commit(w), wk' = Runs(w, wk[w].job) PROVE FALSE
        BY <1>1, <1>i, <3>1, RunsFields DEF Commit, TakenInv
      <3> QED
        BY <3>1
    <2>2. PICK j \in JobIds : /\ wk'[w] = [At("taken") EXCEPT !.job = j]
                              /\ row[j].state = "pending" /\ j \notin Taken
                              /\ KindOf[j] \in FreeKinds(w) \cup Open(w) /\ Take(w)
      BY <1>1, <2>1, WorkerChange
    <2>3. wk'[w].job = j
      BY <2>2 DEF At
    <2> QED
      BY <2>2, <2>3
  \* A pick made before.
  <1>2. ASSUME NEW w \in Workers, wk'[w].pc = "taken", wk'[w] = wk[w]
        PROVE  /\ ~ \E v \in Workers : Commits(v, wk[w].job)
               /\ KindOf[wk[w].job] \in Limited =>
                    ~ \E v \in Workers : \E j \in JobIds : Commits(v, j) /\ KindOf[j] = KindOf[wk[w].job]
    <2>1. ASSUME Commits(w, wk[w].job) PROVE FALSE
      <3>1. wk'[w] = At("idle") \/ wk' = Runs(w, wk[w].job)
        BY <1>2, <1>i, <2>1, CommitChange DEF TakenInv
      <3> QED
        BY <1>2, <1>i, <3>1, RunsFields DEF At, TakenInv
    <2>2. ASSUME NEW v \in Workers, NEW j, Commits(v, j), v = w PROVE FALSE
      BY <2>1, <2>2 DEF Commits
    <2>3. ASSUME NEW v \in Workers, Commits(v, wk[w].job), v # w PROVE FALSE
      BY <1>2, <1>i, <2>3 DEF Commits, Commit, ClaimLost, TakenOnce
    <2>4. ASSUME NEW v \in Workers, NEW j \in JobIds, Commits(v, j), v # w,
                 KindOf[wk[w].job] \in Limited, KindOf[j] = KindOf[wk[w].job]
          PROVE  FALSE
      BY <1>2, <1>i, <2>4 DEF Commits, Commit, ClaimLost, TakenInv
    <2> QED
      BY <2>2, <2>3, <2>4
  <1>3. ASSUME NEW w \in Workers, wk'[w].pc = "taken"
        PROVE  /\ wk'[w].job \in JobIds
               /\ row'[wk'[w].job].state = "pending"
               /\ KindOf[wk'[w].job] \in Limited =>
                    /\ lock'[KindOf[wk'[w].job]] = w
                    /\ Cardinality(RunningNext(KindOf[wk'[w].job])) < Cap[KindOf[wk'[w].job]]
    <2>1. CASE wk'[w] # wk[w]
      <3>1. row' = row /\ lock' = lock
        <4>1. wk' # [wk EXCEPT ![w] = At("idle")]
          BY <1>3, <1>t DEF At
        <4> QED
          BY <1>1, <1>3, <2>1, <4>1 DEF Take
      <3>2. KindOf[wk'[w].job] \in Limited => KindOf[wk'[w].job] \in Open(w)
        BY <1>1, <1>3, <2>1 DEF FreeKinds
      <3>3. RunningNext(KindOf[wk'[w].job]) = Running(KindOf[wk'[w].job])
        BY <3>1 DEF Running, RunningNext
      <3> QED
        BY <1>1, <1>3, <2>1, <3>1, <3>2, <3>3 DEF Open
    <2>2. CASE wk'[w] = wk[w]
      <3> DEFINE j == wk[w].job
      <3>1. /\ j \in JobIds /\ row[j].state = "pending"
            /\ KindOf[j] \in Limited => lock[KindOf[j]] = w /\ Cardinality(Running(KindOf[j])) < Cap[KindOf[j]]
        BY <1>3, <1>i, <2>2 DEF TakenInv
      <3>2. row'[j].state = "pending"
        BY <1>2, <1>3, <2>2, <3>1, RowChange DEF Unclaimed, Ages
      <3>3. ASSUME KindOf[j] \in Limited
            PROVE  /\ lock'[KindOf[j]] = w
                   /\ Cardinality(RunningNext(KindOf[j])) < Cap[KindOf[j]]
        <4>1. lock'[KindOf[j]] = w
          BY <1>3, <3>1, <3>3, LockKept
        <4>2. RunningNext(KindOf[j]) \subseteq Running(KindOf[j])
          BY <1>2, <1>3, <1>t, <2>2, <3>1, <3>3, RunningGrows
        <4>3. /\ Cardinality(RunningNext(KindOf[j])) <= Cardinality(Running(KindOf[j]))
              /\ Cardinality(RunningNext(KindOf[j])) \in Nat
          BY <4>2, RunningFinite, FS_Subset, FS_CardinalityType
        <4>4. Cap[KindOf[j]] \in Nat
          BY <1>t, <3>1
        <4> QED
          BY <3>1, <3>3, <4>1, <4>3, <4>4, RunningFinite
      <3> QED
        BY <2>2, <3>1, <3>2, <3>3
    <2> QED
      BY <2>1, <2>2
  <1>4. TakenInv'
    BY <1>3 DEF TakenInv, Running, RunningNext
  <1>5. ASSUME NEW v \in Workers, NEW w \in Workers, wk'[v].pc = "taken", wk'[w].pc = "taken",
               wk'[v].job = wk'[w].job
        PROVE  v = w
    <2>1. CASE wk'[v] = wk[v] /\ wk'[w] = wk[w]
      BY <1>5, <1>i, <2>1 DEF TakenOnce
    <2>2. ASSUME NEW x \in Workers, NEW y \in Workers, x # y, wk'[x].pc = "taken", wk'[y].pc = "taken",
                 wk'[x].job = wk'[y].job, wk'[x] # wk[x]
          PROVE  FALSE
      <3>1. Take(x) /\ wk'[x].job \notin Taken
        BY <1>1, <2>2
      <3>2. wk'[y] = wk[y]
        BY <1>t, <2>2, <3>1 DEF Take
      <3> QED
        BY <2>2, <3>1, <3>2 DEF Taken
    <2> QED
      BY <1>5, <2>1, <2>2
  <1>6. TakenOnce'
    BY <1>5 DEF TakenOnce
  <1> QED
    BY <1>4, <1>6

LEMMA CapStep ==
  ASSUME IInv, TypeOK', Next
  PROVE  CapRespected'
  <1> SUFFICES ASSUME NEW k \in Limited PROVE Cardinality(RunningNext(k)) <= Cap[k]
    BY DEF CapRespected, Limited, Running, RunningNext
  <1>t. k \in Kinds /\ Cap[k] \in Nat /\ Cardinality(Running(k)) <= Cap[k]
        /\ Cardinality(Running(k)) \in Nat /\ IsFiniteSet(Running(k))
    BY CapAssumption, RunningFinite DEF Limited, IInv, CapRespected
  <1>1. CASE RunningNext(k) \subseteq Running(k)
    <2>1. Cardinality(RunningNext(k)) <= Cardinality(Running(k)) /\ Cardinality(RunningNext(k)) \in Nat
      BY <1>1, <1>t, FS_Subset, FS_CardinalityType
    <2> QED
      BY <1>t, <2>1
  <1>2. ASSUME NEW w \in Workers, NEW j \in JobIds, Commits(w, j), KindOf[j] = k,
               RunningNext(k) \subseteq Running(k) \cup {j}
        PROVE  Cardinality(RunningNext(k)) <= Cap[k]
    <2>1. Cardinality(Running(k)) < Cap[k]
      BY <1>2 DEF Commits, Commit, ClaimLost, IInv, TakenInv
    <2>2. /\ IsFiniteSet(Running(k) \cup {j})
          /\ Cardinality(Running(k) \cup {j}) <= Cardinality(Running(k)) + 1
      BY <1>t, AddOne
    <2>3. /\ Cardinality(RunningNext(k)) <= Cardinality(Running(k) \cup {j})
          /\ Cardinality(RunningNext(k)) \in Nat /\ Cardinality(Running(k) \cup {j}) \in Nat
      BY <1>2, <2>2, FS_Subset, FS_CardinalityType
    <2> QED
      BY <1>t, <2>1, <2>2, <2>3
  <1> QED
    BY <1>1, <1>2, <1>t, RunningGrows

-----------------------------------------------------------------------------
(* Theorems *)

LEMMA InitInv == Init => IInv
  <1> SUFFICES ASSUME Init PROVE IInv
    OBVIOUS
  <1>1. TypeOK
    <2>1. NoCall \in CallState
      BY DEF NoCall, CallState
    <2>2. At("off") \in WorkerState
      BY AtType DEF WorkerPCs
    <2> QED
      BY <2>1, <2>2, NoRowType, BudgetAssumption DEF Init, TypeOK, CallState, Phases, NoClaims
  <1>2. /\ \A w \in Workers : wk[w].pc = "off"
        /\ \A j \in JobIds : row[j].state = "none" /\ row[j].lockedAt = NoStamp /\ ~row[j].keyed
        /\ \A c \in Callers : call[c].pc = "idle"
        /\ \A k \in Limited : lock[k] = Nobody
    BY DEF Init, At, NoRow, NoCall
  <1>3. CapRespected
    <2>1. \A k \in Limited : Running(k) = {}
      BY <1>2 DEF Running
    <2> QED
      BY <2>1, FS_EmptySet, CapAssumption DEF CapRespected, Limited
  <1> QED
    BY <1>1, <1>2, <1>3, NullAssumption
       DEF IInv, LockInv, DownInv, TakenInv, TakenOnce, RowInv, TrackedInv, StampsApart, CallInv,
           CallsApart, HolderUpToDate, Holds, Tracked

LEMMA NextInv == IInv /\ [Next]_vars => IInv'
  <1> SUFFICES ASSUME IInv, [Next]_vars PROVE IInv'
    OBVIOUS
  <1>1. CASE Next
    <2>1. TypeOK /\ TakenInv
      BY DEF IInv
    <2>2. \A w \in Workers : wk[w].pc = "taken" => wk[w].job \in JobIds
      BY <2>1 DEF TakenInv
    <2>3. TypeOK'
      BY <1>1, <2>1, <2>2, TypeEnqueue, TypeWorker, TypeNode DEF Next
    <2> QED
      BY <1>1, <2>3, LockStep, RowStep, TrackedStep, HolderStep, CallStepInv, TakenStep, CapStep DEF IInv
  <1>2. CASE UNCHANGED vars
    <2>1. /\ row' = row /\ lock' = lock /\ wk' = wk /\ phase' = phase
          /\ claimed' = claimed /\ snap' = snap
          /\ call' = call /\ upsets' = upsets
      BY <1>2 DEF vars
    <2>2. TypeOK' /\ LockInv' /\ DownInv' /\ TakenOnce' /\ RowInv' /\ CallInv' /\ CallsApart'
      BY <2>1 DEF IInv, TypeOK, LockInv, DownInv, TakenOnce, RowInv, CallInv, CallsApart
    <2>3. TakenInv' /\ CapRespected'
      BY <2>1 DEF IInv, TakenInv, CapRespected, Running
    <2>4. TrackedInv' /\ StampsApart' /\ HolderUpToDate'
      BY <2>1 DEF IInv, TrackedInv, StampsApart, HolderUpToDate, Holds, Tracked
    <2> QED
      BY <2>2, <2>3, <2>4 DEF IInv
  <1> QED
    BY <1>1, <1>2

THEOREM Invariant == Spec => []IInv
  BY InitInv, NextInv, PTL DEF Spec

\* Every variable keeps its type.
THEOREM TypeCorrect == Spec => []TypeOK
  <1>1. IInv => TypeOK
    BY DEF IInv
  <1> QED
    BY <1>1, Invariant, PTL

\* The running jobs of a limited kind never exceed its cap, two workers never hold the
\* claim of one job, and what a worker read at its claim is current while the claim holds,
\* with any number of nodes, workers and jobs.
THEOREM ClaimsHold == Spec => []ClaimsKept
  <1>1. IInv => ClaimsKept
    BY DEF IInv, ClaimsKept, StampsApart, OneHolder, Holds
  <1> QED
    BY <1>1, Invariant, PTL

-----------------------------------------------------------------------------
(* How jobs end *)

\* A worker about to fail a job for good has counted the attempts of its budget.
OutcomeInv == \A w \in Workers :
    wk[w].pc = "write" /\ wk[w].outcome = "failed" => wk[w].attempts >= MaxAttempts

LEMMA OutcomeInit == Init => OutcomeInv
  BY DEF Init, OutcomeInv, At

LEMMA OutcomeStep ==
  ASSUME IInv, OutcomeInv, TypeOK', [Next]_vars
  PROVE  OutcomeInv'
  <1>t. wk \in [Workers -> WorkerState] /\ wk' \in [Workers -> WorkerState]
    BY DEF IInv, TypeOK
  <1> SUFFICES ASSUME NEW w \in Workers, wk'[w].pc = "write", wk'[w].outcome = "failed"
               PROVE  wk'[w].attempts >= MaxAttempts
    BY DEF OutcomeInv
  <1>1. ASSUME NEW v \in Workers, Return(v) PROVE wk'[w].attempts >= MaxAttempts
    <2>1. PICK outcome :
            /\ wk' = [wk EXCEPT ![v] = [@ EXCEPT !.pc = "write", !.outcome = outcome]]
            /\ outcome = "failed" => wk[v].attempts >= MaxAttempts
      <3> DEFINE Decided(ok) == CASE ok -> "done"
                                [] ~ok /\ Cancelled(Home[v]) -> "release"
                                [] ~ok /\ ~Cancelled(Home[v]) /\ wk[v].attempts >= MaxAttempts -> "failed"
                                [] OTHER -> "retry"
      <3>1. PICK ok \in BOOLEAN :
              wk' = [wk EXCEPT ![v] = [@ EXCEPT !.pc = "write", !.outcome = Decided(ok)]]
        BY <1>1 DEF Return
      <3>2. Decided(ok) = "failed" => wk[v].attempts >= MaxAttempts
        OBVIOUS
      <3> HIDE DEF Decided
      <3> QED
        BY <3>1, <3>2
    <2>2. CASE v = w
      <3>1. wk'[w] = [wk[w] EXCEPT !.pc = "write", !.outcome = outcome]
        BY <1>t, <2>1, <2>2
      <3>2. wk'[w].outcome = outcome /\ wk'[w].attempts = wk[w].attempts
        BY <1>t, <3>1 DEF WorkerState
      <3> QED
        BY <2>1, <2>2, <3>2
    <2>3. CASE v # w
      BY <1>t, <2>1, <2>3 DEF OutcomeInv
    <2> QED
      BY <2>2, <2>3
  <1>2. CASE wk'[w] = wk[w]
    BY <1>2 DEF OutcomeInv
  <1>3. ASSUME NEW v \in Workers, wk' = [wk EXCEPT ![v] = At("off")] \/ wk' = [wk EXCEPT ![v] = At("claim")]
                 \/ wk' = [wk EXCEPT ![v] = At("idle")] \/ wk' = [wk EXCEPT ![v] = At("locked")]
        PROVE  wk'[w].attempts >= MaxAttempts
    BY <1>t, <1>2, <1>3 DEF At
  <1>4. ASSUME NEW v \in Workers, Take(v) PROVE wk'[w].attempts >= MaxAttempts
    <2>1. CASE wk' = [wk EXCEPT ![v] = At("idle")]
      BY <1>3, <2>1
    <2>2. CASE \E i \in JobIds \cup {NoJob} \cup DOMAIN row : wk' = [wk EXCEPT ![v] = [At("taken") EXCEPT !.job = i]]
      BY <1>t, <1>2, <2>2 DEF At
    <2>3. \A k : Due(k) \subseteq JobIds
      BY DEF Due
    <2> QED
      BY <1>4, <2>1, <2>2, <2>3 DEF Take
  <1>5. ASSUME NEW v \in Workers, Commit(v) PROVE wk'[w].attempts >= MaxAttempts
    BY <1>t, <1>2, <1>5 DEF Commit, Runs
  <1>6. ASSUME NEW n \in Nodes, Run(n) \/ Crash(n) \/ ProcessExit(n)
        PROVE  wk'[w].attempts >= MaxAttempts
    BY <1>t, <1>2, <1>6 DEF Run, Crash, ProcessExit, Ends, At
  <1>7. CASE UNCHANGED vars
    BY <1>2, <1>7 DEF vars
  <1>8. ASSUME NEW v \in Workers, Exit(v) \/ Poll(v) \/ Locked(v) \/ ClaimFails(v)
                 \/ ClaimLost(v) \/ Untrack(v)
        PROVE  wk'[w].attempts >= MaxAttempts
    BY <1>3, <1>8 DEF Exit, Poll, Locked, ClaimFails, ClaimLost, Untrack
  <1>12. ASSUME NEW v \in Workers, Write(v) \/ WriteFails(v) PROVE wk'[w].attempts >= MaxAttempts
    BY <1>t, <1>2, <1>12 DEF Write, WriteFails, Leaves, At
  <1>13. ASSUME NEW v \in Workers, LookForDue(v) PROVE wk'[w].attempts >= MaxAttempts
    BY <1>t, <1>2, <1>13 DEF LookForDue, At
  <1>14. ASSUME NEW v \in Workers, TryLock(v) PROVE wk'[w].attempts >= MaxAttempts
    <2>1. wk[v].pc = "locking" /\ wk'[v].pc = wk[v].pc /\ \A u \in Workers \ {v} : wk'[u] = wk[u]
      BY <1>t, <1>14 DEF TryLock, WorkerState
    <2> QED
      BY <1>2, <2>1
  <1>9. ASSUME NEW j \in JobIds, Enqueue(j) \/ Retry(j) \/ ComesDue(j) \/ Age(j) \/ Overrun(j)
        PROVE  wk' = wk
    BY <1>9 DEF Enqueue, Retry, ComesDue, Age, Overrun
  <1>10. ASSUME NEW c \in Callers, Begin(c) \/ CallStep(c) PROVE wk' = wk
    BY <1>10 DEF Begin, CallStep, Insert, Lookup, CommitTx, RollbackTx
  <1>11. ASSUME NEW n \in Nodes, StopRun(n) \/ StopFinished(n) \/ StopGivesUp(n) \/ ReleaseNext(n)
                  \/ ReleaseDone(n) \/ StopClaim(n) \/ ReleaseFails(n)
         PROVE  wk' = wk
    BY <1>11 DEF StopRun, StopFinished, StopGivesUp, ReleaseNext, ReleaseDone, StopClaim, ReleaseFails
  <1> QED
    BY <1>1, <1>2, <1>4, <1>5, <1>6, <1>7, <1>8, <1>9, <1>10, <1>11, <1>12, <1>13, <1>14
    DEF Next, WorkerStep, NodeStep

\* The row j gives its key up only at its end, and fails only out of budget.
EndsWell(j) ==
    /\ row[j].keyed /\ ~row'[j].keyed => row'[j].state \in {"done", "failed", "none"}
    /\ row[j].state # "failed" /\ row'[j].state = "failed" => row[j].attempts >= MaxAttempts

LEMMA RowsEndWell ==
  ASSUME IInv, OutcomeInv, TypeOK', Next, NEW j \in JobIds, row'[j] # row[j]
  PROVE  EndsWell(j)
  <1>t. row \in [JobIds -> Row] /\ row' \in [JobIds -> Row]
    BY DEF IInv, TypeOK
  <1>r. row[j] \in Row /\ RowInv
    BY <1>t DEF IInv
  <1>k. ASSUME row'[j].keyed = row[j].keyed, row'[j].state # "failed" PROVE EndsWell(j)
    BY <1>k DEF EndsWell
  <1>1. ASSUME NEW i \in JobIds, Enqueue(i) PROVE EndsWell(j)
    BY <1>1, <1>t, <1>r DEF Enqueue, Inserted, EndsWell, RowInv, Live
  <1>2. ASSUME NEW i \in JobIds, Retry(i) PROVE EndsWell(j)
    BY <1>2, <1>t, <1>k DEF Retry, Waiting
  <1>3. ASSUME Ages(j) PROVE EndsWell(j)
    BY <1>3 DEF Ages, EndsWell
  <1>4. ASSUME NEW c \in Callers, Begin(c) \/ CallStep(c) PROVE EndsWell(j)
    <2>1. CASE Begin(c) \/ Lookup(c)
      BY <2>1 DEF Begin, Lookup
    <2>2. CASE Insert(c)
      <3>1. PICK i \in JobIds :
              /\ row[i].state = "none"
              /\ row' = [row EXCEPT ![i] = Inserted(IF call[c].tx THEN "draft" ELSE "pending", TRUE, TRUE)]
        BY <2>2 DEF Insert
      <3> QED
        BY <1>t, <3>1 DEF Inserted, EndsWell
    <2>3. CASE CommitTx(c)
      <3>1. call[c].job = j /\ row'[j] = [row[j] EXCEPT !.state = "pending"]
        BY <1>t, <2>3 DEF CommitTx
      <3> QED
        BY <1>r, <3>1, <1>k DEF Row
    <2>4. CASE RollbackTx(c)
      BY <1>t, <2>4 DEF RollbackTx, EndsWell, NoRow
    <2> QED
      BY <1>4, <2>1, <2>2, <2>3, <2>4 DEF CallStep
  <1>5. ASSUME NEW w \in Workers, Poll(w) PROVE EndsWell(j)
    BY <1>5, <1>k DEF Poll, TakeBack, Waiting
  <1>6. ASSUME row'[j] = ClaimedRow(j) PROVE EndsWell(j)
    BY <1>6, <1>k DEF ClaimedRow
  <1>7. ASSUME NEW w \in Workers, Write(w) PROVE EndsWell(j)
    <2>1. Holds(w, j) /\ row'[j] = Written(w, row[j]) /\ wk[w].pc = "write"
      BY <1>7 DEF Write
    <2>2. CASE wk[w].outcome = "failed"
      <3>1. wk[w].attempts >= MaxAttempts /\ wk[w].attempts = row[j].attempts
        BY <2>1, <2>2 DEF OutcomeInv, IInv, HolderUpToDate
      <3>2. row'[j].state = "failed"
        BY <2>1, <2>2 DEF Written, Finished
      <3> QED
        BY <3>1, <3>2 DEF EndsWell
    <2>3. CASE wk[w].outcome = "done"
      BY <2>1, <2>3 DEF Written, Finished, EndsWell
    <2>4. CASE wk[w].outcome \notin {"done", "failed"}
      BY <2>1, <2>4, <1>k DEF Written, Released, Waiting
    <2> QED
      BY <2>2, <2>3, <2>4
  <1>8. ASSUME NEW n \in Nodes, ReleaseNext(n) PROVE EndsWell(j)
    <2>1. PICK claim \in snap[n] :
            row' = IF row[claim[1]].state = "running" /\ row[claim[1]].lockedAt = claim[2]
                   THEN [row EXCEPT ![claim[1]] = Released(@)] ELSE row
      BY <1>8 DEF ReleaseNext
    <2>2. row'[j] = Released(row[j])
      BY <1>t, <2>1
    <2> QED
      BY <2>2, <1>k DEF Released, Waiting
  <1>9. ASSUME NEW i \in JobIds, ComesDue(i) \/ Age(i) \/ Overrun(i) PROVE Ages(j)
    <2>1. i = j /\ (row'[j] = [row[j] EXCEPT !.due = TRUE] \/ row'[j] = [row[j] EXCEPT !.stale = TRUE])
      BY <1>9, <1>t DEF ComesDue, Age, Overrun
    <2> QED
      BY <1>r, <2>1 DEF Row, Ages
  <1>10. ASSUME NEW w \in Workers, Commit(w) \/ ClaimLost(w) PROVE row'[j] = ClaimedRow(j)
    <2>1. row' = [row EXCEPT ![wk[w].job] = ClaimedRow(wk[w].job)]
      BY <1>10 DEF Commit, ClaimLost, Claimed, ClaimedRow
    <2> QED
      BY <1>t, <2>1
  <1>11. ASSUME NEW w \in Workers, \/ Exit(w) \/ LookForDue(w) \/ TryLock(w) \/ Locked(w) \/ Take(w)
             \/ Return(w) \/ ClaimFails(w) \/ WriteFails(w) \/ Untrack(w)
         PROVE  FALSE
    BY <1>11 DEF Exit, LookForDue, TryLock, Locked, Take, Return, ClaimFails, WriteFails, Untrack
  <1>12. ASSUME NEW n \in Nodes,
               \/ Run(n) \/ ProcessExit(n) \/ StopRun(n) \/ StopFinished(n) \/ StopGivesUp(n)
               \/ ReleaseDone(n) \/ Crash(n) \/ StopClaim(n) \/ ReleaseFails(n)
         PROVE  FALSE
    BY <1>12 DEF Run, ProcessExit, StopRun, StopFinished, StopGivesUp, ReleaseDone, Crash, StopClaim, ReleaseFails
  <1> QED
    BY <1>1, <1>2, <1>3, <1>4, <1>5, <1>6, <1>7, <1>8, <1>9, <1>10, <1>11, <1>12 DEF Next, NodeStep, WorkerStep

LEMMA OutcomesHold == Spec => []OutcomeInv
  <1>1. IInv /\ IInv' /\ OutcomeInv /\ [Next]_vars => OutcomeInv'
    BY OutcomeStep DEF IInv
  <1> QED
    BY <1>1, OutcomeInit, Invariant, PTL DEF Spec

LEMMA StepsEndWell ==
  ASSUME IInv, IInv', OutcomeInv, [Next]_vars, NEW j \in JobIds
  PROVE  EndsWell(j)
  <1>1. CASE Next /\ row'[j] # row[j]
    BY <1>1, RowsEndWell DEF IInv
  <1>2. CASE row'[j] = row[j]
    BY <1>2 DEF EndsWell
  <1> QED
    BY <1>1, <1>2 DEF vars

\* A job keeps its key until it finishes, and no longer.
THEOREM KeysFollowJobs == Spec => KeyFollowsJob
  <1>1. IInv /\ IInv' /\ OutcomeInv /\ [Next]_vars =>
          [\A j \in JobIds :
              /\ row'[j].keyed => row'[j].state \in Live
              /\ row[j].keyed /\ ~row'[j].keyed => row'[j].state \in {"done", "failed", "none"}]_vars
    BY StepsEndWell DEF IInv, RowInv, EndsWell
  <1> QED
    BY <1>1, Invariant, OutcomesHold, PTL DEF Spec, KeyFollowsJob

\* A job fails for good only after the attempts of its budget.
THEOREM BudgetUsed == Spec => FailsOnlyOutOfBudget
  <1>1. IInv /\ IInv' /\ OutcomeInv /\ [Next]_vars =>
          [\A j \in JobIds : row[j].state # "failed" /\ row'[j].state = "failed" =>
              row[j].attempts >= MaxAttempts]_vars
    BY StepsEndWell DEF EndsWell
  <1> QED
    BY <1>1, Invariant, OutcomesHold, PTL DEF Spec, FailsOnlyOutOfBudget

-----------------------------------------------------------------------------
(* Jobs implements WorkQueue: every step is a step of the abstract queue, or *)
(* one it does not see.                                                      *)

\* The worker whose claim holds is the owner.
LEMMA OwnerIs ==
  ASSUME StampsApart, NEW j \in JobIds, NEW w \in Workers, Holds(w, j)
  PROVE  Owner(j) = w
  BY DEF Owner, StampsApart, Holds

LEMMA OwnerNextIs ==
  ASSUME StampsApart', NEW j \in JobIds, NEW w \in Workers, Holds(w, j)'
  PROVE  Owner(j)' = w
  BY DEF Owner, StampsApart, Holds

LEMMA OwnerNextNobody ==
  ASSUME NEW j \in JobIds, \A w \in Workers : ~Holds(w, j)'
  PROVE  Owner(j)' = Nobody
  BY DEF Owner

LEMMA OwnerRange ==
  ASSUME NEW j \in JobIds
  PROVE  /\ Owner(j) \in Workers \cup {Nobody}
         /\ Owner(j) # Nobody => Holds(Owner(j), j)
  BY DEF Owner

LEMMA OwnerKept ==
  ASSUME IInv, IInv', NEW j \in JobIds, \A w \in Workers : Holds(w, j)' <=> Holds(w, j)
  PROVE  Owner(j)' = Owner(j)
  <1>1. CASE \E w \in Workers : Holds(w, j)
    <2>1. PICK w \in Workers : Holds(w, j)
      BY <1>1
    <2> QED
      BY <2>1, OwnerIs, OwnerNextIs DEF IInv
  <1>2. CASE ~ \E w \in Workers : Holds(w, j)
    BY <1>2 DEF Owner
  <1> QED
    BY <1>1, <1>2

\* What the worker w holds of its claim is left alone.
ClaimLeft(w) ==
    \/ wk'[w] = wk[w]
    \/ ~Tracked(w) /\ ~Tracked(w)'
    \/ Tracked(w) /\ Tracked(w)' /\ wk'[w].job = wk[w].job /\ wk'[w].lockedAt = wk[w].lockedAt

LEMMA ClaimsLeft ==
  ASSUME NEW j \in JobIds, NEW w \in Workers, ClaimLeft(w), row'[j].lockedAt = row[j].lockedAt
  PROVE  Holds(w, j)' <=> Holds(w, j)
  BY DEF ClaimLeft, Holds, Tracked

\* A row without a stamp has no owner.
LEMMA UnstampedNext ==
  ASSUME IInv', NEW j \in JobIds, row'[j].lockedAt = NoStamp
  PROVE  Owner(j)' = Nobody
  <1>1. \A w \in Workers : ~Holds(w, j)'
    BY NullAssumption DEF IInv, TrackedInv, Holds
  <1> QED
    BY <1>1, OwnerNextNobody

LEMMA Unstamped ==
  ASSUME IInv, NEW j \in JobIds, row[j].lockedAt = NoStamp
  PROVE  Owner(j) = Nobody
  BY NullAssumption DEF IInv, TrackedInv, Holds, Owner

LEMMA NotRunningUnowned ==
  ASSUME IInv, NEW j \in JobIds, row[j].state # "running"
  PROVE  row[j].lockedAt = NoStamp /\ Owner(j) = Nobody
  BY Unstamped DEF IInv, RowInv

-----------------------------------------------------------------------------
(* The steps of WorkQueue, said of one job at a time *)

Same(j) == Status(j)' = Status(j) /\ Owner(j)' = Owner(j)

LEMMA Stutters ==
  ASSUME \A j \in JobIds : Same(j)
  PROVE  UNCHANGED Queue!vars
  BY DEF Same, Queue!vars

LEMMA Submits ==
  ASSUME NEW j \in JobIds, Status(j) = "none", Status(j)' = "pending", Owner(j)' = Owner(j),
         \A i \in JobIds \ {j} : Same(i)
  PROVE  Queue!Next
  <1>1. Queue!Submit(j)
    BY DEF Same, Queue!Submit
  <1> QED
    BY <1>1 DEF Queue!Next

LEMMA Readmits ==
  ASSUME NEW j \in JobIds, Status(j) = "failed", Status(j)' = "pending", Owner(j)' = Owner(j),
         \A i \in JobIds \ {j} : Same(i)
  PROVE  Queue!Next
  <1>1. Queue!Readmit(j)
    BY DEF Same, Queue!Readmit
  <1> QED
    BY <1>1 DEF Queue!Next

LEMMA Gives ==
  ASSUME NEW j \in JobIds, Status(j) = "pending", Status(j)' = "running",
         KindOf[j] \in Limited => Cardinality(Running(KindOf[j])) < Cap[KindOf[j]],
         Owner(j)' \in Workers \cup {Nobody},
         \A i \in JobIds \ {j} : Same(i)
  PROVE  Queue!Next
  <1>1. Queue!Slots(KindOf[j]) = Running(KindOf[j])
    BY DEF Queue!Slots, Running, Status
  <1>2. KindOf[j] \in Kinds
    BY JobAssumption
  <1>3. Queue!Cardinality(Running(KindOf[j])) = Cardinality(Running(KindOf[j]))
    BY DEF Queue!Cardinality, Cardinality
  <1>4. Queue!Give(j)
    BY <1>1, <1>2, <1>3 DEF Same, Queue!Give, Limited
  <1> QED
    BY <1>4 DEF Queue!Next

LEMMA Finishes ==
  ASSUME NEW j \in JobIds, Status(j) = "running", Owner(j) # Nobody,
         Status(j)' \in {"done", "failed"}, Owner(j)' = Nobody,
         \A i \in JobIds \ {j} : Same(i)
  PROVE  Queue!Next
  <1>0. PICK s \in {"done", "failed"} : Status(j)' = s
    OBVIOUS
  <1>1. [i \in JobIds |-> Status(i)]' = [[i \in JobIds |-> Status(i)] EXCEPT ![j] = s]
    BY <1>0 DEF Same
  <1>2. [i \in JobIds |-> Owner(i)]' = [[i \in JobIds |-> Owner(i)] EXCEPT ![j] = Nobody]
    <2>1. \A i \in JobIds : Owner(i)' = IF i = j THEN Nobody ELSE Owner(i)
      BY DEF Same
    <2> QED
      BY <2>1
  <1>3. Queue!End(j)
    BY <1>1, <1>2 DEF Queue!End
  <1> QED
    BY <1>3 DEF Queue!Next

LEMMA Requeues ==
  ASSUME NEW S \in SUBSET JobIds,
         \A j \in S : Status(j) = "running" /\ Status(j)' = "pending" /\ Owner(j)' = Nobody,
         \A i \in JobIds \ S : Same(i)
  PROVE  Queue!Next
  <1>1. Queue!Requeue(S)
    BY DEF Same, Queue!Requeue
  <1> QED
    BY <1>1 DEF Queue!Next

LEMMA Vanishes ==
  ASSUME NEW S \in SUBSET JobIds,
         \A j \in S : Owner(j) # Nobody /\ Status(j)' = Status(j) /\ Owner(j)' = Nobody,
         \A i \in JobIds \ S : Same(i)
  PROVE  Queue!Next
  <1>1. Queue!Vanish(S)
    BY DEF Same, Queue!Vanish
  <1> QED
    BY <1>1 DEF Queue!Next

-----------------------------------------------------------------------------
(* What each step is to the queue *)

\* A step that leaves every claim and every row's stamp alone gives no job an owner.
LEMMA OwnersKept ==
  ASSUME IInv, IInv', \A w \in Workers : ClaimLeft(w),
         NEW j \in JobIds, row'[j].lockedAt = row[j].lockedAt
  PROVE  Owner(j)' = Owner(j)
  BY ClaimsLeft, OwnerKept

\* Enqueueing, and Retry: a row that is not running changes.
LEMMA QueueEnqueue ==
  ASSUME IInv, IInv',
         \/ \E j \in JobIds : Enqueue(j) \/ Retry(j)
         \/ \E c \in Callers : Begin(c) \/ CallStep(c)
  PROVE  Queue!Next \/ UNCHANGED Queue!vars
  <1>t. row \in [JobIds -> Row]
    BY DEF IInv, TypeOK
  <1>w. wk' = wk
    BY DEF Enqueue, Retry, Begin, CallStep, Insert, Lookup, CommitTx, RollbackTx
  <1>c. \A w \in Workers : ClaimLeft(w)
    BY <1>w DEF ClaimLeft
  <1>0. ASSUME NEW j \in JobIds, row[j].state # "running", row'[j].lockedAt = NoStamp,
               \A i \in JobIds \ {j} : row'[i] = row[i]
        PROVE  /\ Owner(j)' = Owner(j)
               /\ \A i \in JobIds \ {j} : Same(i)
    <2>1. row'[j].lockedAt = row[j].lockedAt
      BY <1>0, NotRunningUnowned
    <2>2. \A i \in JobIds : Owner(i)' = Owner(i)
      BY <1>0, <1>c, <2>1, OwnersKept
    <2> QED
      BY <1>0, <2>2 DEF Same, Status
  <1>1. ASSUME NEW j \in JobIds, Enqueue(j) PROVE Queue!Next
    <2>1. PICK due \in BOOLEAN : row' = [row EXCEPT ![j] = Inserted("pending", due, FALSE)]
      BY <1>1 DEF Enqueue
    <2>2. /\ row[j].state = "none"
          /\ row'[j].state = "pending" /\ row'[j].lockedAt = NoStamp
          /\ \A i \in JobIds \ {j} : row'[i] = row[i]
      BY <1>1, <1>t, <2>1 DEF Enqueue, Inserted
    <2> QED
      BY <1>0, <2>2, Submits DEF Status
  <1>2. ASSUME NEW j \in JobIds, Retry(j) PROVE Queue!Next
    <2>1. /\ row[j].state = "failed"
          /\ row'[j].state = "pending" /\ row'[j].lockedAt = NoStamp
          /\ \A i \in JobIds \ {j} : row'[i] = row[i]
      BY <1>2, <1>t DEF Retry, Waiting
    <2> QED
      BY <1>0, <2>1, Readmits DEF Status
  <1>3. ASSUME row' = row PROVE UNCHANGED Queue!vars
    <2>1. \A j \in JobIds : Same(j)
      BY <1>3, <1>c, OwnersKept DEF Same, Status
    <2> QED
      BY <2>1, Stutters
  <1>4. ASSUME NEW c \in Callers, Insert(c), row' # row PROVE Queue!Next \/ UNCHANGED Queue!vars
    <2>1. PICK j \in JobIds :
            /\ row[j].state = "none"
            /\ row' = [row EXCEPT ![j] = Inserted(IF call[c].tx THEN "draft" ELSE "pending", TRUE, TRUE)]
      BY <1>4 DEF Insert
    <2>2. /\ row'[j].state \in {"draft", "pending"} /\ row'[j].lockedAt = NoStamp
          /\ \A i \in JobIds \ {j} : row'[i] = row[i]
      BY <1>t, <2>1 DEF Inserted
    <2>3. CASE row'[j].state = "pending"
      BY <1>0, <2>1, <2>2, <2>3, Submits DEF Status
    <2>4. CASE row'[j].state = "draft"
      <3>1. Same(j)
        BY <1>0, <2>1, <2>2, <2>4 DEF Status, Same
      <3> QED
        BY <1>0, <2>1, <2>2, <3>1, Stutters
    <2> QED
      BY <2>2, <2>3, <2>4
  <1>5. ASSUME NEW c \in Callers, CommitTx(c) PROVE Queue!Next
    <2>1. PICK j \in JobIds : j = call[c].job /\ row[j].state = "draft"
      BY <1>5 DEF CommitTx, IInv, CallInv
    <2>2. row[j].lockedAt = NoStamp
      BY <2>1, NotRunningUnowned
    <2>3. row[j] \in Row /\ row' = [row EXCEPT ![j] = [row[j] EXCEPT !.state = "pending"]]
      BY <1>5, <1>t, <2>1 DEF CommitTx
    <2>4. [row[j] EXCEPT !.state = "pending"].state = "pending"
          /\ [row[j] EXCEPT !.state = "pending"].lockedAt = row[j].lockedAt
      BY <2>3 DEF Row
    <2>5. /\ row'[j].state = "pending" /\ row'[j].lockedAt = NoStamp
          /\ \A i \in JobIds \ {j} : row'[i] = row[i]
      BY <1>t, <2>1, <2>2, <2>3, <2>4
    <2> QED
      BY <1>0, <2>1, <2>5, Submits DEF Status
  <1>6. ASSUME NEW c \in Callers, RollbackTx(c) PROVE UNCHANGED Queue!vars
    <2>1. PICK j \in JobIds : j = call[c].job /\ row[j].state = "draft"
      BY <1>6 DEF RollbackTx, IInv, CallInv
    <2>2. /\ row'[j].state = "none" /\ row'[j].lockedAt = NoStamp
          /\ \A i \in JobIds \ {j} : row'[i] = row[i]
      BY <1>6, <1>t, <2>1 DEF RollbackTx, NoRow
    <2>3. Same(j)
      BY <1>0, <2>1, <2>2 DEF Status, Same
    <2> QED
      BY <1>0, <2>1, <2>2, <2>3, Stutters
  <1>7. ASSUME NEW c \in Callers, Begin(c) \/ Lookup(c) PROVE row' = row
    BY <1>7 DEF Begin, Lookup
  <1> QED
    BY <1>1, <1>2, <1>3, <1>4, <1>5, <1>6, <1>7 DEF CallStep

\* The passing of time, and what a worker does before its claim commits, are not seen.
LEMMA QueueStutters ==
  ASSUME IInv, IInv', \A w \in Workers : ClaimLeft(w),
         \A j \in JobIds : row'[j].state = row[j].state /\ row'[j].lockedAt = row[j].lockedAt
  PROVE  UNCHANGED Queue!vars
  <1>1. \A j \in JobIds : Same(j)
    BY OwnersKept DEF Same, Status
  <1> QED
    BY <1>1, Stutters

\* So for every worker but one, which holds nothing before the step or after it.
LEMMA OthersLeft ==
  ASSUME NEW w \in Workers, wk \in [Workers -> WorkerState], NEW r, wk' = [wk EXCEPT ![w] = r],
         ClaimLeft(w)
  PROVE  \A v \in Workers : ClaimLeft(v)
  BY DEF ClaimLeft

LEMMA QueueTime ==
  ASSUME IInv, IInv', NEW j \in JobIds, ComesDue(j) \/ Age(j) \/ Overrun(j)
  PROVE  UNCHANGED Queue!vars
  <1>t. row \in [JobIds -> Row] /\ row[j] \in Row
    BY DEF IInv, TypeOK
  <1>1. \A w \in Workers : ClaimLeft(w)
    BY DEF ComesDue, Age, Overrun, ClaimLeft
  <1>2. row' = [row EXCEPT ![j] = [row[j] EXCEPT !.due = TRUE]] \/ row' = [row EXCEPT ![j] = [row[j] EXCEPT !.stale = TRUE]]
    BY <1>t DEF ComesDue, Age, Overrun
  <1>3. /\ [row[j] EXCEPT !.due = TRUE].state = row[j].state /\ [row[j] EXCEPT !.due = TRUE].lockedAt = row[j].lockedAt
        /\ [row[j] EXCEPT !.stale = TRUE].state = row[j].state /\ [row[j] EXCEPT !.stale = TRUE].lockedAt = row[j].lockedAt
    BY <1>t DEF Row
  <1>4. \A i \in JobIds : row'[i].state = row[i].state /\ row'[i].lockedAt = row[i].lockedAt
    BY <1>t, <1>2, <1>3
  <1> QED
    BY <1>1, <1>4, QueueStutters

\* Poll takes back the jobs of stale claims.
LEMMA QueuePoll ==
  ASSUME IInv, IInv', NEW w \in Workers, Poll(w)
  PROVE  Queue!Next
  <1> DEFINE S == {j \in JobIds : row[j].state = "running" /\ row[j].stale}
  <1>t. wk \in [Workers -> WorkerState]
    BY DEF IInv, TypeOK
  <1>1. wk' = [wk EXCEPT ![w] = At("claim")] /\ ClaimLeft(w)
    BY <1>t DEF Poll, ClaimLeft, Tracked, At
  <1>2. \A v \in Workers : ClaimLeft(v)
    BY <1>1, <1>t, OthersLeft
  <1>3. ASSUME NEW j \in S PROVE Status(j) = "running" /\ Status(j)' = "pending" /\ Owner(j)' = Nobody
    <2>1. row[j].state = "running" /\ row'[j] = Waiting(row[j], TRUE, row[j].attempts)
      BY <1>3 DEF Poll, TakeBack
    <2>2. row'[j].state = "pending" /\ row'[j].lockedAt = NoStamp
      BY <2>1 DEF Waiting
    <2> QED
      BY <2>1, <2>2, UnstampedNext DEF Status
  <1>4. ASSUME NEW j \in JobIds \ S PROVE Same(j)
    <2>1. row'[j] = row[j]
      BY <1>4 DEF Poll, TakeBack
    <2> QED
      BY <1>2, <2>1, OwnersKept DEF Same, Status
  <1> QED
    BY <1>3, <1>4, Requeues

\* A worker that looks for work, a handler that returns and an entry that goes from
\* q.claimed change no claim that holds.
LEMMA QueueClaiming ==
  ASSUME IInv, IInv', NEW w \in Workers,
         \/ Exit(w) \/ LookForDue(w) \/ TryLock(w) \/ Locked(w) \/ Take(w) \/ ClaimFails(w)
         \/ Return(w) \/ Untrack(w)
  PROVE  UNCHANGED Queue!vars
  <1>t. wk \in [Workers -> WorkerState]
    BY DEF IInv, TypeOK
  <1>1. row' = row
    BY DEF Exit, LookForDue, TryLock, Locked, Take, ClaimFails, Return, Untrack
  <1>2. CASE \/ Exit(w) \/ LookForDue(w) \/ TryLock(w) \/ Locked(w) \/ Take(w) \/ ClaimFails(w)
             \/ Untrack(w)
    <2>1. wk[w].pc \in {"idle", "claim", "locking", "locked", "taken", "leave"}
      BY <1>2 DEF Exit, LookForDue, TryLock, Locked, Take, ClaimFails, Untrack
    <2>2. \/ \E pc \in {"off", "idle", "locked"} : wk' = [wk EXCEPT ![w] = At(pc)]
          \/ \E j : wk' = [wk EXCEPT ![w] = [At("taken") EXCEPT !.job = j]]
          \/ \E T : wk' = [wk EXCEPT ![w] = [At("locking") EXCEPT !.tries = T]]
          \/ \E T : wk' = [wk EXCEPT ![w] = [wk[w] EXCEPT !.tries = T]] /\ wk[w].pc = "locking"
      BY <1>2 DEF Exit, LookForDue, TryLock, Locked, Take, ClaimFails, Untrack
    <2>3. wk' = [wk EXCEPT ![w] = wk'[w]] /\ ~Tracked(w)'
      <3>1. CASE \E pc \in {"off", "idle", "locked"} : wk' = [wk EXCEPT ![w] = At(pc)]
        BY <1>t, <3>1 DEF At, Tracked
      <3>2. CASE \E j : wk' = [wk EXCEPT ![w] = [At("taken") EXCEPT !.job = j]]
        BY <1>t, <3>2 DEF At, Tracked
      <3>3. CASE \E T : wk' = [wk EXCEPT ![w] = [At("locking") EXCEPT !.tries = T]]
        BY <1>t, <3>3 DEF At, Tracked
      <3>4. CASE \E T : wk' = [wk EXCEPT ![w] = [wk[w] EXCEPT !.tries = T]] /\ wk[w].pc = "locking"
        BY <1>t, <3>4 DEF WorkerState, Tracked
      <3> QED
        BY <2>2, <3>1, <3>2, <3>3, <3>4
    <2>4. ClaimLeft(w)
      BY <1>t, <2>1, <2>3 DEF ClaimLeft, Tracked
    <2> QED
      BY <1>1, <1>t, <2>3, <2>4, OthersLeft, QueueStutters
  <1>3. CASE Return(w)
    <2>1. PICK outcome \in Outcomes : wk' = [wk EXCEPT ![w] = [wk[w] EXCEPT !.pc = "write", !.outcome = outcome]]
      BY <1>3 DEF Return, Outcomes
    <2>2. wk[w] \in WorkerState /\ wk[w].pc = "run"
      BY <1>3, <1>t DEF Return
    <2>3. wk'[w] = [wk[w] EXCEPT !.pc = "write", !.outcome = outcome]
      BY <1>t, <2>1
    <2>4. wk'[w].pc = "write" /\ wk'[w].job = wk[w].job /\ wk'[w].lockedAt = wk[w].lockedAt
      BY <2>2, <2>3 DEF WorkerState
    <2>5. ClaimLeft(w)
      BY <2>2, <2>4 DEF ClaimLeft, Tracked
    <2> QED
      BY <1>1, <1>t, <2>1, <2>5, OthersLeft, QueueStutters
  <1> QED
    BY <1>2, <1>3

\* A commit gives the job to the worker that made the claim, or to nobody when the
\* answer is lost.
LEMMA QueueCommit ==
  ASSUME IInv, IInv', Next, NEW w \in Workers, NEW j \in JobIds, Commits(w, j)
  PROVE  Queue!Next
  <1>1. /\ wk[w].pc = "taken" /\ wk[w].job = j
        /\ \A v \in Workers \ {w} : wk'[v] = wk[v]
        /\ wk'[w] = At("idle") \/ wk' = Runs(w, j)
        /\ \A i \in JobIds \ {j} : row'[i] = row[i]
        /\ row'[j].state = "running" /\ row'[j].lockedAt = Now(j)
        /\ ~InUse(j, Now(j))
        /\ row[j].state = "pending"
    <2>1. wk[w].job = j
      BY DEF Commits
    <2>2. TypeOK'
      BY DEF IInv
    <2>3. row'[j] = ClaimedRow(j)
      BY <2>2, CommitChange
    <2>4. row'[j].state = "running" /\ row'[j].lockedAt = Now(j)
      BY <2>3 DEF ClaimedRow
    <2> QED
      BY <2>1, <2>2, <2>4, CommitChange
  <1>2. ASSUME NEW i \in JobIds \ {j} PROVE Same(i)
    <2>1. \A v \in Workers : Holds(v, i)' <=> Holds(v, i)
      <3>1. ASSUME NEW v \in Workers \ {w} PROVE Holds(v, i)' <=> Holds(v, i)
        BY <1>1, <1>2, <3>1 DEF Holds, Tracked
      <3>2. ~Holds(w, i) /\ ~Holds(w, i)'
        <4>1. CASE wk'[w] = At("idle")
          BY <1>1, <4>1 DEF Holds, Tracked, At
        <4>2. CASE wk' = Runs(w, j)
          BY <1>1, <1>2, <4>2, RunsFields DEF Holds, Tracked
        <4> QED
          BY <1>1, <4>1, <4>2
      <3> QED
        BY <3>1, <3>2
    <2> QED
      BY <1>1, <1>2, <2>1, OwnerKept DEF Same, Status
  <1>3. \A v \in Workers \ {w} : ~Holds(v, j)'
    BY <1>1 DEF Holds, InUse
  <1>4. Owner(j)' \in Workers \cup {Nobody}
    <2>1. CASE Holds(w, j)'
      BY <2>1, OwnerNextIs DEF IInv
    <2>2. CASE ~Holds(w, j)'
      BY <1>3, <2>2, OwnerNextNobody
    <2> QED
      BY <2>1, <2>2
  <1>5. KindOf[j] \in Limited => Cardinality(Running(KindOf[j])) < Cap[KindOf[j]]
    BY <1>1 DEF IInv, TakenInv
  <1> QED
    BY <1>1, <1>2, <1>4, <1>5, Gives DEF Status

\* An outcome ends the job or puts it back, and only the owner's does.
LEMMA QueueWrite ==
  ASSUME IInv, IInv', NEW w \in Workers, Write(w)
  PROVE  Queue!Next \/ UNCHANGED Queue!vars
  <1>t. wk \in [Workers -> WorkerState]
    BY DEF IInv, TypeOK
  <1>1. /\ wk[w].pc = "write" /\ \A v \in Workers \ {w} : wk'[v] = wk[v]
        /\ wk'[w].pc = "leave"
        /\ \A j \in JobIds : row'[j] = IF Holds(w, j) THEN Written(w, row[j]) ELSE row[j]
    BY <1>t DEF Write, Leaves, At
  <1>2. ASSUME NEW i \in JobIds, ~Holds(w, i) PROVE Same(i)
    <2>1. row'[i] = row[i]
      BY <1>1, <1>2
    <2>2. \A v \in Workers : Holds(v, i)' <=> Holds(v, i)
      BY <1>1, <1>2, <1>t, <2>1 DEF Holds, Tracked
    <2> QED
      BY <2>1, <2>2, OwnerKept DEF Same, Status
  <1>3. CASE \A j \in JobIds : ~Holds(w, j)
    BY <1>2, <1>3, Stutters
  <1>4. ASSUME NEW j \in JobIds, Holds(w, j) PROVE Queue!Next
    <2>1. row[j].state = "running" /\ Owner(j) = w
      BY <1>4, OwnerIs DEF IInv, HolderUpToDate
    <2>2. row'[j] = Written(w, row[j])
      BY <1>1, <1>4
    <2>3. row'[j].lockedAt = NoStamp /\ row'[j].state \in {"done", "failed", "pending"}
      BY <2>2 DEF Written, Finished, Released, Waiting
    <2>4. Owner(j)' = Nobody
      BY <2>3, UnstampedNext
    <2>5. \A i \in JobIds \ {j} : Same(i)
      BY <1>2, <1>4 DEF Holds
    <2>6. CASE row'[j].state \in {"done", "failed"}
      BY <2>1, <2>4, <2>5, <2>6, Finishes, NullAssumption DEF Status
    <2>7. CASE row'[j].state = "pending"
      <3>1. Status(j) = "running" /\ Status(j)' = "pending"
        BY <2>1, <2>7 DEF Status
      <3>2. \A i \in {j} : Status(i) = "running" /\ Status(i)' = "pending" /\ Owner(i)' = Nobody
        BY <2>4, <3>1
      <3>3. {j} \in SUBSET JobIds
        OBVIOUS
      <3> QED
        BY <2>5, <3>2, <3>3, Requeues
    <2> QED
      BY <2>3, <2>6, <2>7
  <1> QED
    BY <1>3, <1>4

\* A failed write, a crash, an exit: the owners that end vanish.
LEMMA QueueVanish ==
  ASSUME IInv, IInv', row' = row, NEW W \in SUBSET Workers,
         \A w \in W : ~Tracked(w)',
         \A w \in Workers \ W : wk'[w] = wk[w]
  PROVE  Queue!Next
  <1> DEFINE S == {j \in JobIds : \E w \in W : Holds(w, j)}
  <1>1. ASSUME NEW j \in S PROVE Owner(j) # Nobody /\ Status(j)' = Status(j) /\ Owner(j)' = Nobody
    <2>1. PICK w \in W : Holds(w, j)
      OBVIOUS
    <2>2. Owner(j) = w
      BY <2>1, OwnerIs DEF IInv
    <2>3. \A v \in Workers \ W : ~Holds(v, j)
      BY <2>1 DEF IInv, StampsApart, Holds
    <2>4. \A v \in Workers : ~Holds(v, j)'
      BY <2>3 DEF Holds, Tracked
    <2> QED
      BY <2>2, <2>4, OwnerNextNobody, NullAssumption DEF Status
  <1>2. ASSUME NEW j \in JobIds \ S PROVE Same(j)
    <2>1. \A v \in Workers : Holds(v, j)' <=> Holds(v, j)
      BY <1>2 DEF Holds, Tracked
    <2> QED
      BY <2>1, OwnerKept DEF Same, Status
  <1> QED
    BY <1>1, <1>2, Vanishes

LEMMA QueueNode ==
  ASSUME IInv, IInv', NEW n \in Nodes, NodeStep(n) \/ Crash(n) \/ StopClaim(n) \/ ReleaseFails(n)
  PROVE  Queue!Next \/ UNCHANGED Queue!vars
  <1>t. wk \in [Workers -> WorkerState] /\ row \in [JobIds -> Row]
        /\ snap \in [Nodes -> SUBSET (JobIds \X Stamps)]
    BY DEF IInv, TypeOK
  <1>1. CASE Run(n)
    <2>1. ASSUME NEW w \in Workers PROVE ClaimLeft(w)
      BY <1>1 DEF Run, ClaimLeft, Tracked, At, IInv, DownInv
    <2> QED
      BY <1>1, <2>1, QueueStutters DEF Run
  <1>2. CASE Crash(n) \/ ProcessExit(n)
    <2> DEFINE W == {w \in Workers : Home[w] = n}
    <2>1. row' = row /\ wk' = [w \in Workers |-> IF Home[w] = n THEN At("off") ELSE wk[w]]
      BY <1>2 DEF Crash, ProcessExit, Ends
    <2>2. \A w \in W : ~Tracked(w)'
      BY <2>1 DEF Tracked, At
    <2> QED
      BY <2>1, <2>2, QueueVanish
  <1>3. CASE StopRun(n) \/ StopFinished(n) \/ StopGivesUp(n) \/ ReleaseDone(n) \/ StopClaim(n) \/ ReleaseFails(n)
    <2>1. row' = row /\ wk' = wk
      BY <1>3 DEF StopRun, StopFinished, StopGivesUp, ReleaseDone, StopClaim, ReleaseFails
    <2> QED
      BY <2>1, QueueStutters DEF ClaimLeft
  <1>4. CASE ReleaseNext(n)
    <2>0. wk' = wk
      BY <1>4 DEF ReleaseNext
    <2>1. PICK claim \in snap[n] :
            row' = IF row[claim[1]].state = "running" /\ row[claim[1]].lockedAt = claim[2]
                   THEN [row EXCEPT ![claim[1]] = Released(@)] ELSE row
      BY <1>4 DEF ReleaseNext
    <2>2. CASE row' = row
      BY <2>0, <2>2, QueueStutters DEF ClaimLeft
    <2>3. CASE row' # row
      <3>1. PICK j \in JobIds : j = claim[1]
        BY <1>t
      <3>2. row[j].state = "running" /\ row' = [row EXCEPT ![j] = Released(row[j])]
        BY <2>1, <2>3, <3>1
      <3>3. row'[j].state = "pending" /\ row'[j].lockedAt = NoStamp
        BY <1>t, <3>2 DEF Released, Waiting
      <3>4. \A i \in JobIds \ {j} : Same(i)
        BY <2>0, <3>2, OwnersKept DEF ClaimLeft, Same, Status
      <3>5. Status(j) = "running" /\ Status(j)' = "pending" /\ Owner(j)' = Nobody
        BY <3>2, <3>3, UnstampedNext DEF Status
      <3>6. \A i \in {j} : Status(i) = "running" /\ Status(i)' = "pending" /\ Owner(i)' = Nobody
        BY <3>5
      <3>7. {j} \in SUBSET JobIds
        OBVIOUS
      <3> QED
        BY <3>4, <3>6, <3>7, Requeues
    <2> QED
      BY <2>2, <2>3
  <1> QED
    BY <1>1, <1>2, <1>3, <1>4 DEF NodeStep

LEMMA QueueInit == Init => Queue!Init
  BY DEF Init, Queue!Init, Status, Owner, NoRow, Holds, Tracked, At

LEMMA QueueStep ==
  ASSUME IInv, IInv', [Next]_vars
  PROVE  Queue!Next \/ UNCHANGED Queue!vars
  <1>1. CASE UNCHANGED vars
    BY <1>1, QueueStutters DEF vars, ClaimLeft
  <1>2. ASSUME NEW w \in Workers, Write(w) \/ WriteFails(w) PROVE Queue!Next \/ UNCHANGED Queue!vars
    <2>1. CASE WriteFails(w)
      <3>1. /\ row' = row /\ wk \in [Workers -> WorkerState]
            /\ wk' = [wk EXCEPT ![w] = [At("leave") EXCEPT !.job = wk[w].job]]
        BY <2>1 DEF WriteFails, Leaves, IInv, TypeOK
      <3>2. ~Tracked(w)'
        BY <3>1 DEF Tracked, At
      <3>3. {w} \in SUBSET Workers /\ (\A v \in {w} : ~Tracked(v)') /\ \A v \in Workers \ {w} : wk'[v] = wk[v]
        BY <3>1, <3>2
      <3> QED
        BY <3>1, <3>3, QueueVanish
    <2> QED
      BY <1>2, <2>1, QueueWrite
  <1>3. ASSUME NEW w \in Workers, Commit(w) \/ ClaimLost(w), Next PROVE Queue!Next
    <2>1. PICK j \in JobIds : Commits(w, j)
      BY <1>3 DEF IInv, TakenInv, Commits, Commit, ClaimLost
    <2> QED
      BY <1>3, <2>1, QueueCommit
  <1>4. CASE Next
    BY <1>2, <1>3, <1>4, QueueEnqueue, QueueTime, QueuePoll, QueueClaiming, QueueNode DEF Next, WorkerStep
  <1> QED
    BY <1>1, <1>4

\* The rows and the claims that hold are the abstract queue: a job is given to one worker
\* at a time within its kind's cap, and ended only by the one it was last given to, across
\* takeovers, retries, releases at shutdown, crashes and lost commits.
THEOREM JobsImplementQueue == Spec => QueueSpec
  <1>1. IInv /\ IInv' /\ [Next]_vars => [Queue!Next]_(Queue!vars)
    BY QueueStep
  <1> QED
    BY <1>1, QueueInit, Invariant, PTL DEF Spec, QueueSpec, Queue!Spec
=============================================================================
