---------------------------- MODULE OutboundHooks ----------------------------
(***************************************************************************)
(* Outbound webhooks (packs/hooks): a delivery is one event for one        *)
(* endpoint; each attempt is a job of the queue, and a failed attempt      *)
(* enqueues the job of the next one.  The queue is not modelled again: its *)
(* steps are those of WorkQueue, which Jobs is shown to implement, so a    *)
(* job may be given to a second worker while the first one, presumed dead, *)
(* is still in the handler.  deliver runs statement by statement.          *)
(*                                                                         *)
(* One owner: no statement reads another owner's rows.  URL, events and    *)
(* secret decide which endpoints an event is for and whether an attempt is *)
(* accepted, and both are left open.                                       *)
(***************************************************************************)
EXTENDS Integers, FiniteSets

CONSTANTS
    Endpoints,
    Workers,
    Waits,          \* len(Schedule): the waits between attempts
    DisableAfter,   \* HOOKS_DISABLE_AFTER
    JobTries,       \* jobs.MaxAttempts of a delivery's jobs
    MaxDeliveries,  \* bound on deliveries
    MaxJobs,        \* bound on jobs, and so on retries and replays
    MaxUpsets,      \* bound on database errors, lost answers and lost workers
    Nobody,
    NoEndpoint

Deliveries == 1..MaxDeliveries
JobIds == 1..MaxJobs

ASSUME BoundAssumption ==
    /\ Waits \in Nat /\ MaxDeliveries \in Nat /\ MaxJobs \in Nat /\ MaxUpsets \in Nat
    /\ DisableAfter \in Nat \ {0} /\ JobTries \in Nat \ {0}
    /\ IsFiniteSet(Endpoints) /\ IsFiniteSet(Workers)
ASSUME NullAssumption == Nobody \notin Workers /\ NoEndpoint \notin Endpoints

VARIABLES
    endpoint,   \* the rows of hook_endpoint
    delivery,   \* the rows of hook_delivery
    targets,    \* the endpoints a sender has read, before it commits
    jobStatus,  \* the queue, see WorkQueue
    jobOwner,
    work,       \* the delivery a job is for
    tries,      \* the attempts of a job, which each claim counts
    run,        \* the handler each worker runs
    missed,     \* deliveries counted against an endpoint since its count was cleared
    upsets

queue == <<jobStatus, jobOwner, work, tries>>
rows == <<endpoint, delivery, targets, missed>>
vars == <<rows, queue, run, upsets>>

Queue == INSTANCE WorkQueue WITH
    Jobs <- JobIds, Kinds <- {"deliver"}, KindOf <- [j \in JobIds |-> "deliver"],
    Cap <- [k \in {"deliver"} |-> 0], status <- jobStatus, owner <- jobOwner

-----------------------------------------------------------------------------

Endpoint == [state : {"new", "open", "gone"}, failures : Nat, disabled : BOOLEAN]

Delivery == [status : {"new", "pending", "delivered", "failed", "gone"},
             to : Endpoints \cup {NoEndpoint}, attempts : 0..Waits + 1]

PCs == {"idle", "read", "drop", "post", "accepted", "clear", "refused", "again",
        "count", "ok", "error"}

\* A handler's run: its job, the delivery and what its SELECT read.
Run == [pc : PCs, job : JobIds \cup {0}, attempts : 0..Waits + 1]

Idle == [pc |-> "idle", job |-> 0, attempts |-> 0]

Fresh == [state |-> "new", failures |-> 0, disabled |-> FALSE]
Counted(failures, disabled) == [state |-> "open", failures |-> failures, disabled |-> disabled]

Init ==
    /\ endpoint = [e \in Endpoints |-> Fresh]
    /\ delivery = [d \in Deliveries |->
                    [status |-> "new", to |-> NoEndpoint, attempts |-> 0]]
    /\ targets = {}
    /\ Queue!Init
    /\ work = [j \in JobIds |-> 0]
    /\ tries = [j \in JobIds |-> 0]
    /\ run = [w \in Workers |-> Idle]
    /\ missed = [e \in Endpoints |-> {}]
    /\ upsets = 0

Upset == upsets < MaxUpsets /\ upsets' = upsets + 1

Open(e) == endpoint[e].state = "open"
Used == {d \in Deliveries : delivery[d].status # "new"}
Submitted == {j \in JobIds : jobStatus[j] # "none"}
NextDelivery == Cardinality(Used) + 1
NextJob == Cardinality(Submitted) + 1

\* INSERT INTO hook_delivery and EnqueueTx, for each endpoint of S.
Insert(S) ==
    /\ NextDelivery + Cardinality(S) - 1 <= MaxDeliveries
    /\ NextJob + Cardinality(S) - 1 <= MaxJobs
    /\ \E to \in [NextDelivery..NextDelivery + Cardinality(S) - 1 -> S] :
        /\ \A e \in S : \E d \in DOMAIN to : to[d] = e
        /\ delivery' = [d \in Deliveries |->
            IF d \in DOMAIN to
            THEN [status |-> "pending", to |-> to[d], attempts |-> 0] ELSE delivery[d]]
    /\ LET Added == NextJob..NextJob + Cardinality(S) - 1
       IN  /\ jobStatus' = [j \in JobIds |->
                IF j \in Added THEN "pending" ELSE jobStatus[j]]
           /\ work' = [j \in JobIds |->
                IF j \in Added THEN NextDelivery + j - NextJob ELSE work[j]]
    /\ UNCHANGED <<jobOwner, tries>>

-----------------------------------------------------------------------------
(* The endpoints' owner, the admin pages and the application.              *)

\* Create.  The count that is held against MaxEndpoints is an earlier statement:
\* nothing about it is certain when the row is inserted.
Create(e) ==
    /\ endpoint[e].state = "new"
    /\ endpoint' = [endpoint EXCEPT ![e].state = "open"]
    /\ UNCHANGED <<delivery, targets, missed, queue, run, upsets>>

\* Update with enable, and AdminEnable.  The endpoint may not be disabled at all.
Enable(e) ==
    /\ Open(e)
    /\ endpoint' = [endpoint EXCEPT ![e] = Counted(0, FALSE)]
    /\ missed' = [missed EXCEPT ![e] = {}]
    /\ UNCHANGED <<delivery, targets, queue, run, upsets>>

\* Delete: the endpoint, then its deliveries, in two statements; the process may
\* end between them.
Delete(e) ==
    /\ Open(e)
    /\ endpoint' = [endpoint EXCEPT ![e].state = "gone"]
    /\ UNCHANGED <<delivery, targets, missed, queue, run, upsets>>

DeleteRows(e) ==
    /\ endpoint[e].state = "gone"
    /\ \E d \in Used : delivery[d].to = e /\ delivery[d].status # "gone"
    /\ delivery' = [d \in Deliveries |->
        IF delivery[d].to = e THEN [delivery[d] EXCEPT !.status = "gone"] ELSE delivery[d]]
    /\ UNCHANGED <<endpoint, targets, missed, queue, run, upsets>>

\* prune: deliveries that have ended, past HOOKS_RETENTION.
Prune(d) ==
    /\ delivery[d].status \in {"delivered", "failed"}
    /\ delivery' = [delivery EXCEPT ![d].status = "gone"]
    /\ UNCHANGED <<endpoint, targets, missed, queue, run, upsets>>

\* SendTx reads the enabled endpoints that take the event, ...
SendRead ==
    /\ targets = {}
    /\ \E S \in SUBSET {e \in Endpoints : Open(e) /\ ~endpoint[e].disabled} :
        S # {} /\ targets' = S
    /\ UNCHANGED <<endpoint, delivery, missed, queue, run, upsets>>

\* ... and inserts a delivery and a job for each, in the same transaction.
SendCommit ==
    /\ targets # {}
    /\ Insert(targets)
    /\ targets' = {}
    /\ UNCHANGED <<endpoint, missed, run, upsets>>

SendRollback ==
    /\ targets # {}
    /\ targets' = {}
    /\ UNCHANGED <<endpoint, delivery, missed, queue, run, upsets>>

\* Ping finds the endpoint and inserts afterwards: it may be gone by then.
Ping(e) ==
    /\ endpoint[e].state # "new"
    /\ Insert({e})
    /\ UNCHANGED <<endpoint, targets, missed, run, upsets>>

\* Replay and AdminReplay: a new delivery like one that is not pending.
Replay(d) ==
    /\ delivery[d].status \in {"delivered", "failed"}
    /\ Insert({delivery[d].to})
    /\ UNCHANGED <<endpoint, targets, missed, run, upsets>>

-----------------------------------------------------------------------------
(* The queue.                                                              *)

\* A claim counts an attempt, whatever becomes of it.
Counts(j) == tries' = [tries EXCEPT ![j] = @ + 1]

\* A worker claims a job and calls deliver.
Start(w, j) ==
    /\ run[w].pc = "idle"
    /\ Queue!Give(j)
    /\ jobOwner'[j] = w
    /\ Counts(j)
    /\ run' = [run EXCEPT ![w] = [pc |-> "read", job |-> j, attempts |-> 0]]
    /\ UNCHANGED <<rows, work, upsets>>

\* The answer of a claim is lost.
LoseClaim(j) ==
    /\ Queue!Give(j)
    /\ jobOwner'[j] = Nobody
    /\ Counts(j)
    /\ Upset
    /\ UNCHANGED <<rows, work, run>>

\* Stop gives the job back with its attempt.  The handler was cancelled, or outlasts the grace
\* and goes on.
GiveBack(w) ==
    /\ run[w].pc # "idle"
    /\ jobOwner[run[w].job] = w
    /\ Queue!Requeue({run[w].job})
    /\ tries' = [tries EXCEPT ![run[w].job] = IF @ > 0 THEN @ - 1 ELSE 0]
    /\ \E r \in {Idle, run[w]} : run' = [run EXCEPT ![w] = r]
    /\ Upset
    /\ UNCHANGED <<rows, work>>

\* A worker's node dies in the handler, or is only presumed dead and goes on.
LoseWorker(w) ==
    /\ run[w].pc # "idle"
    /\ jobOwner[run[w].job] = w
    /\ Queue!Vanish({run[w].job})
    /\ \E r \in {Idle, run[w]} : run' = [run EXCEPT ![w] = r]
    /\ Upset
    /\ UNCHANGED <<rows, work, tries>>

Takeover(j) ==
    /\ jobOwner[j] = Nobody
    /\ Queue!Requeue({j})
    /\ UNCHANGED <<rows, work, tries, run, upsets>>

\* The queue records what deliver returned, if the job is still the worker's: an error is
\* retried until the job's attempts are used up, those of lost workers and claims included.
Settle(w) ==
    LET j == run[w].job
        failing == run[w].pc = "error"
    IN  /\ run[w].pc \in {"ok", "error"}
        /\ \/ /\ jobOwner[j] = w /\ failing /\ tries[j] < JobTries
              /\ Queue!Requeue({j})
           \/ /\ jobOwner[j] = w /\ (failing => tries[j] >= JobTries)
              /\ Queue!End(j)
              /\ jobStatus'[j] = IF failing THEN "failed" ELSE "done"
           \/ /\ jobOwner[j] # w
              /\ UNCHANGED <<jobStatus, jobOwner>>
        /\ run' = [run EXCEPT ![w] = Idle]
        /\ UNCHANGED <<rows, work, tries, upsets>>

-----------------------------------------------------------------------------
(* deliver                                                                 *)

To(w, pc) == run' = [run EXCEPT ![w].pc = pc]
Of(w) == work[run[w].job]
ToEndpoint(w) == delivery[Of(w)].to

\* The SELECT that joins the delivery and its endpoint.
Read(w) ==
    LET d == Of(w)
        found == delivery[d].status # "gone" /\ Open(delivery[d].to)
    IN  /\ run[w].pc = "read"
        /\ \/ /\ ~found \/ delivery[d].status # "pending"
              /\ To(w, "ok")
           \/ /\ found /\ delivery[d].status = "pending"
              /\ endpoint[delivery[d].to].disabled
              /\ To(w, "drop")
           \/ /\ found /\ delivery[d].status = "pending"
              /\ ~endpoint[delivery[d].to].disabled
              /\ run' = [run EXCEPT ![w] = [pc |-> "post", job |-> run[w].job,
                                            attempts |-> delivery[d].attempts]]
        /\ UNCHANGED <<rows, queue, upsets>>

\* attempt: the receiver accepts the post, or it fails somehow.
Post(w) ==
    /\ run[w].pc = "post"
    /\ \E pc \in {"accepted", "refused"} : To(w, pc)
    /\ UNCHANGED <<rows, queue, upsets>>

\* What an UPDATE of the delivery leaves of it, when the row is still there.
Write(w, status, attempts) ==
    delivery' = IF delivery[Of(w)].status = "gone" THEN delivery
                ELSE [delivery EXCEPT ![Of(w)] = [status |-> status, to |-> ToEndpoint(w),
                                                  attempts |-> attempts]]

\* The statements that write, each with the pc that follows.
Drop(w) ==
    /\ run[w].pc = "drop"
    /\ Write(w, "failed", delivery[Of(w)].attempts)
    /\ To(w, "ok")
    /\ UNCHANGED <<endpoint, missed, queue>>

MarkDelivered(w) ==
    /\ run[w].pc = "accepted"
    /\ Write(w, "delivered", run[w].attempts + 1)
    /\ To(w, "clear")
    /\ UNCHANGED <<endpoint, missed, queue>>

\* Mutant of ClearFailures: a success does not clear the count.
ClearNothing(w) ==
    /\ run[w].pc = "clear"
    /\ missed' = [missed EXCEPT ![ToEndpoint(w)] = {}]
    /\ To(w, "ok")
    /\ UNCHANGED <<endpoint, delivery, queue>>

ClearFailures(w) ==
    /\ run[w].pc = "clear"
    /\ LET e == ToEndpoint(w)
       IN  endpoint' = IF ~Open(e) THEN endpoint
                       ELSE [endpoint EXCEPT ![e] = Counted(0, endpoint[e].disabled)]
    /\ missed' = [missed EXCEPT ![ToEndpoint(w)] = {}]
    /\ To(w, "ok")
    /\ UNCHANGED <<delivery, queue>>

\* Mutant of Retriable: off by one.
RetriableOnceMore(w) == run[w].attempts <= Waits

Retriable(w) == run[w].attempts + 1 <= Waits

RecordAttempt(w) ==
    /\ run[w].pc = "refused" /\ Retriable(w)
    /\ Write(w, delivery[Of(w)].status, run[w].attempts + 1)
    /\ To(w, "again")
    /\ UNCHANGED <<endpoint, missed, queue>>

\* Mutant of EnqueueNext: deliver also returns the attempt's error, and the queue
\* retries the job whose successor it has.
EnqueueNextAndRetry(w) ==
    /\ run[w].pc = "again"
    /\ NextJob \in JobIds
    /\ Queue!Submit(NextJob)
    /\ work' = [work EXCEPT ![NextJob] = Of(w)]
    /\ To(w, "error")
    /\ UNCHANGED <<endpoint, delivery, missed, tries>>

EnqueueNext(w) ==
    /\ run[w].pc = "again"
    /\ NextJob \in JobIds
    /\ Queue!Submit(NextJob)
    /\ work' = [work EXCEPT ![NextJob] = Of(w)]
    /\ To(w, "ok")
    /\ UNCHANGED <<endpoint, delivery, missed, tries>>

MarkFailed(w) ==
    /\ run[w].pc = "refused" /\ ~Retriable(w)
    /\ Write(w, "failed", run[w].attempts + 1)
    /\ To(w, "count")
    /\ UNCHANGED <<endpoint, missed, queue>>

CountFailure(w) ==
    LET e == ToEndpoint(w)
        failures == endpoint[e].failures + 1
    IN  /\ run[w].pc = "count"
        /\ endpoint' = IF ~Open(e) THEN endpoint ELSE
             [endpoint EXCEPT ![e] =
                 Counted(failures, endpoint[e].disabled \/ failures >= DisableAfter)]
        /\ missed' = [missed EXCEPT ![e] = @ \cup {Of(w)}]
        /\ To(w, "ok")
        /\ UNCHANGED <<delivery, queue>>

Statement(w) ==
    \/ Drop(w) \/ MarkDelivered(w) \/ ClearFailures(w) \/ RecordAttempt(w)
    \/ EnqueueNext(w) \/ MarkFailed(w) \/ CountFailure(w)

\* Mutant of Error: the error is logged and nil returned.
ErrorSwallowed(w) ==
    /\ run[w].pc \in PCs \ {"idle", "post", "ok", "error"}
    /\ run' = [run EXCEPT ![w].pc = "ok"]
    /\ Upset
    /\ UNCHANGED <<rows, queue>>

\* A statement fails and deliver returns the error.  An EnqueueNext that fails may
\* have inserted its job: the answer is lost, not the row.
Error(w) ==
    /\ run[w].pc \in PCs \ {"idle", "post", "ok", "error"}
    /\ run' = [run EXCEPT ![w].pc = "error"]
    /\ \/ UNCHANGED <<jobStatus, jobOwner, work>>
       \/ /\ run[w].pc = "again" /\ NextJob \in JobIds
          /\ Queue!Submit(NextJob)
          /\ work' = [work EXCEPT ![NextJob] = Of(w)]
    /\ Upset
    /\ UNCHANGED <<rows, tries>>

Handler(w) ==
    \/ Read(w) \/ Post(w) \/ Settle(w)
    \/ Statement(w) /\ UNCHANGED <<targets, upsets>>

Next ==
    \/ \E e \in Endpoints : Create(e) \/ Enable(e) \/ Delete(e) \/ DeleteRows(e) \/ Ping(e)
    \/ \E d \in Deliveries : Prune(d) \/ Replay(d)
    \/ SendRead \/ SendCommit \/ SendRollback
    \/ \E j \in JobIds : LoseClaim(j) \/ Takeover(j) \/ \E w \in Workers : Start(w, j)
    \/ \E w \in Workers : Handler(w) \/ Error(w) \/ LoseWorker(w) \/ GiveBack(w)

Spec == Init /\ [][Next]_vars

-----------------------------------------------------------------------------

TypeOK ==
    /\ endpoint \in [Endpoints -> Endpoint]
    /\ delivery \in [Deliveries -> Delivery]
    /\ targets \in SUBSET Endpoints
    /\ jobStatus \in [JobIds -> {"none", "pending", "running", "done", "failed"}]
    /\ jobOwner \in [JobIds -> Workers \cup {Nobody}]
    /\ work \in [JobIds -> Deliveries \cup {0}]
    /\ tries \in [JobIds -> Nat]
    /\ run \in [Workers -> Run]
    /\ missed \in [Endpoints -> SUBSET Deliveries]
    /\ upsets \in 0..MaxUpsets

Live(j) == jobStatus[j] \in {"pending", "running"}
JobsOf(d) == {j \in JobIds : work[j] = d}

\* A delivery is pending only while a job will still look at it, or a job of its has
\* used up its own attempts on database errors (deliver, hooks.go:649): no order of
\* attempts, errors and takeovers loses the chain silently.  Only a deleted endpoint
\* leaves deliveries behind.
PendingHasJob ==
    \A d \in Deliveries : delivery[d].status = "pending" /\ Open(delivery[d].to) =>
        \E j \in JobsOf(d) : Live(j) \/ jobStatus[j] = "failed"

\* A job whose run is over in all but the queue's record of it.
Through(j) == jobOwner[j] # Nobody /\ run[jobOwner[j]].pc = "ok"

\* The chain of attempts is one chain: a second job of a delivery that will still act
\* stems from an error, a lost answer or a lost worker (hooks.go:694), never from a
\* normal run.
ForksExplained ==
    \A d \in Deliveries :
        Cardinality({j \in JobsOf(d) : Live(j) /\ ~Through(j)}) <= 1 + upsets

\* The chain of a delivery's attempts neither ends while it is pending nor forks
\* (deliver, hooks.go:649).
ChainKept == PendingHasJob /\ ForksExplained

\* "deliveries in a row that failed every attempt" (hooks.go:53): a delivery counts
\* once against its endpoint, unless two workers had it.
CountedOnce ==
    \A e \in Endpoints : Open(e) => endpoint[e].failures <= Cardinality(missed[e]) + upsets
=============================================================================
