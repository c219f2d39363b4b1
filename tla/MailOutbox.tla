------------------------------ MODULE MailOutbox ------------------------------
(***************************************************************************)
(* One message of packs/mail: its row of mail_message, the job that        *)
(* delivers it (WorkQueue says what the queue does with it), the provider, *)
(* which may accept a message and still answer an error, and a caller that *)
(* has the row delivered again (Deliver).  Without the jobs pack Send      *)
(* stores the row and delivers it itself.                                  *)
(***************************************************************************)
EXTENDS Integers, FiniteSets

CONSTANTS
    Runners,        \* workers of the queue and callers of Deliver
    MailTries,      \* MAIL_MAX_ATTEMPTS
    MaxClaims,      \* bound on claims of the job
    MaxResends,     \* bound on calls of Deliver
    Unclaimed

VARIABLES
    withJobs,       \* the jobs pack runs
    status,         \* of the row
    jobStatus, jobOwner,
    claims,         \* the job's attempts, counted when it is claimed
    deliveryRun,
    copies,         \* messages the provider has accepted
    resends,        \* calls of Deliver
    unrecorded,     \* acceptances the row did not get to tell of
    overlaps        \* runs begun while another was between its look and its record

mailQueue == <<jobStatus, jobOwner, claims>>
outboxVars == <<withJobs, status, mailQueue, deliveryRun, copies, resends, unrecorded, overlaps>>

JobQueue == INSTANCE WorkQueue WITH
    Jobs <- {1}, Workers <- Runners, Kinds <- {"mail"}, KindOf <- <<"mail">>,
    Cap <- [k \in {"mail"} |-> 0], Nobody <- Unclaimed, status <- jobStatus, owner <- jobOwner

-----------------------------------------------------------------------------

Idle == [pc |-> "idle", queued |-> FALSE]
Sending == {"send", "accepted", "refused"}

TypeOK ==
    /\ withJobs \in BOOLEAN
    /\ status \in {"none", "queued", "sent", "failed"}
    /\ jobStatus[1] \in {"none", "pending", "running", "done", "failed"}
    /\ claims \in 0..MaxClaims
    /\ \A r \in Runners :
        /\ deliveryRun[r].pc \in {"idle", "look", "ok", "error"} \cup Sending
        /\ deliveryRun[r].queued \in BOOLEAN
    /\ copies \in Nat /\ resends \in 0..MaxResends
    /\ unrecorded \in Nat /\ overlaps \in Nat

Init ==
    /\ withJobs \in BOOLEAN
    /\ status = "none"
    /\ JobQueue!Init /\ claims = 0
    /\ deliveryRun = [r \in Runners |-> Idle]
    /\ copies = 0 /\ resends = 0 /\ unrecorded = 0 /\ overlaps = 0

Become(r, pc, queued) == deliveryRun' = [deliveryRun EXCEPT ![r] = [pc |-> pc, queued |-> queued]]
Turn(r, pc) == deliveryRun' = [deliveryRun EXCEPT ![r].pc = pc]
Others(r) == \E o \in Runners \ {r} : deliveryRun[o].pc \in Sending

-----------------------------------------------------------------------------

\* Send and SendTx: the row and its job commit together.
SendQueued ==
    /\ withJobs /\ status = "none"
    /\ status' = "queued"
    /\ JobQueue!Submit(1)
    /\ UNCHANGED <<withJobs, claims, deliveryRun, copies, resends, unrecorded, overlaps>>

\* Send without the jobs pack: the row, then Deliver.
SendNow(r) ==
    /\ ~withJobs /\ status = "none"
    /\ status' = "queued"
    /\ Become(r, "send", FALSE)
    /\ UNCHANGED <<withJobs, mailQueue, copies, resends, unrecorded, overlaps>>

\* "Called directly, it resends whatever the row's status."
Resend(r) ==
    /\ status # "none" /\ deliveryRun[r] = Idle
    /\ resends < MaxResends
    /\ resends' = resends + 1
    /\ Become(r, "send", FALSE)
    /\ UNCHANGED <<withJobs, status, mailQueue, copies, unrecorded, overlaps>>

-----------------------------------------------------------------------------
(* The queue.                                                              *)

StartJob(r) ==
    /\ deliveryRun[r] = Idle
    /\ JobQueue!Give(1) /\ jobOwner'[1] = r
    /\ claims < MaxClaims /\ claims' = claims + 1
    /\ Become(r, "look", TRUE)
    /\ UNCHANGED <<withJobs, status, copies, resends, unrecorded, overlaps>>

\* The queue records what the handler returned, if the job is still the runner's.
SettleJob(r) ==
    LET failing == deliveryRun[r].pc = "error"
        mine == jobOwner[1] = r
    IN  /\ deliveryRun[r].pc \in {"ok", "error"} /\ deliveryRun[r].queued
        /\ \/ mine /\ failing /\ claims < MailTries
              /\ JobQueue!Requeue({1})
           \/ mine /\ (failing => claims >= MailTries)
              /\ JobQueue!End(1)
              /\ jobStatus'[1] = IF failing THEN "failed" ELSE "done"
           \/ ~mine /\ UNCHANGED <<jobStatus, jobOwner>>
        /\ Become(r, "idle", FALSE)
        /\ UNCHANGED <<withJobs, status, claims, copies, resends, unrecorded, overlaps>>

\* A run's job is taken over as stale, its node dead (Crash) or only presumed so.
Takeover(r) ==
    /\ jobOwner[1] = r
    /\ JobQueue!Requeue({1})
    /\ UNCHANGED <<withJobs, status, claims, deliveryRun, copies, resends, unrecorded, overlaps>>

Crash(r) ==
    /\ deliveryRun[r] # Idle
    /\ Become(r, "idle", FALSE)
    /\ unrecorded' = unrecorded + (IF deliveryRun[r].pc = "accepted" THEN 1 ELSE 0)
    /\ UNCHANGED <<withJobs, status, mailQueue, copies, resends, overlaps>>

-----------------------------------------------------------------------------
(* deliverQueued and Deliver.                                              *)

\* Mutant of Look: the row's status is not asked about.
LookAtNothing(r) ==
    /\ deliveryRun[r].pc = "look"
    /\ Turn(r, "send")
    /\ overlaps' = overlaps + (IF Others(r) THEN 1 ELSE 0)
    /\ UNCHANGED <<withJobs, status, mailQueue, copies, resends, unrecorded>>

Look(r) ==
    /\ deliveryRun[r].pc = "look"
    /\ Turn(r, IF status = "sent" THEN "ok" ELSE "send")
    /\ overlaps' = overlaps + (IF status # "sent" /\ Others(r) THEN 1 ELSE 0)
    /\ UNCHANGED <<withJobs, status, mailQueue, copies, resends, unrecorded>>

\* The statement that reads the status, or the row, failed.
LookFails(r) ==
    /\ deliveryRun[r].pc \in {"look", "send"}
    /\ Turn(r, "error")
    /\ UNCHANGED <<withJobs, status, mailQueue, copies, resends, unrecorded, overlaps>>

\* The provider accepts the message; its answer may be lost, or the message refused
\* here or there.
Post(r) ==
    /\ deliveryRun[r].pc = "send"
    /\ \/ Turn(r, "refused") /\ UNCHANGED <<copies, unrecorded>>
       \/ Turn(r, "accepted") /\ copies' = copies + 1 /\ UNCHANGED unrecorded
       \/ Turn(r, "refused") /\ copies' = copies + 1 /\ unrecorded' = unrecorded + 1
    /\ UNCHANGED <<withJobs, status, mailQueue, resends, overlaps>>

\* UPDATE ... SET status = 'sent': by the row's id alone.
RecordSent(r) ==
    /\ deliveryRun[r].pc = "accepted"
    /\ status' = "sent"
    /\ Turn(r, "ok")
    /\ UNCHANGED <<withJobs, mailQueue, copies, resends, unrecorded, overlaps>>

\* failed: the provider's error is returned with or without the record.
RecordFailed(r) ==
    /\ deliveryRun[r].pc = "refused"
    /\ status' \in {status, "failed"}
    /\ Turn(r, "error")
    /\ UNCHANGED <<withJobs, mailQueue, copies, resends, unrecorded, overlaps>>

RecordFails(r) ==
    /\ deliveryRun[r].pc = "accepted"
    /\ Turn(r, "error")
    /\ unrecorded' = unrecorded + 1
    /\ UNCHANGED <<withJobs, status, mailQueue, copies, resends, overlaps>>

\* A caller of Send or Deliver has its answer.
Return(r) ==
    /\ deliveryRun[r].pc \in {"ok", "error"} /\ ~deliveryRun[r].queued
    /\ Become(r, "idle", FALSE)
    /\ UNCHANGED <<withJobs, status, mailQueue, copies, resends, unrecorded, overlaps>>

Next ==
    \/ SendQueued
    \/ \E r \in Runners :
        \/ SendNow(r) \/ Resend(r) \/ StartJob(r) \/ SettleJob(r) \/ Takeover(r) \/ Crash(r)
        \/ Look(r) \/ LookFails(r) \/ Post(r) \/ RecordSent(r) \/ RecordFailed(r)
        \/ RecordFails(r) \/ Return(r)

Spec == Init /\ [][Next]_outboxVars

-----------------------------------------------------------------------------

\* "a re-run of it (a stale claim taken over, a retry) never sends a delivered message
\* again" (mail.go:384): each copy of a message beyond the first is one a caller asked
\* for, one whose acceptance was not recorded, or one of a run that overlapped another;
\* and with none of these the row of an accepted message says so.
CopiesExplained ==
    /\ copies <= 1 + resends + unrecorded + overlaps
    /\ resends + unrecorded + overlaps = 0 /\ copies > 0
        => status = "sent" \/ \E r \in Runners : deliveryRun[r].pc = "accepted"

\* "a retry after the provider accepted the message but the outcome was not recorded"
\* (mail.go:385), as it stands: such a retry does send the message again.
OneCopy == copies <= 1 + resends
=============================================================================
