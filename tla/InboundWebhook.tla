--------------------------- MODULE InboundWebhook ---------------------------
(***************************************************************************)
(* The endpoint of pkg/webhook for one delivery id: the requests that      *)
(* carry it, on any node, and its row in webhook_delivery, which Claim,    *)
(* Done and Release of PostgresStore read and write a statement at a time. *)
(* The provider (outside the repository) sends the delivery until it is    *)
(* told 200, may send it again after that, and may miss the answer.        *)
(*                                                                         *)
(* A claim lapses 2 * timeout after it was made.  The handler has timeout  *)
(* to end and the settling 5 s more, so it lapses under its holder only    *)
(* when the handler outlasts its deadline, or when timeout is under 5 s    *)
(* and the settling is slow: Overrun.                                      *)
(* Deliveries without an id are not deduplicated and not modelled; the     *)
(* clean-up of rows after the retention is left out, since the retries of  *)
(* a provider must fall inside it.                                         *)
(***************************************************************************)
EXTENDS Integers, FiniteSets

CONSTANTS
    Requests,    \* requests that may be open at once
    MaxUpsets,   \* bound on failures, crashes, overruns and needless repeats
    Nobody

ASSUME RequestsAssumption == IsFiniteSet(Requests) /\ Nobody \notin Requests
ASSUME UpsetsAssumption == MaxUpsets \in Nat

VARIABLES
    row,       \* the row of the delivery id
    req,       \* the requests
    acked,     \* the provider has been told 200
    handled,   \* how many times the handler has succeeded
    lost,      \* how many of these were not recorded, by a failure
    overruns,  \* how many claims lapsed under their holder
    upsets     \* how many of the bounded disturbances have happened

vars == <<row, req, acked, handled, lost, overruns, upsets>>

-----------------------------------------------------------------------------

\* by is the request whose claim the row is: the code has no such column.
Row == [state : {"absent", "claimed", "done"}, lapsed : BOOLEAN, by : Requests \cup {Nobody}]

Absent == [state |-> "absent", lapsed |-> FALSE, by |-> Nobody]
ClaimedBy(r) == [state |-> "claimed", lapsed |-> FALSE, by |-> r]
IsDone == [state |-> "done", lapsed |-> FALSE, by |-> Nobody]

PCs == {"idle", "claim", "look", "handle", "record", "release", "answer"}
Replies == {"none", "200", "409", "500", "503"}

Request == [pc : PCs, reply : Replies]

At(pc) == [pc |-> pc, reply |-> "none"]
Answer(reply) == [pc |-> "answer", reply |-> reply]

Become(r, state) == req' = [req EXCEPT ![r] = state]

\* Requests that hold, or believe they hold, a claim.
Holders == {r \in Requests : req[r].pc \in {"handle", "record", "release"}}

Upset == upsets < MaxUpsets /\ upsets' = upsets + 1

-----------------------------------------------------------------------------
(* The provider and the network *)

Send(r) ==
    /\ req[r].pc = "idle"
    /\ IF acked THEN Upset ELSE UNCHANGED upsets
    /\ Become(r, At("claim"))
    /\ UNCHANGED <<row, acked, handled, lost, overruns>>

Receive(r) ==
    /\ req[r].pc = "answer"
    /\ acked' = (acked \/ req[r].reply = "200")
    /\ Become(r, At("idle"))
    /\ UNCHANGED <<row, handled, lost, overruns, upsets>>

AnswerLost(r) ==
    /\ req[r].pc = "answer"
    /\ Become(r, At("idle"))
    /\ Upset
    /\ UNCHANGED <<row, acked, handled, lost, overruns>>

\* The process that serves r dies.
Crash(r) ==
    /\ req[r].pc \notin {"idle", "answer"}
    /\ Become(r, At("idle"))
    /\ lost' = IF req[r].pc = "record" THEN lost + 1 ELSE lost
    /\ Upset
    /\ UNCHANGED <<row, acked, handled, overruns>>

\* The lease of a claim nobody works on ends.
Lapse ==
    /\ row.state = "claimed" /\ ~row.lapsed /\ row.by \notin Holders
    /\ row' = [row EXCEPT !.lapsed = TRUE]
    /\ UNCHANGED <<req, acked, handled, lost, overruns, upsets>>

\* The lease ends while its handler still runs, or is settled.
Overrun ==
    /\ row.state = "claimed" /\ ~row.lapsed
    /\ row.by \in Holders
    /\ row' = [row EXCEPT !.lapsed = TRUE]
    /\ overruns' = overruns + 1
    /\ Upset
    /\ UNCHANGED <<req, acked, handled, lost>>

-----------------------------------------------------------------------------
(* ServeHTTP up to the claim *)

\* No secret, no store, or a request that is not verified: 503, 400, 401, 413.
Refuse(r) ==
    /\ req[r].pc = "claim"
    /\ Become(r, Answer("503"))
    /\ Upset
    /\ UNCHANGED <<row, acked, handled, lost, overruns>>

\* The rows the INSERT of Claim may write.
Claimable == row.state = "absent" \/ (row.state = "claimed" /\ row.lapsed)

\* Mutant of Claim: a claim is never taken over.
ClaimAbsent(r) ==
    /\ req[r].pc = "claim"
    /\ IF row.state = "absent"
       THEN row' = ClaimedBy(r) /\ Become(r, At("handle"))
       ELSE row' = row /\ Become(r, At("look"))
    /\ UNCHANGED <<acked, handled, lost, overruns, upsets>>

\* Mutant of Claim: the lease is not looked at.
ClaimUndone(r) ==
    /\ req[r].pc = "claim"
    /\ IF row.state # "done"
       THEN row' = ClaimedBy(r) /\ Become(r, At("handle"))
       ELSE row' = row /\ Become(r, At("look"))
    /\ UNCHANGED <<acked, handled, lost, overruns, upsets>>

\* INSERT ... ON CONFLICT DO UPDATE ... RETURNING.
Claim(r) ==
    /\ req[r].pc = "claim"
    /\ IF Claimable
       THEN row' = ClaimedBy(r) /\ Become(r, At("handle"))
       ELSE row' = row /\ Become(r, At("look"))
    /\ UNCHANGED <<acked, handled, lost, overruns, upsets>>

\* The statement fails, or commits and its answer is lost.
ClaimFails(r) ==
    /\ req[r].pc = "claim"
    /\ row' = row \/ (Claimable /\ row' = ClaimedBy(r))
    /\ Become(r, Answer("503"))
    /\ Upset
    /\ UNCHANGED <<acked, handled, lost, overruns>>

\* Mutant of Look: whoever has a row is a duplicate.
LookAny(r) ==
    /\ req[r].pc = "look"
    /\ Become(r, Answer(IF row.state = "absent" THEN "409" ELSE "200"))
    /\ UNCHANGED <<row, acked, handled, lost, overruns, upsets>>

\* The SELECT that follows when the INSERT wrote nothing.
Look(r) ==
    /\ req[r].pc = "look"
    /\ Become(r, Answer(IF row.state = "done" THEN "200" ELSE "409"))
    /\ UNCHANGED <<row, acked, handled, lost, overruns, upsets>>

LookFails(r) ==
    /\ req[r].pc = "look"
    /\ Become(r, Answer("503"))
    /\ Upset
    /\ UNCHANGED <<row, acked, handled, lost, overruns>>

-----------------------------------------------------------------------------
(* run *)

Handle(r) ==
    /\ req[r].pc = "handle"
    /\ handled' = handled + 1
    /\ Become(r, At("record"))
    /\ UNCHANGED <<row, acked, lost, overruns, upsets>>

\* An error, a panic, or the deadline.
HandleFails(r) ==
    /\ req[r].pc = "handle"
    /\ Become(r, At("release"))
    /\ Upset
    /\ UNCHANGED <<row, acked, handled, lost, overruns>>

\* Mutant of Done: the claim is put away, not marked.
DoneDeletes(r) ==
    /\ req[r].pc = "record"
    /\ row' = Absent
    /\ Become(r, Answer("200"))
    /\ UNCHANGED <<acked, handled, lost, overruns, upsets>>

\* Mutant of Done: the lease is left to run.
DoneLapsing(r) ==
    /\ req[r].pc = "record"
    /\ row' = IF row.state = "absent" THEN row ELSE [row EXCEPT !.state = "done"]
    /\ Become(r, Answer("200"))
    /\ UNCHANGED <<acked, handled, lost, overruns, upsets>>

\* UPDATE by id, whoever has the claim; no row, no effect.
Done(r) ==
    /\ req[r].pc = "record"
    /\ row' = IF row.state = "absent" THEN row ELSE IsDone
    /\ Become(r, Answer("200"))
    /\ UNCHANGED <<acked, handled, lost, overruns, upsets>>

\* The failure is logged and the delivery acknowledged.  An UPDATE that takes effect
\* though its answer is lost is Done.
DoneFails(r) ==
    /\ req[r].pc = "record"
    /\ Become(r, Answer("200"))
    /\ lost' = lost + 1
    /\ Upset
    /\ UNCHANGED <<row, acked, handled, overruns>>

\* Mutant of Release: the DELETE does not look at done_at.
ReleaseAny(r) ==
    /\ req[r].pc = "release"
    /\ row' = Absent
    /\ Become(r, Answer("500"))
    /\ UNCHANGED <<acked, handled, lost, overruns, upsets>>

\* DELETE of an unfinished claim by id, whoever has it.
Release(r) ==
    /\ req[r].pc = "release"
    /\ row' = IF row.state = "claimed" THEN Absent ELSE row
    /\ Become(r, Answer("500"))
    /\ UNCHANGED <<acked, handled, lost, overruns, upsets>>

\* A DELETE that takes effect though its answer is lost is Release.
ReleaseFails(r) ==
    /\ req[r].pc = "release"
    /\ Become(r, Answer("500"))
    /\ Upset
    /\ UNCHANGED <<row, acked, handled, lost, overruns>>

-----------------------------------------------------------------------------

Init ==
    /\ row = Absent
    /\ req = [r \in Requests |-> At("idle")]
    /\ acked = FALSE
    /\ handled = 0 /\ lost = 0 /\ overruns = 0 /\ upsets = 0

\* What a request does when nothing goes wrong.
Serve(r) == Claim(r) \/ Look(r) \/ Handle(r) \/ Done(r) \/ Release(r) \/ Receive(r)

Trouble(r) ==
    \/ AnswerLost(r) \/ Crash(r) \/ Refuse(r) \/ ClaimFails(r) \/ LookFails(r)
    \/ HandleFails(r) \/ DoneFails(r) \/ ReleaseFails(r)

Next ==
    \/ \E r \in Requests : Send(r) \/ Serve(r) \/ Trouble(r)
    \/ Lapse \/ Overrun

Spec == Init /\ [][Next]_vars

\* Requests are served (their context has a deadline), leases lapse with time,
\* and the provider sends again until it is told 200.
Fairness ==
    /\ \A r \in Requests : WF_vars(Serve(r)) /\ WF_vars(~acked /\ Send(r))
    /\ WF_vars(Lapse)

FairSpec == Spec /\ Fairness

-----------------------------------------------------------------------------
(* Properties *)

TypeOK ==
    /\ row \in Row
    /\ row.lapsed => row.state = "claimed"
    /\ req \in [Requests -> Request]
    /\ acked \in BOOLEAN
    /\ handled \in Nat /\ lost \in Nat /\ overruns \in Nat
    /\ upsets \in 0..MaxUpsets

\* 200 is told only of a delivery whose handler succeeded: the provider will not
\* send it again, so anything else would lose it.
AckedIsHandled ==
    acked \/ (\E r \in Requests : req[r].reply = "200") \/ row.state = "done" => handled > 0

\* While handlers keep their deadline, one request at a time has the claim, over
\* crashes, takeovers, releases and answers that are lost.
OneHandler == overruns = 0 => Cardinality(Holders) <= 1

\* Each delivery is handled once, and once more for every success that could not
\* be recorded and every handler that outlasted its lease.  A late Release or
\* Done touches the claim of another request, and still adds no other.
HandledOnce == handled <= 1 + lost + overruns

\* The provider may trust a 200, and the handler that it has a delivery to itself and once.
DeliveryKept == AckedIsHandled /\ OneHandler /\ HandledOnce

\* A handled delivery stays handled: no late Release or Claim forgets it.
DoneStays == [][row.state = "done" => row'.state = "done"]_vars

\* Once the disturbances are over the provider is told 200.
Acknowledged == <>acked
=============================================================================
