----------------------------- MODULE StripeBilling -----------------------------
(***************************************************************************)
(* A subscription as packs/billing keeps it.  Stripe (external) changes    *)
(* it, tells of each change by an event with the state it then had and a   *)
(* time to the second, and of the finished checkout by one without it;     *)
(* events arrive in any order, more than once, and again after an error.   *)
(* Event and sync (billing.go) write the row of billing_subscription.      *)
(***************************************************************************)
EXTENDS Integers, FiniteSets

CONSTANTS
    Handlers,       \* webhook requests in progress at once
    MaxChanges,     \* bound on changes of the subscription
    MaxSeconds      \* bound on time

VARIABLES
    tagged,         \* the subscription carries metadata[lidza_owner]
    second,
    states,         \* when each state of the subscription began, the current one last
    checkout,       \* when the checkout finished, or Never
    known,          \* billing_customer has the customer
    kept,           \* billing_subscription: the state kept and the time of its event
    handling,       \* the requests
    handled,        \* events answered with success
    misplaced       \* an event left without a row: its customer not found

billingVars == <<tagged, second, states, checkout, known, kept, handling, handled, misplaced>>

-----------------------------------------------------------------------------

Never == -1
Latest == CHOOSE n \in DOMAIN states : n + 1 \notin DOMAIN states

\* The events: one per state, and the checkout's.
CheckoutEvent == 0
Events == DOMAIN states \cup (IF checkout = Never THEN {} ELSE {CheckoutEvent})
Created(e) == IF e = CheckoutEvent THEN checkout ELSE states[e]

Idle == [pc |-> "idle", event |-> CheckoutEvent, state |-> 0]

TypeOK ==
    /\ tagged \in BOOLEAN /\ known \in BOOLEAN /\ misplaced \in BOOLEAN
    /\ second \in 0..MaxSeconds
    /\ checkout \in 0..MaxSeconds \cup {Never}
    /\ kept.state \in 0..MaxChanges /\ kept.at \in 0..MaxSeconds \cup {Never}
    /\ handled \subseteq Events

\* The checkout has begun at Stripe.
Init ==
    /\ tagged \in BOOLEAN
    /\ second = 0
    /\ states = <<0>>
    /\ checkout = Never
    /\ known = FALSE
    /\ kept = [state |-> 0, at |-> Never]
    /\ handling = [h \in Handlers |-> Idle]
    /\ handled = {}
    /\ misplaced = FALSE

-----------------------------------------------------------------------------
(* Stripe.                                                                 *)

Tick ==
    /\ second < MaxSeconds
    /\ second' = second + 1
    /\ UNCHANGED <<tagged, states, checkout, known, kept, handling, handled, misplaced>>

Change ==
    /\ Latest < MaxChanges
    /\ states' = [n \in 1..Latest + 1 |-> IF n = Latest + 1 THEN second ELSE states[n]]
    /\ UNCHANGED <<tagged, second, checkout, known, kept, handling, handled, misplaced>>

FinishCheckout ==
    /\ checkout = Never
    /\ checkout' = second
    /\ UNCHANGED <<tagged, second, states, known, kept, handling, handled, misplaced>>

\* A delivery, or one more of it.
Deliver(h) ==
    /\ handling[h] = Idle
    /\ \E e \in Events :
        handling' = [handling EXCEPT ![h] =
            IF e = CheckoutEvent THEN [pc |-> "link", event |-> e, state |-> 0]
            ELSE [pc |-> "owner", event |-> e, state |-> e]]
    /\ UNCHANGED <<tagged, second, states, checkout, known, kept, handled, misplaced>>

-----------------------------------------------------------------------------
(* Event and sync.                                                         *)

Goto(h, pc) == handling' = [handling EXCEPT ![h].pc = pc]
Answer(h) == handling' = [handling EXCEPT ![h] = Idle]

\* A finished checkout links the customer to its owner.
Link(h) ==
    /\ handling[h].pc = "link"
    /\ known' = TRUE
    /\ Goto(h, "fetch")
    /\ UNCHANGED <<tagged, second, states, checkout, kept, handled, misplaced>>

\* The subscription as it now is, to be recorded under the checkout's time.  Its owner is
\* the checkout's.
Fetch(h) ==
    /\ handling[h].pc = "fetch"
    /\ handling' = [handling EXCEPT ![h].pc = "write", ![h].state = Latest]
    /\ UNCHANGED <<tagged, second, states, checkout, known, kept, handled, misplaced>>

\* The owner is the subscription's own, or the customer's; any error of that SELECT
\* counts as a customer the app does not know, and answers with success.
Owner(h) ==
    /\ handling[h].pc = "owner"
    /\ \/ /\ tagged \/ known
          /\ Goto(h, "write")
          /\ UNCHANGED <<handled, misplaced>>
       \/ /\ ~tagged
          /\ Answer(h)
          /\ handled' = handled \cup {handling[h].event}
          /\ misplaced' = TRUE
    /\ UNCHANGED <<tagged, second, states, checkout, known, kept>>

\* Mutant of Newer: the event recorded is not asked about.
NewerAlways(at) == TRUE

\* ON CONFLICT (id) DO UPDATE ... WHERE billing_subscription.event_at <= EXCLUDED.event_at.
Newer(at) == kept.at <= at

Record(h) ==
    LET r == handling[h]
    IN  /\ r.pc = "write"
        /\ known' = TRUE
        /\ kept' = IF Newer(Created(r.event)) THEN [state |-> r.state, at |-> Created(r.event)]
                  ELSE kept
        /\ handled' = handled \cup {r.event}
        /\ Answer(h)
        /\ UNCHANGED <<tagged, second, states, checkout, misplaced>>

\* An error, or the process ends: Stripe delivers the event again.
Fail(h) ==
    /\ handling[h] # Idle
    /\ Answer(h)
    /\ known' \in {known} \cup (IF handling[h].pc = "write" THEN {TRUE} ELSE {})
    /\ UNCHANGED <<tagged, second, states, checkout, kept, handled, misplaced>>

Next ==
    \/ Tick \/ Change \/ FinishCheckout
    \/ \E h \in Handlers :
        Deliver(h) \/ Link(h) \/ Fetch(h) \/ Owner(h) \/ Record(h) \/ Fail(h)

Spec == Init /\ [][Next]_billingVars

-----------------------------------------------------------------------------

\* Two states that began in the second of the latest, or a checkout finished in it, carry
\* times that do not tell them apart.
SameSecond == \E e \in Events \ {Latest} : Created(e) = states[Latest]

\* "an older event than the one recorded changes nothing (Stripe does not order them)"
\* (billing.go:392): once every event has been handled, in whatever order and however
\* often, the row is the subscription as it is; unless the latest state shares its second
\* or an event was answered without its customer.
RowIsCurrent ==
    Events \subseteq handled /\ ~misplaced /\ ~SameSecond
        /\ (\A h \in Handlers : handling[h] = Idle)
            => kept.state = Latest

\* The same without regard to seconds.
RowIsCurrentAlways ==
    Events \subseteq handled /\ ~misplaced /\ (\A h \in Handlers : handling[h] = Idle)
        => kept.state = Latest
=============================================================================
