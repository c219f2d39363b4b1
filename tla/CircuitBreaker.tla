--------------------------- MODULE CircuitBreaker ---------------------------
(***************************************************************************)
(* The breaker of pkg/resilience, with calls that run at the same time: Do *)
(* takes the lock to admit a call and takes it again when fn returns.      *)
(*                                                                         *)
(* Time is the flag "elapsed": Reset has passed since openedAt.  A count   *)
(* of failures above the threshold is kept at the threshold, since Do only *)
(* compares the two.                                                       *)
(***************************************************************************)
EXTENDS Integers, FiniteSets

CONSTANTS
    Calls,       \* goroutines that call Do, each one call at a time
    Threshold    \* Options.Failures

ASSUME ThresholdAssumption == Threshold \in Nat \ {0}

VARIABLES
    state,      \* b.state
    failures,   \* b.failures
    trial,      \* b.trial
    elapsed,    \* b.now() - b.openedAt >= Reset
    call,       \* what each call was admitted as
    lost        \* the trial of this half-open period is over and left no result

breakerVars == <<state, failures, trial, elapsed, call, lost>>

States == {"closed", "open", "half-open"}

\* "out" is no call; "closed" one admitted in the closed state, "trial" one let
\* through in this half-open period, "stale" one let through in an earlier period.
Admitted == {"out", "closed", "trial", "stale"}

Min(a, b) == IF a < b THEN a ELSE b

BreakerInit ==
    /\ state = "closed"
    /\ failures = 0
    /\ trial = FALSE
    /\ elapsed = FALSE
    /\ call = [c \in Calls |-> "out"]
    /\ lost = FALSE

Elapse ==
    /\ state = "open" /\ ~elapsed
    /\ elapsed' = TRUE
    /\ UNCHANGED <<state, failures, trial, call, lost>>

HalfOpens == state = "open" /\ elapsed

\* The calls as they are known when a half-open period begins, or goes on.
Known == [c \in Calls |-> IF HalfOpens /\ call[c] = "trial" THEN "stale" ELSE call[c]]

\* State(): a look at the breaker makes it half-open once Reset has passed.
State ==
    /\ HalfOpens
    /\ state' = "half-open"
    /\ trial' = FALSE
    /\ lost' = FALSE
    /\ call' = Known
    /\ UNCHANGED <<failures, elapsed>>

\* Do in the closed state.
Admit(c) ==
    /\ call[c] = "out"
    /\ state = "closed"
    /\ call' = [call EXCEPT ![c] = "closed"]
    /\ UNCHANGED <<state, failures, trial, elapsed, lost>>

\* Mutant of MayTry: b.trial is not looked at.
MayTryAlways == HalfOpens \/ state = "half-open"

\* Mutant of MayTry: advance does not reset b.trial.
MayTryOnce == (HalfOpens \/ state = "half-open") /\ ~trial

\* What advance leaves: a half-open breaker whose trial is not out yet.
MayTry == HalfOpens \/ (state = "half-open" /\ ~trial)

\* Do in the half-open state, which advance may just have brought about: the first
\* call is the trial.
Try(c) ==
    /\ call[c] = "out"
    /\ MayTry
    /\ state' = "half-open"
    /\ trial' = TRUE
    /\ lost' = FALSE
    /\ call' = [Known EXCEPT ![c] = "trial"]
    /\ UNCHANGED <<failures, elapsed>>

\* Do in the open state, or in a half-open period whose trial is out: ErrOpen.
Refuse(c) ==
    /\ call[c] = "out"
    /\ \/ state = "open" /\ ~elapsed
       \/ state = "half-open" /\ trial
    /\ UNCHANGED breakerVars

\* Mutant of Opens: the threshold must be passed, not reached.
OpensLate == state = "half-open" \/ failures >= Threshold

Opens == state = "half-open" \/ failures + 1 >= Threshold

\* Mutant of Fails: a failed trial leaves the breaker half-open.
FailInPlace(c) ==
    /\ call[c] # "out"
    /\ failures' = Min(failures + 1, Threshold)
    /\ IF state = "closed" /\ failures + 1 >= Threshold
       THEN state' = "open" /\ elapsed' = FALSE
       ELSE UNCHANGED <<state, elapsed>>
    /\ call' = [call EXCEPT ![c] = "out"]
    /\ UNCHANGED <<trial, lost>>

\* fn returned an error that counts.
Fails(c) ==
    /\ call[c] # "out"
    /\ failures' = Min(failures + 1, Threshold)
    /\ IF Opens THEN state' = "open" /\ elapsed' = FALSE
                ELSE UNCHANGED <<state, elapsed>>
    /\ call' = [call EXCEPT ![c] = "out"]
    /\ UNCHANGED <<trial, lost>>

\* Mutant of Succeed: a success makes up for one failure only.
SucceedOnce(c) ==
    /\ call[c] # "out"
    /\ failures' = failures - 1
    /\ state' = "closed"
    /\ call' = [call EXCEPT ![c] = "out"]
    /\ UNCHANGED <<trial, elapsed, lost>>

\* fn returned nil, or an error that does not count, such as a cancellation.
Succeed(c) ==
    /\ call[c] # "out"
    /\ failures' = 0
    /\ state' = "closed"
    /\ call' = [call EXCEPT ![c] = "out"]
    /\ UNCHANGED <<trial, elapsed, lost>>

\* fn panics: what follows it in Do is never run.
Panic(c) ==
    /\ call[c] # "out"
    /\ call' = [call EXCEPT ![c] = "out"]
    /\ lost' = (lost \/ call[c] = "trial")
    /\ UNCHANGED <<state, failures, trial, elapsed>>

Do(c) == Admit(c) \/ Try(c)
Return(c) == Fails(c) \/ Succeed(c)

BreakerNext == Elapse \/ State \/ \E c \in Calls : Do(c) \/ Refuse(c) \/ Return(c) \/ Panic(c)

BreakerSpec == BreakerInit /\ [][BreakerNext]_breakerVars

\* Time passes, callers keep calling, and fn returns (it has a context).
BreakerFairSpec ==
    /\ BreakerSpec
    /\ WF_breakerVars(Elapse)
    /\ \A c \in Calls : WF_breakerVars(Do(c)) /\ WF_breakerVars(Return(c))

-----------------------------------------------------------------------------
(* Properties *)

BreakerTypeOK ==
    /\ state \in States
    /\ failures \in 0..Threshold
    /\ trial \in BOOLEAN
    /\ elapsed \in BOOLEAN
    /\ call \in [Calls -> Admitted]

\* A half-open period lets one call through, also when calls of earlier periods
\* and of the closed state are still running or return meanwhile.
OneTrial == \A c, d \in Calls : call[c] = "trial" /\ call[d] = "trial" => c = d

\* A closed breaker has seen fewer failures in a row than open it, whatever late
\* results have closed and opened it in between.
ClosedBelow == state = "closed" => failures < Threshold

\* A breaker that opened closes or lets a trial through: it does not refuse for ever.
Recovers == state = "open" ~> state = "closed" \/ \E c \in Calls : call[c] = "trial"

\* A half-open period ends: the breaker does not wait for a trial that returned.
PeriodEnds == state = "half-open" ~> state # "half-open" \/ lost

\* "Reset is how long the breaker stays open before letting one trial call through":
\* it never refuses for ever.  A trial whose fn panics leaves b.trial set, and then
\* it does, with no call out that could clear it.
NeverStuck ==
    (state = "half-open" /\ trial /\ \A c \in Calls : call[c] = "out")
        ~> (state # "half-open" \/ ~trial)
=============================================================================
