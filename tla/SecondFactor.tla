----------------------------- MODULE SecondFactor -----------------------------
(***************************************************************************)
(* The authenticator factor of one account (packs/auth/stepup.go): setting *)
(* it up and enabling it, the checks that use up a time step or a recovery *)
(* code, the lock after wrong codes, new recovery codes and turning it     *)
(* off.  Every request reads the row first and updates it by a condition   *)
(* on what it read.                                                        *)
(*                                                                         *)
(* A code is known by what it is a code of; sealing and hashing are left   *)
(* out, and so are the step-up grants, rows that a passed check inserts.   *)
(***************************************************************************)
EXTENDS Integers, FiniteSets

CONSTANTS
    Checks,         \* requests in progress at once
    MaxFailures,    \* factorMaxFailures
    Skew,           \* totpSkew
    MaxStep,        \* bound on time steps
    MaxSecrets,     \* bound on secrets and sets of recovery codes
    Spare,          \* recovery codes in a set
    NoFactor

VARIABLES
    factor,     \* the row of auth_factor
    now,        \* the current time step
    issued,     \* secrets made, and sets of recovery codes
    checks,     \* requests in progress
    spent,      \* codes that passed a check
    twice,      \* a code passed two checks of one row
    tries,      \* failures recorded since the last right code, in this window
    enablings

vars == <<factor, now, issued, checks, spent, twice, tries, enablings>>

-----------------------------------------------------------------------------

Secrets == 1..MaxSecrets
Backup == [set : Secrets, nr : 1..Spare]
TimeCode == [secret : Secrets, step : 1..MaxStep]
NoCode == [wrong |-> TRUE]
Codes == Backup \cup TimeCode \cup {NoCode}

\* failing: failed_at is set and within factorFailWindow.
Factor == [secret : Secrets, last : 0..MaxStep, backup : SUBSET Backup, enabled : BOOLEAN,
           failures : 0..(MaxFailures + Cardinality(Checks)), failing : BOOLEAN]

Idle == [pc |-> "idle"]
Check ==
    [pc : {"step", "backup", "fail", "passed"}, code : Codes, row : Factor, enablings : Nat]
        \cup [pc : {"upsert"}, enablings : Nat]
        \cup [pc : {"enable"}, code : TimeCode]

TypeOK ==
    /\ factor \in Factor \cup {NoFactor}
    /\ now \in 1..MaxStep
    /\ issued \in [secret : 0..MaxSecrets, set : 0..MaxSecrets]
    /\ checks \in [Checks -> Check \cup {Idle}]
    /\ spent \subseteq Codes
    /\ twice \in BOOLEAN
    /\ tries \in Nat /\ enablings \in Nat

Init ==
    /\ factor = NoFactor
    /\ now = 1
    /\ issued = [secret |-> 0, set |-> 0]
    /\ checks = [q \in Checks |-> Idle]
    /\ spent = {}
    /\ twice = FALSE
    /\ tries = 0 /\ enablings = 0

Enabled == factor # NoFactor /\ factor.enabled
End(q) == checks' = [checks EXCEPT ![q] = Idle]
Turn(q, pc) == checks' = [checks EXCEPT ![q].pc = pc]
Fresh(set) == {[set |-> set, nr |-> k] : k \in 1..Spare}

Tick ==
    /\ now < MaxStep
    /\ now' = now + 1
    /\ UNCHANGED <<factor, issued, checks, spent, twice, tries, enablings>>

\* verifyTOTP: a step of the window, later than the last one used.
VerifyTOTP(secret, code, after) ==
    /\ code \in TimeCode
    /\ code.secret = secret
    /\ code.step \in (now - Skew)..(now + Skew)
    /\ code.step > after

-----------------------------------------------------------------------------
(* CheckSecondFactor.                                                      *)

Locked == factor.failing /\ factor.failures >= MaxFailures

\* The read, the lock and the comparison; what a user types is a code it was given, of
\* any time step so far, or wrong.
Typed == {c \in TimeCode : c.secret <= issued.secret /\ c.step <= now}
    \cup {c \in Backup : c.set <= issued.set} \cup {NoCode}

Read(pc, code) == [pc |-> pc, code |-> code, row |-> factor, enablings |-> enablings]

Look(q) ==
    /\ checks[q] = Idle
    /\ Enabled /\ ~Locked
    /\ \E code \in Typed :
        checks' = [checks EXCEPT ![q] =
            CASE VerifyTOTP(factor.secret, code, factor.last) -> Read("step", code)
              [] code \in factor.backup -> Read("backup", code)
              [] OTHER -> Read("fail", NoCode)]
    /\ UNCHANGED <<factor, now, issued, spent, twice, tries, enablings>>

\* The condition of an UPDATE failed: another request was first.
LoseRace(q) ==
    /\ checks' = [checks EXCEPT ![q].pc = "fail", ![q].code = NoCode]
    /\ UNCHANGED <<factor, spent, twice, tries>>

\* A passed check clears the failures.
Pass(q, row) ==
    /\ factor' = [row EXCEPT !.failures = 0, !.failing = FALSE]
    /\ spent' = spent \cup {checks[q].code}
    /\ twice' = (twice \/ (checks[q].code \in spent /\ checks[q].row.secret = row.secret))
    /\ tries' = 0
    /\ Turn(q, "passed")

\* Mutant of UseStep: no "AND last_step < $2".
UseStepAgain(q) ==
    /\ checks[q] # Idle /\ checks[q].pc = "step"
    /\ IF factor # NoFactor THEN Pass(q, [factor EXCEPT !.last = checks[q].code.step])
                            ELSE LoseRace(q)
    /\ UNCHANGED <<now, issued, enablings>>

UseStep(q) ==
    /\ checks[q] # Idle /\ checks[q].pc = "step"
    /\ IF factor # NoFactor /\ factor.last < checks[q].code.step
       THEN Pass(q, [factor EXCEPT !.last = checks[q].code.step])
       ELSE LoseRace(q)
    /\ UNCHANGED <<now, issued, enablings>>

UseBackup(q) ==
    /\ checks[q] # Idle /\ checks[q].pc = "backup"
    /\ IF factor # NoFactor /\ factor.backup = checks[q].row.backup
       THEN Pass(q, [factor EXCEPT !.backup = @ \ {checks[q].code}])
       ELSE LoseRace(q)
    /\ UNCHANGED <<now, issued, enablings>>

\* Mutant of FactorFailed: the count that was read is written back plus one.
FactorFailedFromRead(q) ==
    LET row == checks[q].row
    IN  /\ checks[q] # Idle /\ checks[q].pc = "fail"
        /\ factor' = IF factor = NoFactor THEN factor ELSE
             [factor EXCEPT !.failures = IF row.failing THEN row.failures + 1 ELSE 1,
                            !.failing = TRUE]
        /\ tries' = IF factor = NoFactor THEN 0 ELSE tries + 1
        /\ End(q)
        /\ UNCHANGED <<now, issued, spent, twice, enablings>>

\* factorFailed counts in the statement; the window begins with its first failure.
FactorFailed(q) ==
    /\ checks[q] # Idle /\ checks[q].pc = "fail"
    /\ factor' = IF factor = NoFactor THEN factor ELSE
         [factor EXCEPT !.failures = IF factor.failing THEN @ + 1 ELSE 1, !.failing = TRUE]
    /\ tries' = IF factor = NoFactor THEN 0 ELSE tries + 1
    /\ End(q)
    /\ UNCHANGED <<now, issued, spent, twice, enablings>>

\* factorFailWindow after failed_at.
EndWindow ==
    /\ factor # NoFactor /\ factor.failing
    /\ factor' = [factor EXCEPT !.failing = FALSE]
    /\ tries' = 0
    /\ UNCHANGED <<now, issued, checks, spent, twice, enablings>>

-----------------------------------------------------------------------------
(* What a passed check is for.                                             *)

\* A sign-in or a step-up goes on; what it grants is not modelled.
Done(q) ==
    /\ checks[q] # Idle /\ checks[q].pc = "passed"
    /\ End(q)
    /\ UNCHANGED <<factor, now, issued, spent, twice, tries, enablings>>

\* authTwoFactorDisable deletes the row.
Disable(q) ==
    /\ checks[q] # Idle /\ checks[q].pc = "passed"
    /\ factor' = NoFactor
    /\ tries' = 0
    /\ End(q)
    /\ UNCHANGED <<now, issued, spent, twice, enablings>>

\* authBackupCodes replaces the codes, whatever they are by now.
Regenerate(q) ==
    /\ checks[q] # Idle /\ checks[q].pc = "passed"
    /\ IF factor = NoFactor THEN UNCHANGED <<factor, issued>> ELSE
        /\ issued.set < MaxSecrets
        /\ issued' = [issued EXCEPT !.set = @ + 1]
        /\ factor' = [factor EXCEPT !.backup = Fresh(issued.set + 1)]
    /\ End(q)
    /\ UNCHANGED <<now, spent, twice, tries, enablings>>

-----------------------------------------------------------------------------
(* Enrollment.                                                             *)

\* Mutant of StartSetup: a factor that is on is not asked about.
StartSetupAnyway(q) ==
    /\ checks[q] = Idle /\ issued.secret < MaxSecrets
    /\ checks' = [checks EXCEPT ![q] = [pc |-> "upsert", enablings |-> enablings]]
    /\ UNCHANGED <<factor, now, issued, spent, twice, tries, enablings>>

\* authTwoFactorSetup reads that the factor is not on ...
StartSetup(q) ==
    /\ checks[q] = Idle /\ issued.secret < MaxSecrets
    /\ ~Enabled
    /\ checks' = [checks EXCEPT ![q] = [pc |-> "upsert", enablings |-> enablings]]
    /\ UNCHANGED <<factor, now, issued, spent, twice, tries, enablings>>

\* ... and writes a new secret over whatever is there by now.
Setup(q) ==
    /\ checks[q] # Idle /\ checks[q].pc = "upsert"
    /\ issued.secret < MaxSecrets
    /\ issued' = [issued EXCEPT !.secret = @ + 1]
    /\ factor' = [secret |-> issued.secret + 1, last |-> 0, backup |-> {},
                  enabled |-> FALSE, failures |-> 0, failing |-> FALSE]
    /\ tries' = 0
    /\ End(q)
    /\ UNCHANGED <<now, spent, twice, enablings>>

\* authTwoFactorEnable: a code of the secret it read ...
StartEnable(q) ==
    /\ checks[q] = Idle
    /\ factor # NoFactor /\ ~factor.enabled
    /\ \E code \in Typed :
        /\ VerifyTOTP(factor.secret, code, 0)
        /\ checks' = [checks EXCEPT ![q] = [pc |-> "enable", code |-> code]]
    /\ UNCHANGED <<factor, now, issued, spent, twice, tries, enablings>>

\* ... enables the row as it is now, unless it has been enabled.
Enable(q) ==
    /\ checks[q] # Idle /\ checks[q].pc = "enable"
    /\ IF factor # NoFactor /\ ~factor.enabled
       THEN /\ issued.set < MaxSecrets
            /\ issued' = [issued EXCEPT !.set = @ + 1]
            /\ factor' = [factor EXCEPT !.last = checks[q].code.step, !.enabled = TRUE,
                                        !.backup = Fresh(issued.set + 1),
                                        !.failures = 0, !.failing = FALSE]
            /\ spent' = spent \cup {checks[q].code}
            /\ tries' = 0
            /\ enablings' = enablings + 1
       ELSE UNCHANGED <<factor, issued, spent, tries, enablings>>
    /\ End(q)
    /\ UNCHANGED <<now, twice>>

\* A failed statement, a request cancelled by its client, a dead process.
Abort(q) ==
    /\ checks[q] # Idle
    /\ End(q)
    /\ UNCHANGED <<factor, now, issued, spent, twice, tries, enablings>>

Next ==
    \/ Tick \/ EndWindow
    \/ \E q \in Checks :
        \/ Look(q) \/ UseStep(q) \/ UseBackup(q) \/ FactorFailed(q)
        \/ Done(q) \/ Disable(q) \/ Regenerate(q)
        \/ StartSetup(q) \/ Setup(q) \/ StartEnable(q) \/ Enable(q)
        \/ Abort(q)

Spec == Init /\ [][Next]_vars

-----------------------------------------------------------------------------

\* "A code cannot win two concurrent checks" (stepup.go:159), nor two at different
\* times, as long as the secret it is checked with is still the row's.
CodesOnce == ~twice

\* "too many wrong codes; try again in 15 minutes" (stepup.go:36): requests in
\* parallel get no more than one wrong code each beyond the limit, whatever the order
\* in which they read the row and record their failures.
TriesBounded ==
    tries + Cardinality({q \in Checks : checks[q] # Idle /\ checks[q].pc = "fail"})
        <= MaxFailures + Cardinality(Checks) - 1

\* Both: no order of checks in parallel lets a code in twice or a guesser try for ever.
CodesHold == CodesOnce /\ TriesBounded

\* "disable it before enrolling another authenticator" (stepup.go:229): a factor that
\* is on goes off only after a check that compared a code with the secret it has now, except
\* by a request that had read the row before this factor was enabled: a setup that found
\* none on, or a check against the one before it, which Disable follows with a DELETE by
\* subject alone.
OffByCode ==
    Enabled /\ ~Enabled' => \E q \in Checks : checks[q] # Idle /\ checks'[q] = Idle /\
        \/ checks[q].pc = "passed" /\ checks[q].row.secret = factor.secret
        \/ checks[q].pc \in {"passed", "upsert"} /\ checks[q].enablings < enablings
OffOnlyByCode == [][OffByCode]_vars
=============================================================================
