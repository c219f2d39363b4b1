----------------------------- MODULE PartsProofs -----------------------------
(***************************************************************************)
(* What nine of the parts promise for any number of callers, processes,    *)
(* browsers and hosts and for every bound: the verdicts on hostnames, the  *)
(* pool's slots, the copies of a message, the row of a subscription, the   *)
(* renewal of a session, connected accounts, the second factor, the        *)
(* migrations' table and the application's life.  Each has an inductive    *)
(* invariant of its own; the step of another part leaves it.               *)
(***************************************************************************)
EXTENDS MCParts, FiniteSetTheorems, TLAPS

-----------------------------------------------------------------------------
(* Sizes.  A part instantiated has a name of its own for Cardinality.      *)

LEMMA SameSize ==
    /\ \A S : Policy!Cardinality(S) = Cardinality(S)
    /\ \A S : Pool!Cardinality(S) = Cardinality(S)
  BY DEF Cardinality, Policy!Cardinality, Pool!Cardinality

LEMMA AddOne ==
    ASSUME NEW S, NEW x, IsFiniteSet(S)
    PROVE  IsFiniteSet(S \cup {x}) /\ Cardinality(S \cup {x}) <= Cardinality(S) + 1
<1>1. Cardinality(S) \in Nat
  BY FS_CardinalityType
<1>2. QED
  BY <1>1, FS_AddElement

-----------------------------------------------------------------------------
(* The machine that runs goes on running.                                  *)

LEMMA OnePart == [Next]_vars => part' = part
  BY DEF Next, RenewalStep, FactorStep, ConnectedStep, PoolStep, CacheStep, SavedStep,
     OutboxStep, StripeStep, SchemaStep, PolicyStep, CalendarStep, GeneratedStep,
     MergeStep, DevStep, ModelStep, UploadStep, LifeStep, DecimalStep, vars

-----------------------------------------------------------------------------
(* Hostnames.                                                              *)

time == x1
approves == x2
lastApproved == x3
verdicts == x4
handshake == x5
policyVars == <<x1, x2, x3, x4, x5>>
USE DEF time, approves, lastApproved, verdicts, handshake

Handshake(f) ==
    \/ f = Policy!Idle
    \/ /\ f.pc \in {"ask", "keep"} /\ f.host \in Hosts
       /\ f.began \in Int /\ f.began <= time
       /\ f.pc = "keep" => f.ok \in BOOLEAN

PolicyTypes ==
    /\ time \in Int
    /\ approves \subseteq Hosts
    /\ lastApproved \in [Hosts -> Int]
    /\ verdicts \subseteq Policy!Verdict
    /\ IsFiniteSet(verdicts) /\ Cardinality(verdicts) <= MaxVerdicts
    /\ handshake = [c \in Pair |-> handshake[c]]
    /\ \A c \in Pair : Handshake(handshake[c])

\* The app's approval in time, that of a hook's answer, and that of a verdict kept.
Approved ==
    /\ \A h \in Hosts : lastApproved[h] <= time
    /\ \A h \in approves : lastApproved[h] = time
AnswersApproved == \A c \in Pair :
    handshake[c].pc = "keep" /\ handshake[c].ok
        => handshake[c].began <= lastApproved[handshake[c].host]
VerdictsApproved == \A v \in verdicts : v.ok => v.expires <= lastApproved[v.host] + ApproveTTL

PolicyInv == PolicyTypes /\ Approved /\ AnswersApproved /\ VerdictsApproved

LEMMA PolicyBegins == Policy!Init => PolicyInv
<1> SUFFICES ASSUME Policy!Init PROVE PolicyInv
  OBVIOUS
<1>1. verdicts = {} /\ IsFiniteSet({}) /\ Cardinality({}) = 0
  BY FS_EmptySet DEF Policy!Init
<1>2. PolicyTypes
  BY <1>1, PartsAssumption DEF Policy!Init, PolicyTypes, Handshake, Policy!Long
<1>3. Approved
  BY <1>2, PartsAssumption DEF Policy!Init, Approved, Policy!Long
<1>4. AnswersApproved /\ VerdictsApproved
  BY <1>1 DEF Policy!Init, AnswersApproved, VerdictsApproved, Policy!Idle
<1>5. QED
  BY <1>2, <1>3, <1>4 DEF PolicyInv

\* Time passes and the app changes its mind: what was approved by then still was.
LEMMA LaterApproved ==
    ASSUME PolicyInv, lastApproved' \in [Hosts -> Int],
           \A h \in Hosts : lastApproved[h] <= lastApproved'[h], UNCHANGED <<verdicts, handshake>>
    PROVE  AnswersApproved' /\ VerdictsApproved'
<1>1. lastApproved \in [Hosts -> Int]
  BY DEF PolicyInv, PolicyTypes
<1>2. AnswersApproved'
  <2> SUFFICES ASSUME NEW c \in Pair, handshake[c].pc = "keep", handshake[c].ok
               PROVE  handshake[c].began <= lastApproved'[handshake[c].host]
    BY DEF AnswersApproved
  <2>1. handshake[c].host \in Hosts /\ handshake[c].began \in Int
    BY DEF PolicyInv, PolicyTypes, Handshake, Policy!Idle
  <2>2. handshake[c].began <= lastApproved[handshake[c].host]
    BY DEF PolicyInv, AnswersApproved
  <2>3. QED
    BY <1>1, <2>1, <2>2
<1>3. VerdictsApproved'
  <2> SUFFICES ASSUME NEW v \in verdicts, v.ok
               PROVE  v.expires <= lastApproved'[v.host] + ApproveTTL
    BY DEF VerdictsApproved
  <2>1. v.host \in Hosts /\ v.expires \in Int
    BY DEF PolicyInv, PolicyTypes, Policy!Verdict
  <2>2. v.expires <= lastApproved[v.host] + ApproveTTL
    BY DEF PolicyInv, VerdictsApproved
  <2>3. QED
    BY <1>1, <2>1, <2>2, PartsAssumption
<1>4. QED
  BY <1>2, <1>3

LEMMA ChangeHostHolds == ASSUME PolicyInv, Policy!ChangeHost PROVE PolicyInv'
<1>1. PICK h \in Hosts :
        /\ approves' = (approves \ {h}) \cup ({h} \ approves)
        /\ lastApproved' = [lastApproved EXCEPT ![h] = time]
        /\ UNCHANGED <<time, verdicts, handshake>>
  BY DEF Policy!ChangeHost
<1>2. lastApproved \in [Hosts -> Int] /\ time \in Int /\ lastApproved' \in [Hosts -> Int]
  BY <1>1 DEF PolicyInv, PolicyTypes
<1>3. \A g \in Hosts : lastApproved[g] <= lastApproved'[g] /\ lastApproved'[g] <= time
  BY <1>1, <1>2 DEF PolicyInv, Approved
<1>4. PolicyTypes'
  BY <1>1, <1>2 DEF PolicyInv, PolicyTypes, Handshake
<1>5. Approved'
  BY <1>1, <1>2, <1>3 DEF PolicyInv, Approved
<1>6. QED
  BY <1>1, <1>2, <1>3, <1>4, <1>5, LaterApproved DEF PolicyInv

LEMMA TickHolds == ASSUME PolicyInv, Policy!Tick PROVE PolicyInv'
<1>1. /\ time' = time + 1
      /\ lastApproved' = [h \in Hosts |-> IF h \in approves THEN time + 1 ELSE lastApproved[h]]
      /\ UNCHANGED <<approves, verdicts, handshake>>
  BY DEF Policy!Tick
<1>2. /\ lastApproved \in [Hosts -> Int] /\ time \in Int /\ approves \subseteq Hosts
      /\ lastApproved' \in [Hosts -> Int] /\ time' \in Int /\ time <= time'
  BY <1>1 DEF PolicyInv, PolicyTypes
<1>3. \A g \in Hosts : lastApproved[g] <= lastApproved'[g] /\ lastApproved'[g] <= time'
  BY <1>1, <1>2 DEF PolicyInv, Approved
<1>4. PolicyTypes'
  BY <1>1, <1>2 DEF PolicyInv, PolicyTypes, Handshake
<1>5. Approved'
  BY <1>1, <1>2, <1>3 DEF PolicyInv, Approved
<1>6. QED
  BY <1>1, <1>2, <1>3, <1>4, <1>5, LaterApproved DEF PolicyInv

LEMMA AllowHolds == ASSUME PolicyInv, NEW c \in Pair, Policy!Allow(c) PROVE PolicyInv'
<1>1. PICK h \in Hosts : handshake' =
        [handshake EXCEPT ![c] = [pc |-> "ask", host |-> h, began |-> time]]
  BY DEF Policy!Allow, Policy!Become
<1>2. UNCHANGED <<time, approves, lastApproved, verdicts>>
  BY DEF Policy!Allow
<1>3. Handshake([pc |-> "ask", host |-> h, began |-> time])
  BY DEF PolicyInv, PolicyTypes, Handshake
<1>4. PolicyTypes'
  BY <1>1, <1>2, <1>3 DEF PolicyInv, PolicyTypes, Handshake
<1>5. Approved' /\ VerdictsApproved'
  BY <1>2 DEF PolicyInv, Approved, VerdictsApproved
<1>6. AnswersApproved'
  BY <1>1, <1>2 DEF PolicyInv, PolicyTypes, AnswersApproved
<1>7. QED
  BY <1>4, <1>5, <1>6 DEF PolicyInv

\* An approval of now is no earlier than when the hook was asked.
LEMMA HookHolds == ASSUME PolicyInv, NEW c \in Pair, Policy!Hook(c) PROVE PolicyInv'
<1> DEFINE f == handshake[c]
<1>1. f.pc = "ask" /\ UNCHANGED <<time, approves, lastApproved, verdicts>>
  BY DEF Policy!Hook
<1>2. PICK ok \in BOOLEAN :
        /\ ok => f.host \in approves
        /\ handshake' = [handshake EXCEPT
                ![c] = [pc |-> "keep", host |-> f.host, began |-> f.began, ok |-> ok]]
  BY DEF Policy!Hook, Policy!Become
<1>3. f.host \in Hosts /\ f.began \in Int /\ f.began <= time
  BY <1>1 DEF PolicyInv, PolicyTypes, Handshake, Policy!Idle
<1> DEFINE next == [pc |-> "keep", host |-> f.host, began |-> f.began, ok |-> ok]
<1>4. /\ Handshake(next)
      /\ handshake'[c] = next /\ \A o \in Pair \ {c} : handshake'[o] = handshake[o]
  BY <1>2, <1>3 DEF PolicyInv, PolicyTypes, Handshake
<1>5. PolicyTypes'
  BY <1>1, <1>2, <1>4 DEF PolicyInv, PolicyTypes, Handshake
<1>6. Approved' /\ VerdictsApproved'
  BY <1>1 DEF PolicyInv, Approved, VerdictsApproved
<1>7. ok => f.began <= lastApproved[f.host]
  BY <1>2, <1>3 DEF PolicyInv, Approved
<1>8. AnswersApproved'
  BY <1>1, <1>4, <1>7 DEF PolicyInv, AnswersApproved
<1>9. QED
  BY <1>5, <1>6, <1>8 DEF PolicyInv

\* There is room for one more.
LEMMA RoomLeft ==
    ASSUME PolicyTypes, NEW began, NEW S \in Policy!Room(began)
    PROVE  S \subseteq verdicts /\ IsFiniteSet(S) /\ Cardinality(S) <= MaxVerdicts - 1
<1>1. S \subseteq verdicts /\ IsFiniteSet(S)
  BY FS_Subset DEF Policy!Room, PolicyTypes
<1>2. Cardinality(S) \in Nat /\ MaxVerdicts \in Nat
  BY <1>1, FS_CardinalityType, PartsAssumption
<1>3. Cardinality(S) < MaxVerdicts \/ Cardinality(S) = MaxVerdicts - 1
  <2> DEFINE unexpired == {v \in verdicts : began < v.expires}
  <2>1. CASE Cardinality(verdicts) < MaxVerdicts
    BY <2>1, SameSize DEF Policy!Room
  <2>2. CASE ~(Cardinality(verdicts) < MaxVerdicts) /\ Cardinality(unexpired) < MaxVerdicts
    BY <2>2, SameSize DEF Policy!Room
  <2>3. CASE ~(Cardinality(verdicts) < MaxVerdicts) /\ ~(Cardinality(unexpired) < MaxVerdicts)
    BY <2>3, SameSize DEF Policy!Room
  <2>4. QED
    BY <2>1, <2>2, <2>3
<1>4. QED
  BY <1>1, <1>2, <1>3

LEMMA KeepHolds == ASSUME PolicyInv, NEW c \in Pair, Policy!Keep(c) PROVE PolicyInv'
<1> DEFINE f == handshake[c]
           new == [host |-> f.host, ok |-> f.ok, expires |-> Policy!Expires(c)]
<1>1. f.pc = "keep" /\ UNCHANGED <<time, approves, lastApproved>>
  BY DEF Policy!Keep
<1>2. handshake' = [handshake EXCEPT ![c] = Policy!Idle]
  BY DEF Policy!Keep, Policy!Become
<1>3. PICK S \in Policy!Room(f.began) : verdicts' = {v \in S : v.host # f.host} \cup {new}
  BY DEF Policy!Keep
<1>4. f.host \in Hosts /\ f.ok \in BOOLEAN /\ f.began \in Int
  BY <1>1 DEF PolicyInv, PolicyTypes, Handshake, Policy!Idle
<1>5. new \in Policy!Verdict
  BY <1>4, PartsAssumption DEF Policy!Verdict, Policy!Expires, Policy!TTL
<1>6. new.ok => new.expires <= lastApproved[new.host] + ApproveTTL
  BY <1>1, <1>4, PartsAssumption
     DEF PolicyInv, PolicyTypes, AnswersApproved, Policy!Expires, Policy!TTL
<1> DEFINE left == {v \in S : v.host # f.host}
<1>7. S \subseteq verdicts /\ IsFiniteSet(S) /\ Cardinality(S) <= MaxVerdicts - 1
  BY RoomLeft DEF PolicyInv
<1>8. IsFiniteSet(left) /\ Cardinality(left) <= Cardinality(S)
  BY <1>7, FS_Subset
<1>9. IsFiniteSet(left \cup {new}) /\ Cardinality(left \cup {new}) <= Cardinality(left) + 1
  BY <1>8, AddOne
<1>10. IsFiniteSet(verdicts') /\ Cardinality(verdicts') <= MaxVerdicts
  <2>1. Cardinality(left) \in Nat /\ Cardinality(S) \in Nat /\ Cardinality(left \cup {new}) \in Nat
    BY <1>7, <1>8, <1>9, FS_CardinalityType
  <2>2. QED
    BY <1>3, <1>7, <1>8, <1>9, <2>1, PartsAssumption
<1>11. verdicts' \subseteq Policy!Verdict
  BY <1>3, <1>5, <1>7 DEF PolicyInv, PolicyTypes
<1>12. PolicyTypes'
  BY <1>1, <1>2, <1>10, <1>11 DEF PolicyInv, PolicyTypes, Handshake
<1>13. Approved'
  BY <1>1 DEF PolicyInv, Approved
<1>14. AnswersApproved'
  BY <1>1, <1>2 DEF PolicyInv, PolicyTypes, AnswersApproved, Policy!Idle
<1>15. VerdictsApproved'
  BY <1>1, <1>3, <1>6, <1>7 DEF PolicyInv, VerdictsApproved
<1>16. QED
  BY <1>12, <1>13, <1>14, <1>15 DEF PolicyInv

LEMMA PolicyAlone == part = "policy" /\ [Next]_vars => [Policy!Next]_policyVars
<1>1. ASSUME part = "policy", Next PROVE [Policy!Next]_policyVars
  BY <1>1 DEF Next, RenewalStep, FactorStep, ConnectedStep, PoolStep, CacheStep, SavedStep,
     OutboxStep, StripeStep, SchemaStep, PolicyStep, CalendarStep, GeneratedStep,
     MergeStep, DevStep, ModelStep, UploadStep, LifeStep, DecimalStep
<1>2. ASSUME UNCHANGED vars PROVE UNCHANGED policyVars
  BY <1>2 DEF vars, state, policyVars
<1>3. QED
  BY <1>1, <1>2

PolicyRuns == part = "policy" => PolicyInv

LEMMA PolicyHolds == PolicyRuns /\ [Next]_vars => PolicyRuns'
<1>1. ASSUME PolicyInv, Policy!Next PROVE PolicyInv'
  BY <1>1, ChangeHostHolds, TickHolds, AllowHolds, HookHolds, KeepHolds DEF Policy!Next
<1>2. ASSUME PolicyInv, UNCHANGED policyVars PROVE PolicyInv'
  BY <1>2 DEF policyVars, PolicyInv, PolicyTypes, Handshake, Approved, AnswersApproved,
     VerdictsApproved
<1>3. QED
  BY <1>1, <1>2, PolicyAlone, OnePart DEF PolicyRuns

\* A host the app no longer approves is refused within the time of a verdict, whatever
\* the number of hosts and handshakes and however slow their hooks are.
THEOREM HostsRevoked == Spec => []RevokedIsRefused
<1>1. Init => PolicyRuns
  BY PolicyBegins DEF Init, PolicyRuns
<1>2. PolicyRuns => RevokedIsRefused
  <2> SUFFICES ASSUME PolicyInv PROVE Policy!RevokedIsRefused
    BY DEF RevokedIsRefused, PolicyRuns
  <2>1. \A v \in verdicts : v.ok /\ time < v.expires => time < lastApproved[v.host] + ApproveTTL
    <3> SUFFICES ASSUME NEW v \in verdicts, v.ok, time < v.expires
                 PROVE  time < lastApproved[v.host] + ApproveTTL
      OBVIOUS
    <3>1. v.host \in Hosts /\ v.expires \in Int /\ time \in Int /\ lastApproved[v.host] \in Int
      BY DEF PolicyInv, PolicyTypes, Policy!Verdict
    <3>2. v.expires <= lastApproved[v.host] + ApproveTTL
      BY DEF PolicyInv, VerdictsApproved
    <3>3. QED
      BY <3>1, <3>2, PartsAssumption
  <2>2. QED
    BY <2>1, SameSize DEF PolicyInv, PolicyTypes, Policy!RevokedIsRefused
<1>3. QED
  BY <1>1, <1>2, PolicyHolds, PTL DEF Spec

-----------------------------------------------------------------------------
(* The outbox.                                                             *)

withJobs == x1
status == x2
jobStatus == x3
jobOwner == x4
claims == x5
deliveryRun == x6
copies == x7
resends == x8
unrecorded == x9
overlaps == x10
outboxVars == <<x1, x2, x3, x4, x5, x6, x7, x8, x9, x10>>
USE DEF withJobs, status, jobStatus, jobOwner, claims, deliveryRun, copies, resends, unrecorded,
    overlaps

Runs == [pc : {"idle", "look", "ok", "error"} \cup Outbox!Sending, queued : BOOLEAN]

\* Runs that may have the provider accept another copy, or had it refused: each of them
\* accounts for one.
Open == {"send", "refused"}
OpenRuns == {r \in Pair : deliveryRun[r].pc \in Open}
Sends == \E r \in Pair : deliveryRun[r].pc \in Outbox!Sending
Reasons == resends + unrecorded + overlaps

OutboxTypes ==
    /\ deliveryRun \in [Pair -> Runs]
    /\ copies \in Nat /\ resends \in Nat /\ unrecorded \in Nat /\ overlaps \in Nat

CopiesCounted ==
    /\ copies + Cardinality(OpenRuns) <= Reasons + 1
    /\ status # "sent" /\ ~Sends => copies <= Reasons

NothingBegun == status = "none" =>
    /\ jobStatus[1] = "none" /\ copies = 0
    /\ \A r \in Pair : deliveryRun[r] = Outbox!Idle

OutboxInv == OutboxTypes /\ CopiesCounted /\ NothingBegun

\* One run goes on.
LEMMA OneTurns ==
    ASSUME OutboxTypes, NEW r \in Pair, NEW run \in Runs,
           deliveryRun' = [deliveryRun EXCEPT ![r] = run]
    PROVE  /\ deliveryRun' \in [Pair -> Runs]
           /\ Cardinality(OpenRuns) \in Nat /\ Cardinality(OpenRuns') \in Nat
           /\ deliveryRun[r].pc \in Open /\ run.pc \notin Open
                => Cardinality(OpenRuns') = Cardinality(OpenRuns) - 1
           /\ deliveryRun[r].pc \notin Open /\ run.pc \in Open
                => Cardinality(OpenRuns') = Cardinality(OpenRuns) + 1
           /\ (deliveryRun[r].pc \in Open <=> run.pc \in Open)
                => Cardinality(OpenRuns') = Cardinality(OpenRuns)
           /\ run.pc \in Outbox!Sending => Sends'
           /\ deliveryRun[r].pc \notin Outbox!Sending /\ ~Sends' => ~Sends
<1>1. deliveryRun'[r] = run /\ \A o \in Pair \ {r} : deliveryRun'[o] = deliveryRun[o]
  BY DEF OutboxTypes
<1>2. deliveryRun' \in [Pair -> Runs]
  BY DEF OutboxTypes
<1>3. IsFiniteSet(OpenRuns) /\ IsFiniteSet(OpenRuns')
  BY PartsAssumption, FS_Subset DEF OpenRuns
<1>4. Cardinality(OpenRuns) \in Nat /\ Cardinality(OpenRuns') \in Nat
  BY <1>3, FS_CardinalityType
<1>5. ASSUME deliveryRun[r].pc \in Open, run.pc \notin Open
      PROVE  Cardinality(OpenRuns') = Cardinality(OpenRuns) - 1
  <2>1. OpenRuns' = OpenRuns \ {r} /\ r \in OpenRuns
    BY <1>1, <1>5 DEF OpenRuns
  <2>2. QED
    BY <2>1, <1>3, FS_RemoveElement
<1>6. ASSUME deliveryRun[r].pc \notin Open, run.pc \in Open
      PROVE  Cardinality(OpenRuns') = Cardinality(OpenRuns) + 1
  <2>1. OpenRuns' = OpenRuns \cup {r} /\ r \notin OpenRuns
    BY <1>1, <1>6 DEF OpenRuns
  <2>2. QED
    BY <2>1, <1>3, FS_AddElement
<1>7. ASSUME deliveryRun[r].pc \in Open <=> run.pc \in Open
      PROVE  Cardinality(OpenRuns') = Cardinality(OpenRuns)
  <2>1. OpenRuns' = OpenRuns
    BY <1>1, <1>7 DEF OpenRuns
  <2>2. QED
    BY <2>1
<1>8. /\ run.pc \in Outbox!Sending => Sends'
      /\ deliveryRun[r].pc \notin Outbox!Sending /\ ~Sends' => ~Sends
  BY <1>1 DEF Sends
<1>9. QED
  BY <1>2, <1>4, <1>5, <1>6, <1>7, <1>8

\* Become and Turn, as one.
LEMMA Turned ==
    ASSUME OutboxTypes, NEW r \in Pair,
           NEW pc \in {"idle", "look", "ok", "error"} \cup Outbox!Sending
    PROVE  /\ \A queued \in BOOLEAN : Outbox!Become(r, pc, queued) =>
                \E run \in Runs : run.pc = pc /\ deliveryRun' = [deliveryRun EXCEPT ![r] = run]
           /\ Outbox!Turn(r, pc) =>
                \E run \in Runs : run.pc = pc /\ deliveryRun' = [deliveryRun EXCEPT ![r] = run]
<1>1. ASSUME NEW queued \in BOOLEAN, Outbox!Become(r, pc, queued)
      PROVE  \E run \in Runs : run.pc = pc /\ deliveryRun' = [deliveryRun EXCEPT ![r] = run]
  <2>1. [pc |-> pc, queued |-> queued] \in Runs
    BY DEF Runs
  <2>2. QED
    BY <1>1, <2>1 DEF Outbox!Become
<1>2. ASSUME Outbox!Turn(r, pc)
      PROVE  \E run \in Runs : run.pc = pc /\ deliveryRun' = [deliveryRun EXCEPT ![r] = run]
  <2>1. deliveryRun[r] \in Runs /\ [deliveryRun[r] EXCEPT !.pc = pc] \in Runs
    BY DEF OutboxTypes, Runs
  <2>2. [deliveryRun[r] EXCEPT !.pc = pc].pc = pc
    BY <2>1 DEF Runs
  <2>3. deliveryRun' = [deliveryRun EXCEPT ![r] = [deliveryRun[r] EXCEPT !.pc = pc]]
    BY <1>2 DEF Outbox!Turn
  <2>4. QED
    BY <2>1, <2>2, <2>3
<1>3. QED
  BY <1>1, <1>2

\* What a step has to show once the message is stored.
LEMMA Counted ==
    ASSUME OutboxTypes', status' # "none",
           copies' + Cardinality(OpenRuns') <= Reasons' + 1,
           status' # "sent" /\ ~Sends' => copies' <= Reasons'
    PROVE  OutboxInv'
  BY DEF OutboxInv, CopiesCounted, NothingBegun

LEMMA OutboxBegins == Outbox!Init => OutboxInv
<1> SUFFICES ASSUME Outbox!Init PROVE OutboxInv
  OBVIOUS
<1>1. \A r \in Pair : deliveryRun[r] = Outbox!Idle
  BY DEF Outbox!Init
<1>2. OutboxTypes
  BY DEF Outbox!Init, OutboxTypes, Outbox!Idle, Runs
<1>3. OpenRuns = {}
  BY <1>1 DEF OpenRuns, Outbox!Idle, Open
<1>4. CopiesCounted
  BY <1>3, FS_EmptySet DEF Outbox!Init, CopiesCounted, Reasons
<1>5. NothingBegun
  BY <1>1 DEF Outbox!Init, Outbox!JobQueue!Init, NothingBegun
<1>6. QED
  BY <1>2, <1>4, <1>5 DEF OutboxInv

\* A message in a run is stored.
LEMMA Stored ==
    ASSUME OutboxInv, NEW r \in Pair, deliveryRun[r].pc # "idle"
    PROVE  status # "none"
  BY DEF OutboxInv, NothingBegun, Outbox!Idle

LEMMA SendQueuedHolds == ASSUME OutboxInv, Outbox!SendQueued PROVE OutboxInv'
<1>1. /\ status = "none" /\ status' = "queued"
      /\ UNCHANGED <<deliveryRun, copies, resends, unrecorded, overlaps>>
  BY DEF Outbox!SendQueued
<1>2. OutboxTypes' /\ copies' = copies /\ OpenRuns' = OpenRuns /\ Reasons' = Reasons
      /\ Sends' = Sends
  BY <1>1 DEF OutboxInv, OutboxTypes, OpenRuns, Reasons, Sends
<1>3. QED
  BY <1>1, <1>2, Counted DEF OutboxInv, CopiesCounted

LEMMA SendNowHolds == ASSUME OutboxInv, NEW r \in Pair, Outbox!SendNow(r) PROVE OutboxInv'
<1>1. /\ status = "none" /\ status' = "queued" /\ Outbox!Become(r, "send", FALSE)
      /\ UNCHANGED <<copies, resends, unrecorded, overlaps>>
  BY DEF Outbox!SendNow
<1>2. "send" \in Outbox!Sending /\ "send" \in Open
  BY DEF Outbox!Sending, Open
<1>3. PICK run \in Runs : run.pc = "send" /\ deliveryRun' = [deliveryRun EXCEPT ![r] = run]
  BY <1>1, <1>2, Turned DEF OutboxInv
<1>4. copies = 0 /\ OpenRuns = {} /\ deliveryRun[r].pc = "idle"
  BY <1>1 DEF OutboxInv, NothingBegun, OpenRuns, Outbox!Idle, Open
<1>5. Cardinality(OpenRuns') = 1 /\ Sends'
  <2>1. Cardinality(OpenRuns) = 0 /\ deliveryRun[r].pc \notin Open /\ run.pc \in Open
    BY <1>3, <1>4, FS_EmptySet DEF Open
  <2>2. Cardinality(OpenRuns') = Cardinality(OpenRuns) + 1 /\ Sends'
    BY <1>2, <1>3, <2>1, OneTurns DEF OutboxInv
  <2>3. QED
    BY <2>1, <2>2
<1>6. OutboxTypes'
  BY <1>1, <1>3, OneTurns DEF OutboxInv, OutboxTypes
<1>7. copies' = 0 /\ Reasons' \in Nat
  BY <1>1, <1>4 DEF OutboxInv, OutboxTypes, Reasons
<1>8. copies' + Cardinality(OpenRuns') <= Reasons' + 1
  <2>1. \A n \in Nat : 0 + 1 <= n + 1
    OBVIOUS
  <2>2. QED
    BY <1>5, <1>7, <2>1
<1>9. status' # "none"
  BY <1>1
<1>10. QED
  BY <1>5, <1>6, <1>8, <1>9, Counted

LEMMA ResendHolds == ASSUME OutboxInv, NEW r \in Pair, Outbox!Resend(r) PROVE OutboxInv'
<1>1. /\ status # "none" /\ status' = status /\ Outbox!Become(r, "send", FALSE)
      /\ resends' = resends + 1 /\ UNCHANGED <<copies, unrecorded, overlaps>>
      /\ deliveryRun[r] = Outbox!Idle
  BY DEF Outbox!Resend
<1>2. "send" \in Outbox!Sending /\ "send" \in Open /\ deliveryRun[r].pc \notin Open
  BY <1>1 DEF Outbox!Sending, Open, Outbox!Idle
<1>3. PICK run \in Runs : run.pc = "send" /\ deliveryRun' = [deliveryRun EXCEPT ![r] = run]
  BY <1>1, <1>2, Turned DEF OutboxInv
<1>4. /\ Cardinality(OpenRuns') = Cardinality(OpenRuns) + 1 /\ Sends'
      /\ Cardinality(OpenRuns) \in Nat /\ deliveryRun' \in [Pair -> Runs]
  BY <1>2, <1>3, OneTurns DEF OutboxInv
<1>5. OutboxTypes' /\ Reasons' = Reasons + 1 /\ Reasons \in Nat /\ copies \in Nat
  BY <1>1, <1>4 DEF OutboxInv, OutboxTypes, Reasons
<1>6. copies' + Cardinality(OpenRuns') <= Reasons' + 1
  BY <1>1, <1>4, <1>5 DEF OutboxInv, CopiesCounted
<1>7. QED
  BY <1>1, <1>4, <1>5, <1>6, Counted

\* A run that neither sends nor sent: taken up by the queue, settled, returned from, or
\* left without a look.
LEMMA Aside ==
    ASSUME OutboxInv, NEW r \in Pair, NEW run \in Runs, status # "none",
           deliveryRun' = [deliveryRun EXCEPT ![r] = run],
           deliveryRun[r].pc \notin Outbox!Sending, run.pc \notin Outbox!Sending,
           UNCHANGED <<status, copies, resends, unrecorded, overlaps>>
    PROVE  OutboxInv'
<1>1. Open \subseteq Outbox!Sending
  BY DEF Open, Outbox!Sending
<1>2. Cardinality(OpenRuns') = Cardinality(OpenRuns) /\ deliveryRun' \in [Pair -> Runs]
  BY <1>1, OneTurns DEF OutboxInv
<1>3. ~Sends' => ~Sends
  BY OneTurns DEF OutboxInv
<1>4. OutboxTypes' /\ Reasons' = Reasons
  BY <1>2 DEF OutboxInv, OutboxTypes, Reasons
<1>5. QED
  BY <1>2, <1>3, <1>4, Counted DEF OutboxInv, CopiesCounted

LEMMA StartJobHolds == ASSUME OutboxInv, NEW r \in Pair, Outbox!StartJob(r) PROVE OutboxInv'
<1>1. /\ deliveryRun[r] = Outbox!Idle /\ Outbox!Become(r, "look", TRUE)
      /\ UNCHANGED <<status, copies, resends, unrecorded, overlaps>>
      /\ jobStatus[1] = "pending"
  BY DEF Outbox!StartJob, Outbox!JobQueue!Give
<1>2. PICK run \in Runs : run.pc = "look" /\ deliveryRun' = [deliveryRun EXCEPT ![r] = run]
  BY <1>1, Turned DEF OutboxInv
<1>3. status # "none"
  BY <1>1 DEF OutboxInv, NothingBegun
<1>4. deliveryRun[r].pc \notin Outbox!Sending /\ run.pc \notin Outbox!Sending
  BY <1>1, <1>2 DEF Outbox!Idle, Outbox!Sending
<1>5. QED
  BY <1>1, <1>2, <1>3, <1>4, Aside

LEMMA SettlesHolds ==
    ASSUME OutboxInv, NEW r \in Pair, Outbox!SettleJob(r) \/ Outbox!Return(r)
    PROVE  OutboxInv'
<1>1. /\ deliveryRun[r].pc \in {"ok", "error"} /\ Outbox!Become(r, "idle", FALSE)
      /\ UNCHANGED <<status, copies, resends, unrecorded, overlaps>>
  BY DEF Outbox!SettleJob, Outbox!Return
<1>2. PICK run \in Runs : run.pc = "idle" /\ deliveryRun' = [deliveryRun EXCEPT ![r] = run]
  BY <1>1, Turned DEF OutboxInv
<1>3. status # "none"
  BY <1>1, Stored
<1>4. deliveryRun[r].pc \notin Outbox!Sending /\ run.pc \notin Outbox!Sending
  BY <1>1, <1>2 DEF Outbox!Sending
<1>5. QED
  BY <1>1, <1>2, <1>3, <1>4, Aside

LEMMA TakeoverHolds == ASSUME OutboxInv, NEW r \in Pair, Outbox!Takeover(r) PROVE OutboxInv'
<1>1. /\ jobStatus[1] = "running"
      /\ UNCHANGED <<status, deliveryRun, copies, resends, unrecorded, overlaps>>
  BY DEF Outbox!Takeover, Outbox!JobQueue!Requeue
<1>2. status # "none"
  BY <1>1 DEF OutboxInv, NothingBegun
<1>3. OutboxTypes' /\ copies' = copies /\ OpenRuns' = OpenRuns /\ Reasons' = Reasons
      /\ Sends' = Sends
  BY <1>1 DEF OutboxInv, OutboxTypes, OpenRuns, Reasons, Sends
<1>4. QED
  BY <1>1, <1>2, <1>3, Counted DEF OutboxInv, CopiesCounted

\* An open run that ends leaves the count one lower.
LEMMA Closed ==
    ASSUME OutboxInv, NEW r \in Pair, NEW run \in Runs, status' # "none",
           deliveryRun' = [deliveryRun EXCEPT ![r] = run],
           deliveryRun[r].pc \in Open, run.pc \notin Outbox!Sending,
           UNCHANGED <<copies, resends, unrecorded, overlaps>>
    PROVE  OutboxInv'
<1>1. run.pc \notin Open
  BY DEF Open, Outbox!Sending
<1>2. /\ Cardinality(OpenRuns') = Cardinality(OpenRuns) - 1 /\ deliveryRun' \in [Pair -> Runs]
      /\ Cardinality(OpenRuns') \in Nat /\ Cardinality(OpenRuns) \in Nat
  BY <1>1, OneTurns DEF OutboxInv
<1>3. OutboxTypes' /\ Reasons' = Reasons /\ Reasons \in Nat /\ copies \in Nat
  BY <1>2 DEF OutboxInv, OutboxTypes, Reasons
<1>4. copies + Cardinality(OpenRuns) <= Reasons + 1
  BY DEF OutboxInv, CopiesCounted
<1>5. copies' + Cardinality(OpenRuns') <= Reasons' + 1 /\ copies' <= Reasons'
  BY <1>2, <1>3, <1>4
<1>6. QED
  BY <1>3, <1>5, Counted

\* An acceptance that is not recorded has its reason.
LEMMA Untold ==
    ASSUME OutboxInv, NEW r \in Pair, NEW run \in Runs, status' = status,
           deliveryRun' = [deliveryRun EXCEPT ![r] = run],
           deliveryRun[r].pc = "accepted", run.pc \notin Outbox!Sending,
           unrecorded' = unrecorded + 1, UNCHANGED <<copies, resends, overlaps>>
    PROVE  OutboxInv'
<1>1. run.pc \notin Open /\ deliveryRun[r].pc \notin Open /\ status # "none"
  BY Stored DEF Open, Outbox!Sending
<1>2. /\ Cardinality(OpenRuns') = Cardinality(OpenRuns) /\ deliveryRun' \in [Pair -> Runs]
      /\ Cardinality(OpenRuns) \in Nat
  BY <1>1, OneTurns DEF OutboxInv
<1>3. OutboxTypes' /\ Reasons' = Reasons + 1 /\ Reasons \in Nat /\ copies \in Nat
  BY <1>2 DEF OutboxInv, OutboxTypes, Reasons
<1>4. copies + Cardinality(OpenRuns) <= Reasons + 1
  BY DEF OutboxInv, CopiesCounted
<1>5. copies' + Cardinality(OpenRuns') <= Reasons' + 1 /\ copies' <= Reasons'
  BY <1>2, <1>3, <1>4
<1>6. QED
  BY <1>1, <1>3, <1>5, Counted

LEMMA CrashHolds == ASSUME OutboxInv, NEW r \in Pair, Outbox!Crash(r) PROVE OutboxInv'
<1>1. /\ deliveryRun[r] # Outbox!Idle /\ Outbox!Become(r, "idle", FALSE)
      /\ UNCHANGED <<status, copies, resends, overlaps>>
      /\ unrecorded' = unrecorded + (IF deliveryRun[r].pc = "accepted" THEN 1 ELSE 0)
  BY DEF Outbox!Crash
<1>2. PICK run \in Runs : run.pc = "idle" /\ deliveryRun' = [deliveryRun EXCEPT ![r] = run]
  BY <1>1, Turned DEF OutboxInv
<1>3. status # "none"
  BY <1>1 DEF OutboxInv, NothingBegun
<1>4. run.pc \notin Outbox!Sending
  BY <1>2 DEF Outbox!Sending
<1>5. CASE deliveryRun[r].pc = "accepted"
  BY <1>1, <1>2, <1>4, <1>5, Untold
<1>6. CASE deliveryRun[r].pc # "accepted"
  <2>1. unrecorded' = unrecorded
    BY <1>1, <1>6 DEF OutboxInv, OutboxTypes
  <2>2. CASE deliveryRun[r].pc \in Open
    BY <1>1, <1>2, <1>3, <1>4, <2>1, <2>2, Closed
  <2>3. CASE deliveryRun[r].pc \notin Open
    <3>1. deliveryRun[r].pc \notin Outbox!Sending
      BY <1>6, <2>3 DEF Outbox!Sending, Open
    <3>2. QED
      BY <1>1, <1>2, <1>3, <1>4, <2>1, <3>1, Aside
  <2>4. QED
    BY <2>2, <2>3
<1>7. QED
  BY <1>5, <1>6

\* Without another run between its look and its record, and with the row not sent,
\* everything accepted so far has its reason: this run may have one more accepted.
LEMMA LookHolds == ASSUME OutboxInv, NEW r \in Pair, Outbox!Look(r) PROVE OutboxInv'
<1>1. /\ deliveryRun[r].pc = "look" /\ UNCHANGED <<status, copies, resends, unrecorded>>
      /\ Outbox!Turn(r, IF status = "sent" THEN "ok" ELSE "send")
      /\ overlaps' = overlaps + (IF status # "sent" /\ Outbox!Others(r) THEN 1 ELSE 0)
  BY DEF Outbox!Look
<1>2. status # "none" /\ deliveryRun[r].pc \notin Outbox!Sending
  BY <1>1, Stored DEF Outbox!Sending
<1>3. CASE status = "sent"
  <2>1. PICK run \in Runs : run.pc = "ok" /\ deliveryRun' = [deliveryRun EXCEPT ![r] = run]
    BY <1>1, <1>3, Turned DEF OutboxInv
  <2>2. overlaps' = overlaps /\ run.pc \notin Outbox!Sending
    BY <1>1, <1>3, <2>1 DEF OutboxInv, OutboxTypes, Outbox!Sending
  <2>3. QED
    BY <1>1, <1>2, <2>1, <2>2, Aside
<1>4. CASE status # "sent"
  <2>1. "send" \in Outbox!Sending /\ "send" \in Open /\ deliveryRun[r].pc \notin Open
    BY <1>1 DEF Outbox!Sending, Open
  <2>2. PICK run \in Runs : run.pc = "send" /\ deliveryRun' = [deliveryRun EXCEPT ![r] = run]
    BY <1>1, <1>4, <2>1, Turned DEF OutboxInv
  <2>3. /\ Cardinality(OpenRuns') = Cardinality(OpenRuns) + 1 /\ Sends'
        /\ Cardinality(OpenRuns) \in Nat /\ deliveryRun' \in [Pair -> Runs]
    BY <2>1, <2>2, OneTurns DEF OutboxInv
  <2>4. OutboxTypes' /\ Reasons \in Nat /\ copies \in Nat /\ copies' = copies
    BY <1>1, <2>3 DEF OutboxInv, OutboxTypes, Reasons
  <2>5. CASE Outbox!Others(r)
    <3>1. Reasons' = Reasons + 1
      BY <1>1, <1>4, <2>5 DEF Reasons, OutboxInv, OutboxTypes
    <3>2. copies' + Cardinality(OpenRuns') <= Reasons' + 1
      BY <2>3, <2>4, <3>1 DEF OutboxInv, CopiesCounted
    <3>3. QED
      BY <1>1, <1>2, <2>3, <2>4, <3>2, Counted
  <2>6. CASE ~Outbox!Others(r)
    <3>1. Reasons' = Reasons
      BY <1>1, <2>6 DEF Reasons, OutboxInv, OutboxTypes
    <3>2. ~Sends /\ OpenRuns = {}
      BY <1>2, <2>6 DEF Sends, Outbox!Others, OpenRuns, Open, Outbox!Sending
    <3>3. copies <= Reasons /\ Cardinality(OpenRuns) = 0
      BY <1>4, <3>2, FS_EmptySet DEF OutboxInv, CopiesCounted
    <3>4. copies' + Cardinality(OpenRuns') <= Reasons' + 1
      BY <2>3, <2>4, <3>1, <3>3
    <3>5. QED
      BY <1>1, <1>2, <2>3, <2>4, <3>4, Counted
  <2>7. QED
    BY <2>5, <2>6
<1>5. QED
  BY <1>3, <1>4

LEMMA LookFailsHolds == ASSUME OutboxInv, NEW r \in Pair, Outbox!LookFails(r) PROVE OutboxInv'
<1>1. /\ deliveryRun[r].pc \in {"look", "send"} /\ Outbox!Turn(r, "error")
      /\ UNCHANGED <<status, copies, resends, unrecorded, overlaps>>
  BY DEF Outbox!LookFails
<1>2. PICK run \in Runs : run.pc = "error" /\ deliveryRun' = [deliveryRun EXCEPT ![r] = run]
  BY <1>1, Turned DEF OutboxInv
<1>3. status # "none"
  BY <1>1, Stored
<1>4. run.pc \notin Outbox!Sending
  BY <1>2 DEF Outbox!Sending
<1>5. CASE deliveryRun[r].pc = "send"
  BY <1>1, <1>2, <1>3, <1>4, <1>5, Closed DEF Open
<1>6. CASE deliveryRun[r].pc = "look"
  BY <1>1, <1>2, <1>3, <1>4, <1>6, Aside DEF Outbox!Sending
<1>7. QED
  BY <1>1, <1>5, <1>6

LEMMA PostHolds == ASSUME OutboxInv, NEW r \in Pair, Outbox!Post(r) PROVE OutboxInv'
<1>1. deliveryRun[r].pc = "send" /\ UNCHANGED <<status, resends, overlaps>>
  BY DEF Outbox!Post
<1>2. /\ status # "none" /\ "refused" \in Outbox!Sending /\ "accepted" \in Outbox!Sending
      /\ deliveryRun[r].pc \in Open /\ "refused" \in Open /\ "accepted" \notin Open
  BY <1>1, Stored DEF Outbox!Sending, Open
<1>3. Cardinality(OpenRuns) \in Nat /\ copies + Cardinality(OpenRuns) <= Reasons + 1
  BY PartsAssumption, FS_Subset, FS_CardinalityType DEF OpenRuns, OutboxInv, CopiesCounted
<1>4. copies \in Nat /\ unrecorded \in Nat /\ Reasons \in Nat
  BY DEF OutboxInv, OutboxTypes, Reasons
<1>5. CASE Outbox!Turn(r, "accepted") /\ copies' = copies + 1 /\ UNCHANGED unrecorded
  <2>1. PICK run \in Runs : run.pc = "accepted" /\ deliveryRun' = [deliveryRun EXCEPT ![r] = run]
    BY <1>2, <1>5, Turned DEF OutboxInv
  <2>2. /\ Cardinality(OpenRuns') = Cardinality(OpenRuns) - 1 /\ Sends'
        /\ deliveryRun' \in [Pair -> Runs]
    BY <1>2, <2>1, OneTurns DEF OutboxInv
  <2>3. OutboxTypes' /\ Reasons' = Reasons
    BY <1>1, <1>4, <1>5, <2>2 DEF OutboxInv, OutboxTypes, Reasons
  <2>4. QED
    BY <1>1, <1>2, <1>3, <1>4, <1>5, <2>2, <2>3, Counted
<1>6. CASE /\ Outbox!Turn(r, "refused")
           /\ \/ UNCHANGED <<copies, unrecorded>>
              \/ copies' = copies + 1 /\ unrecorded' = unrecorded + 1
  <2>1. PICK run \in Runs : run.pc = "refused" /\ deliveryRun' = [deliveryRun EXCEPT ![r] = run]
    BY <1>2, <1>6, Turned DEF OutboxInv
  <2>2. /\ Cardinality(OpenRuns') = Cardinality(OpenRuns) /\ Sends'
        /\ deliveryRun' \in [Pair -> Runs]
    BY <1>2, <2>1, OneTurns DEF OutboxInv
  <2>3. OutboxTypes' /\ copies' - copies = Reasons' - Reasons /\ copies' \in Nat /\ Reasons' \in Nat
    BY <1>1, <1>4, <1>6, <2>2 DEF OutboxInv, OutboxTypes, Reasons
  <2>4. QED
    BY <1>1, <1>2, <1>3, <1>4, <2>2, <2>3, Counted
<1>7. QED
  BY <1>5, <1>6 DEF Outbox!Post

LEMMA RecordSentHolds == ASSUME OutboxInv, NEW r \in Pair, Outbox!RecordSent(r) PROVE OutboxInv'
<1>1. /\ deliveryRun[r].pc = "accepted" /\ status' = "sent" /\ Outbox!Turn(r, "ok")
      /\ UNCHANGED <<copies, resends, unrecorded, overlaps>>
  BY DEF Outbox!RecordSent
<1>2. PICK run \in Runs : run.pc = "ok" /\ deliveryRun' = [deliveryRun EXCEPT ![r] = run]
  BY <1>1, Turned DEF OutboxInv
<1>3. Cardinality(OpenRuns') = Cardinality(OpenRuns) /\ deliveryRun' \in [Pair -> Runs]
  BY <1>1, <1>2, OneTurns DEF OutboxInv, Open
<1>4. OutboxTypes' /\ Reasons' = Reasons
  BY <1>1, <1>3 DEF OutboxInv, OutboxTypes, Reasons
<1>5. QED
  BY <1>1, <1>3, <1>4, Counted DEF OutboxInv, CopiesCounted

LEMMA RecordFailedHolds == ASSUME OutboxInv, NEW r \in Pair, Outbox!RecordFailed(r) PROVE OutboxInv'
<1>1. /\ deliveryRun[r].pc = "refused" /\ status' \in {status, "failed"} /\ Outbox!Turn(r, "error")
      /\ UNCHANGED <<copies, resends, unrecorded, overlaps>>
  BY DEF Outbox!RecordFailed
<1>2. PICK run \in Runs : run.pc = "error" /\ deliveryRun' = [deliveryRun EXCEPT ![r] = run]
  BY <1>1, Turned DEF OutboxInv
<1>3. status' # "none" /\ deliveryRun[r].pc \in Open /\ run.pc \notin Outbox!Sending
  BY <1>1, <1>2, Stored DEF Open, Outbox!Sending
<1>4. QED
  BY <1>1, <1>2, <1>3, Closed

LEMMA RecordFailsHolds == ASSUME OutboxInv, NEW r \in Pair, Outbox!RecordFails(r) PROVE OutboxInv'
<1>1. /\ deliveryRun[r].pc = "accepted" /\ status' = status /\ Outbox!Turn(r, "error")
      /\ unrecorded' = unrecorded + 1 /\ UNCHANGED <<copies, resends, overlaps>>
  BY DEF Outbox!RecordFails
<1>2. PICK run \in Runs : run.pc = "error" /\ deliveryRun' = [deliveryRun EXCEPT ![r] = run]
  BY <1>1, Turned DEF OutboxInv
<1>3. run.pc \notin Outbox!Sending
  BY <1>2 DEF Outbox!Sending
<1>4. QED
  BY <1>1, <1>2, <1>3, Untold

LEMMA OutboxAlone == part = "outbox" /\ [Next]_vars => [Outbox!Next]_outboxVars
<1>1. ASSUME part = "outbox", Next PROVE [Outbox!Next]_outboxVars
  BY <1>1 DEF Next, RenewalStep, FactorStep, ConnectedStep, PoolStep, CacheStep, SavedStep,
     OutboxStep, StripeStep, SchemaStep, PolicyStep, CalendarStep, GeneratedStep,
     MergeStep, DevStep, ModelStep, UploadStep, LifeStep, DecimalStep
<1>2. ASSUME UNCHANGED vars PROVE UNCHANGED outboxVars
  BY <1>2 DEF vars, state, outboxVars
<1>3. QED
  BY <1>1, <1>2

OutboxRuns == part = "outbox" => OutboxInv

LEMMA OutboxHolds == OutboxRuns /\ [Next]_vars => OutboxRuns'
<1>1. ASSUME OutboxInv, Outbox!Next PROVE OutboxInv'
  BY <1>1, SendQueuedHolds, SendNowHolds, ResendHolds, StartJobHolds, SettlesHolds, TakeoverHolds,
     CrashHolds, LookHolds, LookFailsHolds, PostHolds, RecordSentHolds, RecordFailedHolds,
     RecordFailsHolds DEF Outbox!Next
<1>2. ASSUME OutboxInv, UNCHANGED outboxVars PROVE OutboxInv'
  BY <1>2 DEF outboxVars, OutboxInv, OutboxTypes, CopiesCounted, NothingBegun, OpenRuns,
     Sends, Reasons
<1>3. QED
  BY <1>1, <1>2, OutboxAlone, OnePart DEF OutboxRuns

\* Each copy beyond the first is one asked for, one not recorded or one of an overlap, for
\* any number of nodes, claims and calls of Deliver.
THEOREM CopiesAccounted == Spec => []CopiesExplained
<1>1. Init => OutboxRuns
  BY OutboxBegins DEF Init, OutboxRuns
<1>2. OutboxRuns => CopiesExplained
  <2> SUFFICES ASSUME OutboxInv PROVE Outbox!CopiesExplained
    BY DEF CopiesExplained, OutboxRuns
  <2>1. IsFiniteSet(OpenRuns) /\ Cardinality(OpenRuns) \in Nat
    BY PartsAssumption, FS_Subset, FS_CardinalityType DEF OpenRuns
  <2>2. Reasons \in Nat /\ copies \in Nat /\ copies + Cardinality(OpenRuns) <= Reasons + 1
    BY DEF OutboxInv, OutboxTypes, CopiesCounted, Reasons
  <2>3. ASSUME Reasons = 0, copies > 0, status # "sent"
        PROVE  \E r \in Pair : deliveryRun[r].pc = "accepted"
    <3>1. Cardinality(OpenRuns) = 0
      BY <2>1, <2>2, <2>3
    <3>2. OpenRuns = {}
      BY <2>1, <3>1, FS_EmptySet
    <3>3. Sends
      BY <2>2, <2>3 DEF OutboxInv, CopiesCounted
    <3>4. QED
      BY <3>2, <3>3 DEF Sends, OpenRuns, Open, Outbox!Sending
  <2>4. copies <= 1 + Reasons /\ (Reasons = 0 /\ copies > 0 =>
          status = "sent" \/ \E r \in Pair : deliveryRun[r].pc = "accepted")
    BY <2>1, <2>2, <2>3
  <2>5. copies <= 1 + resends + unrecorded + overlaps
    BY <2>4 DEF OutboxInv, OutboxTypes, Reasons
  <2>6. QED
    BY <2>4, <2>5 DEF Outbox!CopiesExplained, Reasons
<1>3. QED
  BY <1>1, <1>2, OutboxHolds, PTL DEF Spec

-----------------------------------------------------------------------------
(* The subscription.                                                       *)

tagged == x1
second == x2
states == x3
checkout == x4
known == x5
kept == x6
handling == x7
handled == x8
misplaced == x9
billingVars == <<x1, x2, x3, x4, x5, x6, x7, x8, x9>>
USE DEF tagged, second, states, checkout, known, kept, handling, handled, misplaced

Requested == [pc : {"idle", "link", "fetch", "owner", "write"}, event : Nat, state : Nat]

\* A state told with a time: the one it began at, or that of the checkout, in which case
\* every later state began no earlier than the checkout was finished.
Backed(s, at, k) ==
    /\ s \in 1..k
    /\ \/ at = states[s]
       \/ /\ checkout # Stripe!Never /\ at = checkout
          /\ \A m \in 1..k : m > s => states[m] >= checkout

Request(r, k) ==
    \/ r.pc = "idle"
    \/ r.pc \in {"link", "fetch"} /\ r.event = 0 /\ checkout # Stripe!Never
    \/ r.pc = "owner" /\ r.event \in 1..k /\ r.state = r.event
    \/ r.pc = "write" /\ r.event \in Stripe!Events /\ Backed(r.state, Stripe!Created(r.event), k)

\* Of k states so far, in the order they began.
History(k) ==
    /\ states \in [1..k -> Nat] /\ second \in Nat
    /\ \A m \in 1..k : states[m] <= second /\ \A n \in 1..k : m <= n => states[m] <= states[n]
    /\ checkout \in Nat \cup {Stripe!Never} /\ checkout <= second

Requests(k) == handling \in [Pair -> Requested] /\ \A h \in Pair : Request(handling[h], k)

\* What is kept is as new as every event handled.
Row(k) ==
    /\ kept.at = Stripe!Never \/ Backed(kept.state, kept.at, k)
    /\ handled \subseteq Stripe!Events
    /\ \A e \in handled : misplaced \/ Stripe!Created(e) <= kept.at

StripeAt(k) == History(k) /\ Requests(k) /\ Row(k)
StripeInv == \E k \in Nat \ {0} : StripeAt(k)

LEMMA LatestOf == ASSUME NEW k \in Nat \ {0}, History(k) PROVE Stripe!Latest = k
<1>1. DOMAIN states = 1..k
  BY DEF History
<1>2. k \in 1..k /\ k + 1 \notin 1..k /\ \A n \in 1..k : n + 1 \notin 1..k => n = k
  OBVIOUS
<1>3. QED
  BY <1>1, <1>2 DEF Stripe!Latest

LEMMA EventsOf ==
    ASSUME NEW k \in Nat \ {0}, History(k)
    PROVE  /\ \A e : e \in Stripe!Events <=> e \in 1..k \/ (e = 0 /\ checkout # Stripe!Never)
           /\ \A e \in 1..k : Stripe!Created(e) = states[e]
           /\ Stripe!Created(0) = checkout
           /\ \A e \in Stripe!Events : Stripe!Created(e) \in Nat
<1>1. DOMAIN states = 1..k /\ 0 \notin 1..k
  BY DEF History
<1>2. \A e : e \in Stripe!Events <=> e \in 1..k \/ (e = 0 /\ checkout # Stripe!Never)
  BY <1>1 DEF Stripe!Events, Stripe!CheckoutEvent
<1>3. \A e \in 1..k : Stripe!Created(e) = states[e]
  BY <1>1 DEF Stripe!Created, Stripe!CheckoutEvent
<1>4. Stripe!Created(0) = checkout
  BY DEF Stripe!Created, Stripe!CheckoutEvent
<1>5. QED
  BY <1>2, <1>3, <1>4 DEF History

LEMMA StripeBegins == Stripe!Init => StripeInv
<1> SUFFICES ASSUME Stripe!Init PROVE StripeAt(1)
  BY DEF StripeInv
<1>1. History(1)
  BY DEF Stripe!Init, History, Stripe!Never
<1>2. Requests(1)
  BY DEF Stripe!Init, Requests, Requested, Request, Stripe!Idle, Stripe!CheckoutEvent
<1>3. Row(1)
  BY DEF Stripe!Init, Row
<1>4. QED
  BY <1>1, <1>2, <1>3 DEF StripeAt

\* Nothing but the requests changes.
LEMMA RowStays ==
    ASSUME NEW k \in Nat \ {0}, StripeAt(k),
           UNCHANGED <<states, second, checkout, kept, handled, misplaced>>
    PROVE  /\ History(k)' /\ Row(k)' /\ Stripe!Events' = Stripe!Events
           /\ \A e : Stripe!Created(e)' = Stripe!Created(e)
           /\ \A s, at : Backed(s, at, k)' <=> Backed(s, at, k)
  BY DEF StripeAt, History, Row, Backed, Stripe!Events, Stripe!Created

LEMMA StripeTickHolds == ASSUME StripeInv, Stripe!Tick PROVE StripeInv'
<1>1. PICK k \in Nat \ {0} : StripeAt(k)
  BY DEF StripeInv
<1>2. second' = second + 1 /\ UNCHANGED <<states, checkout, kept, handling, handled, misplaced>>
  BY DEF Stripe!Tick
<1>3. History(k)'
  BY <1>1, <1>2 DEF StripeAt, History, Stripe!Never
<1>4. Requests(k)' /\ Row(k)'
  BY <1>1, <1>2 DEF StripeAt, Requests, Request, Row, Backed, Stripe!Events, Stripe!Created
<1>5. QED
  BY <1>3, <1>4 DEF StripeInv, StripeAt

\* A new state begins now, which is no earlier than anything told before.
LEMMA ChangeHolds == ASSUME StripeInv, Stripe!Change PROVE StripeInv'
<1>1. PICK k \in Nat \ {0} : StripeAt(k)
  BY DEF StripeInv
<1>2. Stripe!Latest = k /\ History(k)
  BY <1>1, LatestOf DEF StripeAt
<1>3. /\ states' = [n \in 1..k + 1 |-> IF n = k + 1 THEN second ELSE states[n]]
      /\ UNCHANGED <<second, checkout, kept, handling, handled, misplaced>>
  BY <1>2 DEF Stripe!Change
<1>4. k + 1 \in Nat \ {0} /\ 1..k \subseteq 1..k + 1
  OBVIOUS
<1>5. \A n \in 1..k + 1 : n \in 1..k \/ n = k + 1
  OBVIOUS
<1>6. states'[k + 1] = second /\ \A n \in 1..k : states'[n] = states[n]
  BY <1>3
<1>7. History(k + 1)'
  <2>1. states' \in [1..k + 1 -> Nat] /\ \A m \in 1..k + 1 : states'[m] <= second
    BY <1>2, <1>3 DEF History
  <2>2. ASSUME NEW m \in 1..k + 1, NEW n \in 1..k + 1, m <= n PROVE states'[m] <= states'[n]
    <3>1. CASE n = k + 1
      BY <2>1, <1>6, <3>1
    <3>2. CASE n \in 1..k
      <4>1. m \in 1..k
        BY <2>2, <3>2
      <4>2. QED
        BY <1>2, <1>6, <2>2, <3>2, <4>1 DEF History
    <3>3. QED
      BY <1>5, <3>1, <3>2
  <2>3. QED
    BY <1>2, <1>3, <2>1, <2>2 DEF History
<1>8. /\ Stripe!Events \subseteq Stripe!Events'
      /\ \A e \in Stripe!Events : Stripe!Created(e)' = Stripe!Created(e)
  BY <1>2, <1>3, <1>6 DEF History, Stripe!Events, Stripe!Created, Stripe!CheckoutEvent
<1>9. ASSUME NEW s, NEW at, Backed(s, at, k) PROVE Backed(s, at, k + 1)'
  <2>1. s \in 1..k + 1 /\ s \in 1..k
    BY <1>4, <1>9 DEF Backed
  <2>2. CASE at = states[s]
    BY <1>6, <2>1, <2>2 DEF Backed
  <2>3. CASE /\ checkout # Stripe!Never /\ at = checkout
             /\ \A m \in 1..k : m > s => states[m] >= checkout
    <3>1. \A m \in 1..k + 1 : m > s => states'[m] >= checkout
      BY <1>2, <1>5, <1>6, <2>3 DEF History, Stripe!Never
    <3>2. QED
      BY <1>3, <2>1, <2>3, <3>1 DEF Backed
  <2>4. QED
    BY <1>9, <2>2, <2>3 DEF Backed
<1>10. Requests(k + 1)'
  <2> SUFFICES ASSUME NEW h \in Pair PROVE Request(handling[h], k + 1)'
    BY <1>1, <1>3 DEF StripeAt, Requests
  <2>1. Request(handling[h], k)
    BY <1>1 DEF StripeAt, Requests
  <2>2. QED
    BY <2>1, <1>3, <1>4, <1>8, <1>9 DEF Request
<1>11. Row(k + 1)'
  <2>1. kept.at = Stripe!Never \/ Backed(kept.state, kept.at, k)
    BY <1>1 DEF StripeAt, Row
  <2>2. kept'.at = Stripe!Never \/ Backed(kept.state, kept.at, k + 1)'
    BY <1>3, <1>9, <2>1
  <2>3. QED
    BY <1>1, <1>3, <1>8, <2>2 DEF StripeAt, Row
<1>12. QED
  BY <1>4, <1>7, <1>10, <1>11 DEF StripeInv, StripeAt

LEMMA FinishCheckoutHolds == ASSUME StripeInv, Stripe!FinishCheckout PROVE StripeInv'
<1>1. PICK k \in Nat \ {0} : StripeAt(k)
  BY DEF StripeInv
<1>2. /\ checkout = Stripe!Never /\ checkout' = second
      /\ UNCHANGED <<second, states, kept, handling, handled, misplaced>>
  BY DEF Stripe!FinishCheckout
<1>3. History(k)' /\ History(k)
  BY <1>1, <1>2 DEF StripeAt, History, Stripe!Never
<1>4. Stripe!Events = 1..k /\ Stripe!Events \subseteq Stripe!Events'
  BY <1>2, <1>3 DEF History, Stripe!Events
<1>5. \A e \in Stripe!Events : Stripe!Created(e)' = Stripe!Created(e)
  BY <1>2, <1>4 DEF Stripe!Created, Stripe!CheckoutEvent
<1>6. \A s, at : Backed(s, at, k) => Backed(s, at, k)'
  BY <1>2 DEF Backed
<1>7. Requests(k)'
  <2> SUFFICES ASSUME NEW h \in Pair PROVE Request(handling[h], k)'
    BY <1>1, <1>2 DEF StripeAt, Requests
  <2>1. Request(handling[h], k)
    BY <1>1 DEF StripeAt, Requests
  <2>2. QED
    BY <2>1, <1>2, <1>4, <1>5, <1>6 DEF Request
<1>8. Row(k)'
  BY <1>1, <1>2, <1>4, <1>5, <1>6 DEF StripeAt, Row
<1>9. QED
  BY <1>3, <1>7, <1>8 DEF StripeInv, StripeAt

\* One request goes on, or is answered, and nothing else changes.
LEMMA OneGoesOn ==
    ASSUME NEW k \in Nat \ {0}, StripeAt(k), NEW h \in Pair, NEW r \in Requested, Request(r, k),
           handling' = [handling EXCEPT ![h] = r], UNCHANGED <<states, second, checkout>>
    PROVE  Requests(k)'
<1>1. /\ handling' \in [Pair -> Requested] /\ handling'[h] = r
      /\ \A o \in Pair \ {h} : handling'[o] = handling[o]
  BY DEF StripeAt, Requests
<1>2. ASSUME NEW o \in Pair PROVE Request(handling[o], k)'
  <2>1. Request(handling'[o], k)
    BY <1>1 DEF StripeAt, Requests
  <2>2. QED
    BY <2>1 DEF Request, Backed, Stripe!Events, Stripe!Created
<1>3. QED
  BY <1>1, <1>2 DEF Requests

LEMMA IdleRequest ==
    /\ Stripe!Idle \in Requested
    /\ \A k : Request(Stripe!Idle, k)
  BY DEF Stripe!Idle, Requested, Request, Stripe!CheckoutEvent

LEMMA DeliverHolds == ASSUME StripeInv, NEW h \in Pair, Stripe!Deliver(h) PROVE StripeInv'
<1>1. PICK k \in Nat \ {0} : StripeAt(k)
  BY DEF StripeInv
<1>2. UNCHANGED <<second, states, checkout, kept, handled, misplaced>>
  BY DEF Stripe!Deliver
<1>3. PICK e \in Stripe!Events : handling' = [handling EXCEPT ![h] =
            IF e = Stripe!CheckoutEvent THEN [pc |-> "link", event |-> e, state |-> 0]
            ELSE [pc |-> "owner", event |-> e, state |-> e]]
  BY DEF Stripe!Deliver
<1>4. e \in 1..k \/ (e = 0 /\ checkout # Stripe!Never)
  BY <1>1, EventsOf DEF StripeAt
<1>5. CASE e = 0
  <2> DEFINE r == [pc |-> "link", event |-> 0, state |-> 0]
  <2>1. r \in Requested /\ Request(r, k) /\ handling' = [handling EXCEPT ![h] = r]
    BY <1>3, <1>4, <1>5 DEF Requested, Request, Stripe!CheckoutEvent
  <2>2. QED
    BY <1>1, <1>2, <2>1, OneGoesOn, RowStays DEF StripeInv, StripeAt
<1>6. CASE e # 0
  <2> DEFINE r == [pc |-> "owner", event |-> e, state |-> e]
  <2>1. r \in Requested /\ Request(r, k) /\ handling' = [handling EXCEPT ![h] = r]
    BY <1>3, <1>4, <1>6 DEF Requested, Request, Stripe!CheckoutEvent
  <2>2. QED
    BY <1>1, <1>2, <2>1, OneGoesOn, RowStays DEF StripeInv, StripeAt
<1>7. QED
  BY <1>5, <1>6

LEMMA LinkHolds == ASSUME StripeInv, NEW h \in Pair, Stripe!Link(h) PROVE StripeInv'
<1>1. PICK k \in Nat \ {0} : StripeAt(k)
  BY DEF StripeInv
<1> DEFINE r == [handling[h] EXCEPT !.pc = "fetch"]
<1>2. /\ UNCHANGED <<second, states, checkout, kept, handled, misplaced>>
      /\ handling[h].pc = "link" /\ handling' = [handling EXCEPT ![h] = r]
  BY DEF Stripe!Link, Stripe!Goto
<1>3. handling[h] \in Requested /\ Request(handling[h], k)
  BY <1>1 DEF StripeAt, Requests
<1>4. r \in Requested /\ Request(r, k)
  BY <1>2, <1>3 DEF Requested, Request
<1>5. QED
  BY <1>1, <1>2, <1>4, OneGoesOn, RowStays DEF StripeInv, StripeAt

\* Nothing is later than the state fetched.
LEMMA FetchHolds == ASSUME StripeInv, NEW h \in Pair, Stripe!Fetch(h) PROVE StripeInv'
<1>1. PICK k \in Nat \ {0} : StripeAt(k)
  BY DEF StripeInv
<1>2. Stripe!Latest = k
  BY <1>1, LatestOf DEF StripeAt
<1> DEFINE r == [handling[h] EXCEPT !.pc = "write", !.state = k]
<1>3. /\ UNCHANGED <<second, states, checkout, kept, handled, misplaced>>
      /\ handling[h].pc = "fetch" /\ handling' = [handling EXCEPT ![h] = r]
  BY <1>2 DEF Stripe!Fetch
<1>4. /\ handling[h] \in Requested /\ handling[h].event = 0 /\ checkout # Stripe!Never
  BY <1>1, <1>3 DEF StripeAt, Requests, Request
<1>5. r \in Requested /\ r.pc = "write" /\ r.event = 0 /\ r.state = k
  BY <1>4 DEF Requested
<1>6. r.event \in Stripe!Events /\ Stripe!Created(r.event) = checkout
  BY <1>1, <1>4, <1>5, EventsOf DEF StripeAt
<1>7. Backed(k, checkout, k)
  BY <1>4 DEF Backed
<1>8. Request(r, k)
  BY <1>5, <1>6, <1>7 DEF Request
<1>9. QED
  BY <1>1, <1>3, <1>5, <1>8, OneGoesOn, RowStays DEF StripeInv, StripeAt

LEMMA OwnerHolds == ASSUME StripeInv, NEW h \in Pair, Stripe!Owner(h) PROVE StripeInv'
<1>1. PICK k \in Nat \ {0} : StripeAt(k)
  BY DEF StripeInv
<1>2. handling[h].pc = "owner" /\ UNCHANGED <<second, states, checkout, kept>>
  BY DEF Stripe!Owner
<1>3. /\ handling[h] \in Requested /\ handling[h].event \in 1..k
      /\ handling[h].state = handling[h].event
  BY <1>1, <1>2 DEF StripeAt, Requests, Request
<1>4. /\ handling[h].event \in Stripe!Events
      /\ Stripe!Created(handling[h].event) = states[handling[h].event]
  BY <1>1, <1>3, EventsOf DEF StripeAt
<1>5. CASE Stripe!Goto(h, "write") /\ UNCHANGED <<handled, misplaced>>
  <2> DEFINE r == [handling[h] EXCEPT !.pc = "write"]
  <2>1. r \in Requested /\ r.pc = "write" /\ r.event = handling[h].event /\ r.state = r.event
    BY <1>3 DEF Requested
  <2>2. Request(r, k)
    BY <1>3, <1>4, <2>1 DEF Request, Backed
  <2>3. handling' = [handling EXCEPT ![h] = r]
    BY <1>5 DEF Stripe!Goto
  <2>4. QED
    BY <1>1, <1>2, <1>5, <2>1, <2>2, <2>3, OneGoesOn, RowStays DEF StripeInv, StripeAt
<1>6. CASE /\ Stripe!Answer(h) /\ misplaced' = TRUE
           /\ handled' = handled \cup {handling[h].event}
  <2>1. Requests(k)'
    BY <1>1, <1>2, <1>6, IdleRequest, OneGoesOn DEF Stripe!Answer
  <2>2. History(k)'
    BY <1>1, <1>2 DEF StripeAt, History
  <2>3. Row(k)'
    BY <1>1, <1>2, <1>4, <1>6 DEF StripeAt, Row, Backed, Stripe!Events
  <2>4. QED
    BY <2>1, <2>2, <2>3 DEF StripeInv, StripeAt
<1>7. QED
  BY <1>5, <1>6 DEF Stripe!Owner

\* An event no older than the row's replaces it; after an older one the row still is as
\* new as that.
LEMMA RecordHolds == ASSUME StripeInv, NEW h \in Pair, Stripe!Record(h) PROVE StripeInv'
<1>1. PICK k \in Nat \ {0} : StripeAt(k)
  BY DEF StripeInv
<1> DEFINE r == handling[h]
           t == Stripe!Created(r.event)
<1>2. /\ r.pc = "write" /\ UNCHANGED <<second, states, checkout, misplaced>>
      /\ kept' = IF kept.at <= t THEN [state |-> r.state, at |-> t] ELSE kept
      /\ handled' = handled \cup {r.event} /\ Stripe!Answer(h)
  BY DEF Stripe!Record, Stripe!Newer
<1>3. r.event \in Stripe!Events /\ Backed(r.state, t, k) /\ History(k) /\ Row(k)
  BY <1>1, <1>2 DEF StripeAt, Requests, Request
<1>4. History(k)' /\ Requests(k)'
  BY <1>1, <1>2, <1>3, IdleRequest, OneGoesOn DEF Stripe!Answer, History
<1>5. t \in Nat /\ \A e \in Stripe!Events : Stripe!Created(e) \in Nat
  BY <1>3, EventsOf
<1>6. kept.at \in Int
  BY <1>3 DEF Row, Backed, History, Stripe!Never
<1>7. kept'.at = Stripe!Never \/ Backed(kept'.state, kept'.at, k)
  BY <1>2, <1>3 DEF Row
<1>8. kept'.at \in Int /\ kept.at <= kept'.at /\ t <= kept'.at
  BY <1>2, <1>5, <1>6
<1>9. Stripe!Events' = Stripe!Events /\ \A e : Stripe!Created(e)' = Stripe!Created(e)
  BY <1>2 DEF Stripe!Events, Stripe!Created
<1>10. \A e \in handled' : misplaced \/ Stripe!Created(e) <= kept'.at
  <2> SUFFICES ASSUME NEW e \in handled', ~misplaced PROVE Stripe!Created(e) <= kept'.at
    OBVIOUS
  <2>1. CASE e = r.event
    BY <1>8, <2>1
  <2>2. CASE e \in handled
    <3>1. Stripe!Created(e) <= kept.at /\ Stripe!Created(e) \in Nat
      BY <1>3, <1>5, <2>2 DEF Row
    <3>2. QED
      BY <1>6, <1>8, <3>1
  <2>3. QED
    BY <1>2, <2>1, <2>2
<1>11. Backed(kept'.state, kept'.at, k) => Backed(kept.state, kept.at, k)'
  BY <1>2 DEF Backed
<1>12. Row(k)'
  BY <1>2, <1>3, <1>7, <1>9, <1>10, <1>11 DEF Row
<1>13. QED
  BY <1>4, <1>12 DEF StripeInv, StripeAt

LEMMA FailHolds == ASSUME StripeInv, NEW h \in Pair, Stripe!Fail(h) PROVE StripeInv'
<1>1. PICK k \in Nat \ {0} : StripeAt(k)
  BY DEF StripeInv
<1>2. UNCHANGED <<second, states, checkout, kept, handled, misplaced>> /\ Stripe!Answer(h)
  BY DEF Stripe!Fail
<1>3. QED
  BY <1>1, <1>2, IdleRequest, OneGoesOn, RowStays DEF Stripe!Answer, StripeInv, StripeAt

LEMMA StripeAlone == part = "billing" /\ [Next]_vars => [Stripe!Next]_billingVars
<1>1. ASSUME part = "billing", Next PROVE [Stripe!Next]_billingVars
  BY <1>1 DEF Next, RenewalStep, FactorStep, ConnectedStep, PoolStep, CacheStep, SavedStep,
     OutboxStep, StripeStep, SchemaStep, PolicyStep, CalendarStep, GeneratedStep,
     MergeStep, DevStep, ModelStep, UploadStep, LifeStep, DecimalStep
<1>2. ASSUME UNCHANGED vars PROVE UNCHANGED billingVars
  BY <1>2 DEF vars, state, billingVars
<1>3. QED
  BY <1>1, <1>2

StripeRuns == part = "billing" => StripeInv

LEMMA StripeHolds == StripeRuns /\ [Next]_vars => StripeRuns'
<1>1. ASSUME StripeInv, Stripe!Next PROVE StripeInv'
  BY <1>1, StripeTickHolds, ChangeHolds, FinishCheckoutHolds, DeliverHolds, LinkHolds, FetchHolds,
     OwnerHolds, RecordHolds, FailHolds DEF Stripe!Next
<1>2. ASSUME StripeInv, UNCHANGED billingVars PROVE StripeInv'
  <2>1. PICK k \in Nat \ {0} : StripeAt(k)
    BY <1>2 DEF StripeInv
  <2>2. History(k)' /\ Row(k)'
    BY <1>2, <2>1, RowStays DEF billingVars
  <2>3. Requests(k)'
    BY <1>2, <2>1 DEF billingVars, StripeAt, Requests, Request, Backed, Stripe!Events,
       Stripe!Created
  <2>4. QED
    BY <2>2, <2>3 DEF StripeInv, StripeAt
<1>3. QED
  BY <1>1, <1>2, StripeAlone, OnePart DEF StripeRuns

\* In whatever order and however often its events come, the row ends as the subscription
\* is, with any number of changes and of requests at once.
THEOREM RowCatchesUp == Spec => []RowIsCurrent
<1>1. Init => StripeRuns
  BY StripeBegins DEF Init, StripeRuns
<1>2. StripeRuns => RowIsCurrent
  <2> SUFFICES ASSUME StripeInv, Stripe!Events \subseteq handled, ~misplaced, ~Stripe!SameSecond
               PROVE  kept.state = Stripe!Latest
    BY DEF RowIsCurrent, Stripe!RowIsCurrent, StripeRuns
  <2>1. PICK k \in Nat \ {0} : StripeAt(k)
    BY DEF StripeInv
  <2>2. History(k) /\ Row(k) /\ Stripe!Latest = k /\ k \in 1..k
    BY <2>1, LatestOf DEF StripeAt
  <2>3. /\ \A e \in 1..k : e \in Stripe!Events /\ Stripe!Created(e) = states[e]
        /\ checkout # Stripe!Never => 0 \in Stripe!Events /\ Stripe!Created(0) = checkout
    BY <2>2, EventsOf
  <2>4. states[k] <= kept.at
    BY <2>2, <2>3 DEF Row
  <2>5. Backed(kept.state, kept.at, k)
    BY <2>2, <2>4 DEF Row, History, Stripe!Never
  <2>6. \A e \in Stripe!Events \ {k} : Stripe!Created(e) # states[k]
    BY <2>2 DEF Stripe!SameSecond
  <2>7. CASE kept.at = states[kept.state]
    <3>1. kept.state \in 1..k /\ states[kept.state] <= states[k]
      BY <2>2, <2>5 DEF Backed, History
    <3>2. states[kept.state] = states[k]
      BY <2>2, <2>4, <2>7, <3>1 DEF History
    <3>3. QED
      BY <2>2, <2>3, <2>6, <3>1, <3>2
  <2>8. CASE /\ checkout # Stripe!Never /\ kept.at = checkout
             /\ \A m \in 1..k : m > kept.state => states[m] >= checkout
    <3>1. checkout # states[k]
      BY <2>2, <2>3, <2>6, <2>8
    <3>2. ~(k > kept.state)
      BY <2>2, <2>4, <2>8, <3>1 DEF History, Stripe!Never
    <3>3. QED
      BY <2>2, <2>5, <3>2 DEF Backed
  <2>9. QED
    BY <2>5, <2>7, <2>8 DEF Backed
<1>3. QED
  BY <1>1, <1>2, StripeHolds, PTL DEF Spec

-----------------------------------------------------------------------------
(* The pool.                                                               *)

idle == x1
made == x2
closed == x3
call == x4
drained == x5
failed == x6
tooLate == x7
poolVars == <<x1, x2, x3, x4, x5, x6, x7>>
USE DEF idle, made, closed, call, drained, failed, tooLate

Calls == [pc : {"idle", "waiting"} \cup Pool!Busy, in : Nat \cup {NoInstance}, ended : BOOLEAN]
BusyCalls == {c \in PoolCalls : call[c].pc \in Pool!Busy}

PoolTypes ==
    /\ made \in Nat /\ idle \subseteq 1..made /\ closed \subseteq 1..made
    /\ call \in [PoolCalls -> Calls]
    /\ failed \in Nat /\ drained \in Nat

\* An instance waits, or one call has it.
OneUser ==
    /\ \A c \in BusyCalls : call[c].in \in (1..made) \ idle
    /\ \A c, d \in BusyCalls : c # d => call[c].in # call[d].in

\* Whose instance may be closed, and how that came.
Excused(r) == r.in \in closed => r.in \in tooLate \/ (r.pc = "failed" /\ r.ended)
WhyClosed ==
    /\ \A i \in idle : i \in closed => i \in tooLate
    /\ \A c \in PoolCalls : call[c].pc \in Pool!Busy \ {"replace"} => Excused(call[c])

Slots == Cardinality(idle) + Cardinality(BusyCalls) + failed + drained = Size

PoolInv == PoolTypes /\ OneUser /\ WhyClosed /\ Slots

LEMMA PoolFinite ==
    ASSUME PoolTypes
    PROVE  /\ IsFiniteSet(idle) /\ Cardinality(idle) \in Nat
           /\ IsFiniteSet(BusyCalls) /\ Cardinality(BusyCalls) \in Nat
<1>1. IsFiniteSet(1..made)
  BY FS_Interval DEF PoolTypes
<1>2. IsFiniteSet(idle)
  BY <1>1, FS_Subset DEF PoolTypes
<1>3. IsFiniteSet(BusyCalls)
  BY PartsAssumption, FS_Subset DEF BusyCalls
<1>4. QED
  BY <1>2, <1>3, FS_CardinalityType

LEMMA PoolBegins == Pool!Init => PoolInv
<1> SUFFICES ASSUME Pool!Init PROVE PoolInv
  OBVIOUS
<1>1. PoolTypes
  BY PartsAssumption DEF Pool!Init, PoolTypes, Calls, Pool!NoAnswer
<1>2. BusyCalls = {}
  BY DEF Pool!Init, BusyCalls, Pool!NoAnswer, Pool!Busy
<1>3. OneUser /\ WhyClosed
  BY <1>2 DEF Pool!Init, OneUser, WhyClosed, BusyCalls
<1>4. Slots
  <2>1. Cardinality(idle) = Size
    BY FS_Interval, PartsAssumption DEF Pool!Init
  <2>2. Cardinality(BusyCalls) = 0 /\ failed = 0 /\ drained = 0 /\ Size \in Nat
    BY <1>2, FS_EmptySet, PartsAssumption DEF Pool!Init
  <2>3. QED
    BY <2>1, <2>2 DEF Slots
<1>5. QED
  BY <1>1, <1>3, <1>4 DEF PoolInv

\* A call waits, or waits no longer, without an instance.
LEMMA CallWaits ==
    ASSUME PoolInv, NEW c \in PoolCalls, NEW next \in Calls, call' = [call EXCEPT ![c] = next],
           call[c].pc \notin Pool!Busy, next.pc \notin Pool!Busy,
           UNCHANGED <<idle, made, closed, drained, failed, tooLate>>
    PROVE  PoolInv'
<1>1. /\ call' \in [PoolCalls -> Calls] /\ call'[c] = next
      /\ \A d \in PoolCalls \ {c} : call'[d] = call[d]
  BY DEF PoolInv, PoolTypes
<1>2. BusyCalls' = BusyCalls /\ \A d \in BusyCalls : call'[d] = call[d]
  BY <1>1 DEF BusyCalls
<1>3. PoolTypes'
  BY <1>1 DEF PoolInv, PoolTypes
<1>4. OneUser' /\ Slots'
  BY <1>2 DEF PoolInv, OneUser, Slots
<1>5. WhyClosed'
  BY <1>1 DEF PoolInv, WhyClosed, Excused
<1>6. QED
  BY <1>3, <1>4, <1>5 DEF PoolInv

\* A call goes on with its instance, which it alone may close.
LEMMA CallGoesOn ==
    ASSUME PoolInv, NEW c \in PoolCalls, NEW next \in Calls, call' = [call EXCEPT ![c] = next],
           call[c].pc \in Pool!Busy, next.pc \in Pool!Busy, next.in = call[c].in,
           closed' \in {closed, closed \cup {next.in}}, tooLate \subseteq tooLate',
           next.pc # "replace" => Excused(next)',
           UNCHANGED <<idle, made, drained, failed>>
    PROVE  PoolInv'
<1>1. /\ call' \in [PoolCalls -> Calls] /\ call'[c] = next
      /\ \A d \in PoolCalls \ {c} : call'[d] = call[d]
  BY DEF PoolInv, PoolTypes
<1>2. BusyCalls' = BusyCalls /\ c \in BusyCalls /\ \A d \in BusyCalls : call'[d].in = call[d].in
  BY <1>1 DEF BusyCalls
<1>3. next.in \in (1..made) \ idle
  BY <1>2 DEF PoolInv, OneUser
<1>4. PoolTypes'
  BY <1>1, <1>3 DEF PoolInv, PoolTypes
<1>5. OneUser' /\ Slots'
  BY <1>2 DEF PoolInv, OneUser, Slots
<1>6. \A i \in idle : i \in closed' => i \in tooLate'
  BY <1>3 DEF PoolInv, WhyClosed
<1>7. ASSUME NEW d \in PoolCalls, call'[d].pc \in Pool!Busy \ {"replace"}
      PROVE  Excused(call[d])'
  <2>1. CASE d = c
    BY <1>1, <1>7, <2>1 DEF Excused
  <2>2. CASE d # c
    <3>1. call'[d] = call[d] /\ d \in BusyCalls
      BY <1>1, <1>7, <2>2 DEF BusyCalls
    <3>2. Excused(call[d]) /\ call[d].in # next.in
      BY <1>2, <1>7, <2>2, <3>1 DEF PoolInv, WhyClosed, OneUser
    <3>3. QED
      BY <3>1, <3>2 DEF Excused
  <2>3. QED
    BY <2>1, <2>2
<1>8. WhyClosed'
  BY <1>6, <1>7 DEF WhyClosed
<1>9. QED
  BY <1>4, <1>5, <1>8 DEF PoolInv

\* A call that ends leaves an instance that no other call has, or an empty slot.
LEMMA CallEnds ==
    ASSUME PoolInv, NEW c \in PoolCalls, call[c].pc \in Pool!Busy,
           call' = [call EXCEPT ![c] = Pool!NoAnswer],
           made' \in Nat, made <= made', UNCHANGED <<closed, drained, tooLate>>,
           \/ /\ failed' = failed
              /\ \E i \in (1..made') \ idle :
                    /\ idle' = idle \cup {i}
                    /\ i \in closed => i \in tooLate
                    /\ \A d \in BusyCalls \ {c} : call[d].in # i
           \/ idle' = idle /\ failed' = failed + 1
    PROVE  PoolInv'
<1>1. Pool!NoAnswer \in Calls /\ Pool!NoAnswer.pc \notin Pool!Busy
  BY DEF Pool!NoAnswer, Calls, Pool!Busy
<1>2. /\ call' \in [PoolCalls -> Calls] /\ call'[c] = Pool!NoAnswer
      /\ \A d \in PoolCalls \ {c} : call'[d] = call[d]
  BY <1>1 DEF PoolInv, PoolTypes
<1>3. BusyCalls' = BusyCalls \ {c} /\ c \in BusyCalls
  BY <1>1, <1>2 DEF BusyCalls
<1>4. \A d \in BusyCalls \ {c} : call'[d] = call[d]
  BY <1>2 DEF BusyCalls
<1>5. made \in Nat /\ 1..made \subseteq 1..made'
  BY DEF PoolInv, PoolTypes
<1>6. PoolTypes'
  <2>1. idle' \subseteq 1..made' /\ closed' \subseteq 1..made'
    BY <1>5 DEF PoolInv, PoolTypes
  <2>2. failed' \in Nat /\ drained' \in Nat
    BY DEF PoolInv, PoolTypes
  <2>3. QED
    BY <1>2, <2>1, <2>2 DEF PoolTypes
<1>7. OneUser'
  BY <1>3, <1>4, <1>5 DEF PoolInv, OneUser
<1>8. WhyClosed'
  <2>1. \A i \in idle' : i \in closed' => i \in tooLate'
    BY DEF PoolInv, WhyClosed
  <2>2. ASSUME NEW d \in PoolCalls, call'[d].pc \in Pool!Busy \ {"replace"}
        PROVE  Excused(call[d])'
    <3>1. call'[d] = call[d] /\ Excused(call[d])
      BY <1>1, <1>2, <2>2 DEF PoolInv, WhyClosed
    <3>2. QED
      BY <3>1 DEF Excused
  <2>3. QED
    BY <2>1, <2>2 DEF WhyClosed
<1>9. /\ IsFiniteSet(idle) /\ Cardinality(idle) \in Nat
      /\ IsFiniteSet(BusyCalls) /\ Cardinality(BusyCalls) \in Nat
  BY PoolFinite DEF PoolInv
<1>10. Cardinality(BusyCalls') = Cardinality(BusyCalls) - 1
  BY <1>3, <1>9, FS_RemoveElement
<1>11. \/ failed' = failed /\ Cardinality(idle') = Cardinality(idle) + 1
       \/ failed' = failed + 1 /\ Cardinality(idle') = Cardinality(idle)
  BY <1>9, FS_AddElement
<1>12. failed \in Nat /\ drained \in Nat
  BY DEF PoolInv, PoolTypes
<1>13. Slots'
  BY <1>9, <1>10, <1>11, <1>12 DEF PoolInv, Slots
<1>14. QED
  BY <1>6, <1>7, <1>8, <1>13 DEF PoolInv

LEMMA CallWaitsSteps ==
    ASSUME PoolInv, NEW c \in PoolCalls,
           Pool!Call(c) \/ Pool!GiveUp(c) \/ (Pool!EndContext(c) /\ call[c].pc \notin Pool!Busy)
    PROVE  PoolInv'
<1> DEFINE waits == [call[c] EXCEPT !.pc = "waiting"]
           over == [call[c] EXCEPT !.ended = TRUE]
<1>1. call[c] \in Calls /\ UNCHANGED <<idle, made, closed, drained, failed, tooLate>>
  BY DEF PoolInv, PoolTypes, Pool!Call, Pool!GiveUp, Pool!EndContext
<1>2. CASE Pool!Call(c)
  <2>1. waits \in Calls /\ waits.pc \notin Pool!Busy /\ call[c].pc \notin Pool!Busy
    BY <1>1, <1>2 DEF Calls, Pool!Busy, Pool!Call, Pool!At
  <2>2. call' = [call EXCEPT ![c] = waits]
    BY <1>2 DEF Pool!Call, Pool!Goto
  <2>3. QED
    BY <1>1, <2>1, <2>2, CallWaits
<1>3. CASE Pool!GiveUp(c)
  <2>1. call[c].pc \notin Pool!Busy /\ Pool!NoAnswer \in Calls /\ Pool!NoAnswer.pc \notin Pool!Busy
    BY <1>3 DEF Calls, Pool!Busy, Pool!GiveUp, Pool!At, Pool!NoAnswer
  <2>2. call' = [call EXCEPT ![c] = Pool!NoAnswer]
    BY <1>3 DEF Pool!GiveUp, Pool!Return
  <2>3. QED
    BY <1>1, <2>1, <2>2, CallWaits
<1>4. CASE Pool!EndContext(c) /\ call[c].pc \notin Pool!Busy
  <2>1. over \in Calls /\ over.pc = call[c].pc
    BY <1>1 DEF Calls
  <2>2. call' = [call EXCEPT ![c] = over]
    BY <1>4 DEF Pool!EndContext
  <2>3. QED
    BY <1>1, <1>4, <2>1, <2>2, CallWaits
<1>5. QED
  BY <1>2, <1>3, <1>4

LEMMA TakeHolds == ASSUME PoolInv, NEW c \in PoolCalls, Pool!Take(c) PROVE PoolInv'
<1>1. PICK i \in idle :
        /\ idle' = idle \ {i}
        /\ call' = [call EXCEPT ![c].pc = "running", ![c].in = i]
  BY DEF Pool!Take
<1>2. call[c].pc = "waiting" /\ UNCHANGED <<made, closed, drained, failed, tooLate>>
  BY DEF Pool!Take, Pool!At
<1> DEFINE next == [call[c] EXCEPT !.pc = "running", !.in = i]
<1>3. /\ call[c] \in Calls /\ i \in Nat /\ i \in 1..made /\ "running" \in Pool!Busy
      /\ "waiting" \notin Pool!Busy
  BY DEF PoolInv, PoolTypes, Pool!Busy
<1>4. next \in Calls /\ next.pc = "running" /\ next.in = i
  BY <1>3 DEF Calls
<1>5. /\ call' \in [PoolCalls -> Calls] /\ call'[c] = next
      /\ \A d \in PoolCalls \ {c} : call'[d] = call[d]
  BY <1>1, <1>4 DEF PoolInv, PoolTypes
<1> HIDE DEF next
<1>6. BusyCalls' = BusyCalls \cup {c} /\ c \notin BusyCalls
  BY <1>2, <1>3, <1>4, <1>5 DEF BusyCalls
<1>7. PoolTypes'
  BY <1>1, <1>2, <1>5 DEF PoolInv, PoolTypes
<1>8. OneUser'
  <2>1. \A d \in BusyCalls : call'[d] = call[d] /\ call[d].in # i
    BY <1>5, <1>6 DEF BusyCalls, PoolInv, OneUser
  <2>2. \A d \in BusyCalls : call'[d].in \in (1..made) \ idle'
    <3>1. idle' = idle \ {i} /\ \A d \in BusyCalls : call[d].in \in (1..made) \ idle
      BY <1>1 DEF PoolInv, OneUser
    <3>2. QED
      BY <2>1, <3>1
  <2>3. call'[c].in = i /\ i \in (1..made) \ idle'
    BY <1>1, <1>3, <1>4, <1>5
  <2>4. \A d, e \in BusyCalls : d # e => call'[d].in # call'[e].in
    BY <2>1 DEF PoolInv, OneUser
  <2>5. QED
    BY <1>2, <1>6, <2>1, <2>2, <2>3, <2>4 DEF OneUser
<1>9. WhyClosed'
  <2>1. \A j \in idle' : j \in closed' => j \in tooLate'
    BY <1>1, <1>2 DEF PoolInv, WhyClosed
  <2>2. ASSUME NEW d \in PoolCalls, call'[d].pc \in Pool!Busy \ {"replace"}
        PROVE  Excused(call[d])'
    <3>1. CASE d = c
      BY <1>2, <1>4, <1>5, <3>1 DEF PoolInv, WhyClosed, Excused
    <3>2. CASE d # c
      <4>1. call'[d] = call[d] /\ Excused(call[d])
        BY <1>5, <2>2, <3>2 DEF PoolInv, WhyClosed
      <4>2. QED
        BY <1>2, <4>1 DEF Excused
    <3>3. QED
      BY <3>1, <3>2
  <2>3. QED
    BY <2>1, <2>2 DEF WhyClosed
<1>10. /\ IsFiniteSet(idle) /\ Cardinality(idle) \in Nat
       /\ IsFiniteSet(BusyCalls) /\ Cardinality(BusyCalls) \in Nat
  BY PoolFinite DEF PoolInv
<1>11. Cardinality(idle') = Cardinality(idle) - 1
  BY <1>1, <1>10, FS_RemoveElement
<1>12. Cardinality(BusyCalls') = Cardinality(BusyCalls) + 1
  BY <1>6, <1>10, FS_AddElement
<1>13. failed \in Nat /\ drained \in Nat
  BY DEF PoolInv, PoolTypes
<1>14. Slots'
  BY <1>2, <1>10, <1>11, <1>12, <1>13 DEF PoolInv, Slots
<1>15. QED
  BY <1>7, <1>8, <1>9, <1>14 DEF PoolInv

\* The end of the context while a call works or waits to be cleared away.
LEMMA EndContextHolds ==
    ASSUME PoolInv, NEW c \in PoolCalls, Pool!EndContext(c), call[c].pc \in Pool!Busy
    PROVE  PoolInv'
<1>1. /\ call' = [call EXCEPT ![c] = [call[c] EXCEPT !.ended = TRUE]] /\ call[c] \in Calls
      /\ UNCHANGED <<idle, made, closed, drained, failed, tooLate>>
  BY DEF Pool!EndContext, PoolInv, PoolTypes
<1>2. PICK next \in Calls : next = [call[c] EXCEPT !.ended = TRUE]
  BY <1>1 DEF Calls
<1>3. next.pc = call[c].pc /\ next.in = call[c].in /\ next.ended
  BY <1>1, <1>2 DEF Calls
<1>4. ASSUME next.pc # "replace" PROVE Excused(next)'
  <2>1. Excused(call[c])
    BY <1>3, <1>4 DEF PoolInv, WhyClosed
  <2>2. QED
    BY <1>1, <1>3, <2>1 DEF Excused
<1>5. QED
  BY <1>1, <1>2, <1>3, <1>4, CallGoesOn

LEMMA CutOffHolds == ASSUME PoolInv, NEW c \in PoolCalls, Pool!CutOff(c) PROVE PoolInv'
<1>1. /\ call[c].pc = "running" /\ call[c].ended /\ closed' = closed \cup {call[c].in}
      /\ call' = [call EXCEPT ![c] = [call[c] EXCEPT !.pc = "failed"]] /\ call[c] \in Calls
      /\ UNCHANGED <<idle, made, drained, failed, tooLate>>
  BY DEF Pool!CutOff, Pool!At, Pool!Goto, PoolInv, PoolTypes
<1>2. "failed" \in Pool!Busy /\ "running" \in Pool!Busy
  BY DEF Pool!Busy
<1>3. PICK next \in Calls : next = [call[c] EXCEPT !.pc = "failed"]
  BY <1>1, <1>2 DEF Calls
<1>4. next.pc = "failed" /\ next.in = call[c].in /\ next.ended
  BY <1>1, <1>3 DEF Calls
<1>5. Excused(next)'
  BY <1>4 DEF Excused
<1>6. QED
  BY <1>1, <1>2, <1>3, <1>4, <1>5, CallGoesOn

LEMMA RunHolds == ASSUME PoolInv, NEW c \in PoolCalls, Pool!Run(c) PROVE PoolInv'
<1>1. /\ call[c].pc = "running" /\ call[c] \in Calls
      /\ UNCHANGED <<idle, made, closed, drained, failed, tooLate>>
  BY DEF Pool!Run, Pool!At, PoolInv, PoolTypes
<1>2. PICK pc \in {"answered", "failed"} : call' = [call EXCEPT ![c] = [call[c] EXCEPT !.pc = pc]]
  BY DEF Pool!Run, Pool!Goto
<1>3. pc \in Pool!Busy /\ "running" \in Pool!Busy /\ pc # "replace" /\ "running" # "replace"
  BY <1>2 DEF Pool!Busy
<1>4. PICK next \in Calls : next = [call[c] EXCEPT !.pc = pc]
  BY <1>1, <1>3 DEF Calls
<1>5. next.pc = pc /\ next.in = call[c].in
  BY <1>1, <1>4 DEF Calls
<1>6. Excused(next)'
  <2>1. Excused(call[c])
    BY <1>1, <1>3 DEF PoolInv, WhyClosed
  <2>2. call[c].in \in closed => call[c].in \in tooLate
    BY <1>1, <2>1 DEF Excused
  <2>3. QED
    BY <1>1, <1>5, <2>2 DEF Excused
<1>7. QED
  BY <1>1, <1>2, <1>3, <1>4, <1>5, <1>6, CallGoesOn

LEMMA FreeCutOffHolds == ASSUME PoolInv, NEW c \in PoolCalls, Pool!FreeCutOff(c) PROVE PoolInv'
<1>1. /\ call[c].pc = "answered" /\ call[c] \in Calls /\ call' = call
      /\ closed' = closed \cup {call[c].in} /\ tooLate' = tooLate \cup {call[c].in}
      /\ UNCHANGED <<idle, made, drained, failed>>
  BY DEF Pool!FreeCutOff, Pool!At, PoolInv, PoolTypes
<1>2. PICK next \in Calls : next = call[c]
  BY <1>1
<1>3. call' = [call EXCEPT ![c] = next] /\ next.pc \in Pool!Busy
  BY <1>1, <1>2 DEF Pool!Busy, PoolInv, PoolTypes
<1>4. Excused(next)'
  BY <1>1, <1>2 DEF Excused
<1>5. QED
  BY <1>1, <1>2, <1>3, <1>4, CallGoesOn

LEMMA SucceedHolds == ASSUME PoolInv, NEW c \in PoolCalls, Pool!Succeed(c) PROVE PoolInv'
<1>1. /\ call[c].pc = "answered" /\ idle' = idle \cup {call[c].in}
      /\ call' = [call EXCEPT ![c] = Pool!NoAnswer]
      /\ UNCHANGED <<made, closed, drained, failed, tooLate>>
  BY DEF Pool!Succeed, Pool!At, Pool!Return
<1>2. c \in BusyCalls /\ call[c].pc \in Pool!Busy \ {"replace"}
  BY <1>1 DEF BusyCalls, Pool!Busy
<1>3. /\ call[c].in \in (1..made) \ idle
      /\ \A d \in BusyCalls \ {c} : call[d].in # call[c].in
      /\ call[c].in \in closed => call[c].in \in tooLate
  BY <1>1, <1>2 DEF PoolInv, OneUser, WhyClosed, Excused
<1>4. made \in Nat /\ made <= made
  BY DEF PoolInv, PoolTypes
<1>5. QED
  BY <1>1, <1>2, <1>3, <1>4, CallEnds

LEMMA PoolFailHolds == ASSUME PoolInv, NEW c \in PoolCalls, Pool!Fail(c) PROVE PoolInv'
<1>1. /\ call[c].pc = "failed" /\ call[c] \in Calls
      /\ UNCHANGED <<made, drained, failed, tooLate>>
  BY DEF Pool!Fail, Pool!At, PoolInv, PoolTypes
<1>2. c \in BusyCalls /\ call[c].pc \in Pool!Busy \ {"replace"} /\ "replace" \in Pool!Busy
  BY <1>1 DEF BusyCalls, Pool!Busy
<1>3. CASE call[c].ended
  <2> DEFINE next == [call[c] EXCEPT !.pc = "replace"]
  <2>1. /\ closed' = closed \cup {call[c].in} /\ idle' = idle
        /\ call' = [call EXCEPT ![c] = next]
    BY <1>3 DEF Pool!Fail, Pool!Goto
  <2>2. next \in Calls /\ next.pc = "replace" /\ next.in = call[c].in
    BY <1>1, <1>2 DEF Calls
  <2>3. QED
    BY <1>1, <1>2, <2>1, <2>2, CallGoesOn
<1>4. CASE ~call[c].ended
  <2>1. /\ idle' = idle \cup {call[c].in} /\ closed' = closed
        /\ call' = [call EXCEPT ![c] = Pool!NoAnswer]
    BY <1>4 DEF Pool!Fail, Pool!Return
  <2>2. /\ call[c].in \in (1..made) \ idle
        /\ \A d \in BusyCalls \ {c} : call[d].in # call[c].in
        /\ call[c].in \in closed => call[c].in \in tooLate
    BY <1>2, <1>4 DEF PoolInv, OneUser, WhyClosed, Excused
  <2>3. made \in Nat /\ made <= made
    BY DEF PoolInv, PoolTypes
  <2>4. QED
    BY <1>1, <1>2, <2>1, <2>2, <2>3, CallEnds
<1>5. QED
  BY <1>3, <1>4

LEMMA ReplaceHolds == ASSUME PoolInv, NEW c \in PoolCalls, Pool!Replace(c) PROVE PoolInv'
<1>1. /\ call[c].pc \in Pool!Busy /\ call' = [call EXCEPT ![c] = Pool!NoAnswer]
      /\ UNCHANGED <<closed, drained, tooLate>>
  BY DEF Pool!Replace, Pool!At, Pool!Return, Pool!Busy
<1>2. /\ made \in Nat /\ idle \subseteq 1..made /\ closed \subseteq 1..made
      /\ made <= made /\ made <= made + 1 /\ made + 1 \in Nat
  BY DEF PoolInv, PoolTypes
<1>3. CASE made' = made + 1 /\ idle' = idle \cup {made + 1} /\ UNCHANGED failed
  <2>1. made + 1 \in (1..made + 1) \ idle /\ made + 1 \notin closed /\ made + 1 \notin 1..made
    BY <1>2
  <2>2. \A d \in BusyCalls \ {c} : call[d].in # made + 1
    BY <2>1 DEF PoolInv, OneUser
  <2>3. QED
    BY <1>1, <1>2, <1>3, <2>1, <2>2, CallEnds
<1>4. CASE failed' = failed + 1 /\ UNCHANGED <<idle, made>>
  BY <1>1, <1>2, <1>4, CallEnds
<1>5. QED
  BY <1>3, <1>4 DEF Pool!Replace

\* Close takes what waits, which no call has.
LEMMA CloseHolds == ASSUME PoolInv, Pool!Close PROVE PoolInv'
<1>1. PICK i \in idle : idle' = idle \ {i} /\ closed' = closed \cup {i}
  BY DEF Pool!Close
<1>2. drained' = drained + 1 /\ UNCHANGED <<made, call, failed, tooLate>>
  BY DEF Pool!Close
<1>3. PoolTypes' /\ BusyCalls' = BusyCalls
  BY <1>1, <1>2 DEF PoolInv, PoolTypes, BusyCalls
<1>4. OneUser'
  BY <1>1, <1>2, <1>3 DEF PoolInv, OneUser
<1>5. WhyClosed'
  <2>1. \A j \in idle' : j \in closed' => j \in tooLate'
    BY <1>1, <1>2 DEF PoolInv, WhyClosed
  <2>2. ASSUME NEW d \in PoolCalls, call[d].pc \in Pool!Busy \ {"replace"}
        PROVE  Excused(call[d])'
    <3>1. d \in BusyCalls /\ Excused(call[d])
      BY <2>2 DEF PoolInv, WhyClosed, BusyCalls
    <3>2. call[d].in # i
      BY <3>1 DEF PoolInv, OneUser
    <3>3. QED
      BY <1>1, <1>2, <3>1, <3>2 DEF Excused
  <2>3. QED
    BY <1>2, <2>1, <2>2 DEF WhyClosed
<1>6. /\ IsFiniteSet(idle) /\ Cardinality(idle) \in Nat /\ Cardinality(BusyCalls) \in Nat
      /\ failed \in Nat /\ drained \in Nat
  BY PoolFinite DEF PoolInv, PoolTypes
<1>7. Cardinality(idle') = Cardinality(idle) - 1
  BY <1>1, <1>6, FS_RemoveElement
<1>8. Slots'
  BY <1>2, <1>3, <1>6, <1>7 DEF PoolInv, Slots
<1>9. QED
  BY <1>3, <1>4, <1>5, <1>8 DEF PoolInv

LEMMA PoolAlone == part = "pool" /\ [Next]_vars => [Pool!Next]_poolVars
<1>1. ASSUME part = "pool", Next PROVE [Pool!Next]_poolVars
  BY <1>1 DEF Next, RenewalStep, FactorStep, ConnectedStep, PoolStep, CacheStep, SavedStep,
     OutboxStep, StripeStep, SchemaStep, PolicyStep, CalendarStep, GeneratedStep,
     MergeStep, DevStep, ModelStep, UploadStep, LifeStep, DecimalStep
<1>2. ASSUME UNCHANGED vars PROVE UNCHANGED poolVars
  BY <1>2 DEF vars, state, poolVars
<1>3. QED
  BY <1>1, <1>2

PoolRuns == part = "pool" => PoolInv

LEMMA PoolHolds == PoolRuns /\ [Next]_vars => PoolRuns'
<1>1. ASSUME PoolInv, Pool!Next PROVE PoolInv'
  BY <1>1, CloseHolds, CallWaitsSteps, EndContextHolds, TakeHolds, CutOffHolds, RunHolds,
     FreeCutOffHolds, SucceedHolds, PoolFailHolds, ReplaceHolds DEF Pool!Next
<1>2. ASSUME PoolInv, UNCHANGED poolVars PROVE PoolInv'
  BY <1>2 DEF poolVars, PoolInv, PoolTypes, OneUser, WhyClosed, Excused, Slots, BusyCalls
<1>3. QED
  BY <1>1, <1>2, PoolAlone, OnePart DEF PoolRuns

\* No slot is lost and no closed instance serves, for a pool of any size and any calls.
THEOREM PoolKept == Spec => []PoolWhole
<1>1. Init => PoolRuns
  BY PoolBegins DEF Init, PoolRuns
<1>2. PoolRuns => PoolWhole
  <2> SUFFICES ASSUME PoolInv PROVE Pool!PoolWhole
    BY DEF PoolWhole, PoolRuns
  <2>1. Cardinality(idle) + Cardinality(BusyCalls) + failed + drained = Size
    BY DEF PoolInv, Slots
  <2>2. idle \cap closed \subseteq tooLate
    BY DEF PoolInv, WhyClosed
  <2>3. QED
    BY <2>1, <2>2, SameSize DEF Pool!PoolWhole, Pool!SlotsAccounted, BusyCalls
<1>3. QED
  BY <1>1, <1>2, PoolHolds, PTL DEF Spec

-----------------------------------------------------------------------------
(* The renewal of a session.                                               *)

row == x1
cookie == x2
access == x3
flight == x4
expiries == x5
rotations == x6
lost == x7
excused == x8
renewalVars == <<x1, x2, x3, x4, x5, x6, x7, x8>>
USE DEF row, cookie, access, flight, expiries, rotations, lost, excused

\* Tokens are the rotations that made them; a new one in a reply is the current one.
FlightKept(f) ==
    \/ f = Renewal!Ground
    \/ /\ f.pc \in {"sent", "current", "previous", "check", "access", "clear", "keep", "rotated", "set"}
       /\ f.token \in Nat /\ f.token <= rotations
       /\ f.pc \in {"rotated", "set"} => f.new = rotations

RenewalTypes ==
    /\ row \in [refresh : Nat, prev : Int, grace : BOOLEAN, open : BOOLEAN]
    /\ row.refresh = rotations /\ row.prev = rotations - 1
    /\ cookie \in Int /\ cookie <= rotations /\ (cookie = Renewal!NoToken \/ cookie \in Nat)
    /\ access \in BOOLEAN /\ expiries \in Nat /\ rotations \in Nat
    /\ flight = [r \in PageRequests |-> flight[r]]
    /\ \A r \in PageRequests : FlightKept(flight[r])

Flies(r) == flight[r] # Renewal!Ground
Answers(r) == flight[r].pc \in {"rotated", "set"}

\* The current token comes back to the browser in one reply, and only while the browser
\* has not shown it: the next rotation waits for that reply.
OneAnswer == \A p, r \in PageRequests : Answers(p) /\ Answers(r) => p = r
Unanswered ==
    /\ cookie = rotations => \A p \in PageRequests : ~Answers(p)
    /\ \A r \in PageRequests : Flies(r) /\ flight[r].token = rotations
           => \A p \in PageRequests : ~Answers(p)

\* The browser never falls behind a request of its own.
Behind == \A r \in PageRequests : Flies(r) /\ cookie # Renewal!NoToken => flight[r].token <= cookie

\* A request that can rotate has an expiry of its own.
RotationsCounted ==
    /\ rotations <= expiries
    /\ cookie = rotations /\ ~access => rotations < expiries
    /\ \A r \in PageRequests :
          flight[r].pc \in {"sent", "current"} /\ flight[r].token = rotations => rotations < expiries

OnItsWay ==
    row.open /\ ~lost /\ cookie # Renewal!NoToken
        => cookie = rotations \/ \E r \in PageRequests : Answers(r)

\* Without an excuse every token in use is found.
Good(t) == t = rotations \/ (t = rotations - 1 /\ row.grace)
GoodUnlessExcused == ~excused =>
    /\ row.open /\ cookie # Renewal!NoToken /\ Good(cookie)
    /\ \A r \in PageRequests :
          flight[r].pc # "clear" /\ (flight[r].pc = "sent" => Good(flight[r].token))

RenewalInv ==
    /\ RenewalTypes /\ OneAnswer /\ Unanswered /\ Behind
    /\ RotationsCounted /\ OnItsWay /\ GoodUnlessExcused

LEMMA RenewalBegins == Renewal!Init => RenewalInv
<1> SUFFICES ASSUME Renewal!Init PROVE RenewalInv
  OBVIOUS
<1> USE DEF Renewal!Init, Renewal!Ground, Renewal!NoToken
<1>1. RenewalTypes
  BY DEF RenewalTypes, FlightKept
<1>2. OneAnswer /\ Unanswered /\ Behind
  BY DEF OneAnswer, Unanswered, Behind, Answers, Flies
<1>3. RotationsCounted /\ OnItsWay /\ GoodUnlessExcused
  BY DEF RotationsCounted, OnItsWay, GoodUnlessExcused, Good
<1>4. QED
  BY <1>1, <1>2, <1>3 DEF RenewalInv

\* A request goes on with the token it carries, to a stage that is no rotation.
LEMMA TurnHolds ==
    ASSUME RenewalInv, NEW r \in PageRequests, Flies(r),
           NEW pc \in {"current", "previous", "check", "access", "clear", "keep"},
           flight' = [flight EXCEPT ![r] = [pc |-> pc, token |-> flight[r].token]],
           pc = "current" => flight[r].pc = "sent",
           pc = "clear" => excused,
           Answers(r) => lost' \/ ~row.open,
           lost => lost',
           UNCHANGED <<row, cookie, access, expiries, rotations, excused>>
    PROVE  RenewalInv'
<1> USE DEF RenewalInv, Flies, Answers, Renewal!Ground, Renewal!NoToken
<1>1. /\ FlightKept(flight[r]) /\ flight[r].token \in Nat /\ flight[r].token <= rotations
      /\ flight'[r] = [pc |-> pc, token |-> flight[r].token]
      /\ \A p \in PageRequests \ {r} : flight'[p] = flight[p]
      /\ flight' = [p \in PageRequests |-> flight'[p]]
  BY DEF RenewalTypes, FlightKept
<1>2. RenewalTypes'
  BY <1>1 DEF RenewalTypes, FlightKept
<1>3. OneAnswer' /\ Unanswered' /\ Behind'
  BY <1>1 DEF OneAnswer, Unanswered, Behind
<1>4. RotationsCounted' /\ GoodUnlessExcused'
  BY <1>1 DEF RotationsCounted, GoodUnlessExcused, Good
<1>5. OnItsWay'
  BY <1>1 DEF OnItsWay
<1>6. QED
  BY <1>2, <1>3, <1>4, <1>5

LEMMA ExpireAccessHolds == ASSUME RenewalInv, Renewal!ExpireAccess PROVE RenewalInv'
<1> USE DEF RenewalInv, Renewal!ExpireAccess
<1>1. RenewalTypes'
  <2>0. RenewalTypes
    OBVIOUS
  <2>1. /\ UNCHANGED <<row, cookie, flight, rotations>>
        /\ access' = FALSE /\ expiries' = expiries + 1
    OBVIOUS
  <2>2. \A r \in PageRequests : FlightKept(flight[r])'
    BY <2>0, <2>1 DEF RenewalTypes, FlightKept
  <2>3. access' \in BOOLEAN
    BY <2>1
  <2>4. expiries' \in Nat
    BY <2>0, <2>1 DEF RenewalTypes
  <2>5. QED
    BY <2>0, <2>1, <2>2, <2>3, <2>4 DEF RenewalTypes
<1>2. OneAnswer' /\ Unanswered' /\ Behind' /\ OnItsWay' /\ GoodUnlessExcused'
  BY DEF OneAnswer, Unanswered, Behind, OnItsWay, GoodUnlessExcused, Good, Answers, Flies
<1>3. RotationsCounted'
  BY DEF RotationsCounted, RenewalTypes
<1>4. QED
  BY <1>1, <1>2, <1>3

LEMMA SendHolds == ASSUME RenewalInv, NEW r \in PageRequests, Renewal!Send(r) PROVE RenewalInv'
<1> USE DEF RenewalInv, Flies, Answers, Renewal!Ground, Renewal!NoToken
<1>1. /\ flight'[r] = [pc |-> "sent", token |-> cookie] /\ cookie \in Nat /\ cookie <= rotations
      /\ ~access /\ \A p \in PageRequests \ {r} : flight'[p] = flight[p]
      /\ flight' = [p \in PageRequests |-> flight'[p]]
      /\ UNCHANGED <<row, cookie, access, expiries, rotations, lost, excused>>
      /\ flight[r].pc = "idle"
  BY DEF Renewal!Send, Renewal!Become, RenewalTypes
<1>2. RenewalTypes'
  BY <1>1 DEF RenewalTypes, FlightKept
<1>3. OneAnswer' /\ Unanswered' /\ Behind'
  BY <1>1 DEF OneAnswer, Unanswered, Behind
<1>4. RotationsCounted' /\ OnItsWay' /\ GoodUnlessExcused'
  BY <1>1 DEF RotationsCounted, OnItsWay, GoodUnlessExcused, Good
<1>5. QED
  BY <1>2, <1>3, <1>4

LEMMA FindHolds == ASSUME RenewalInv, NEW r \in PageRequests, Renewal!Find(r) PROVE RenewalInv'
<1> DEFINE t == flight[r].token
           pc == IF ~Renewal!Known(t) THEN "clear" ELSE IF t = row.refresh THEN "current" ELSE "previous"
<1>1. /\ flight[r].pc = "sent" /\ Flies(r) /\ ~Answers(r)
      /\ flight' = [flight EXCEPT ![r] = [pc |-> pc, token |-> flight[r].token]]
      /\ UNCHANGED <<row, cookie, access, expiries, rotations, lost, excused>>
  BY DEF Renewal!Find, Renewal!Turn, Renewal!Become, Flies, Answers, Renewal!Ground
<1>2. pc = "clear" => excused
  BY <1>1 DEF Renewal!Known, RenewalInv, RenewalTypes, GoodUnlessExcused, Good
<1>3. pc \in {"current", "previous", "check", "access", "clear", "keep"}
  OBVIOUS
<1> HIDE DEF pc
<1>4. QED
  BY <1>1, <1>2, <1>3, TurnHolds

LEMMA RefreshFailHolds == ASSUME RenewalInv, NEW r \in PageRequests, Renewal!Fail(r) PROVE RenewalInv'
<1>1. /\ flight[r].pc \in {"sent", "current", "previous", "check", "rotated"} /\ Flies(r)
      /\ flight' = [flight EXCEPT ![r] = [pc |-> "keep", token |-> flight[r].token]]
      /\ lost' = (lost \/ flight[r].pc = "rotated")
      /\ UNCHANGED <<row, cookie, access, expiries, rotations, excused>>
  BY DEF Renewal!Fail, Renewal!Turn, Renewal!Become, Flies, Renewal!Ground
<1>2. Answers(r) => lost'
  BY <1>1 DEF Answers
<1>3. QED
  BY <1>1, <1>2, TurnHolds

\* The request that finds its token current is the only one that can have it, and the
\* browser has it too.
LEMMA RotateHolds == ASSUME RenewalInv, NEW r \in PageRequests, Renewal!Rotate(r) PROVE RenewalInv'
<1> USE DEF Flies, Answers, Renewal!Ground, Renewal!NoToken
<1>0. flight[r].pc = "current" /\ Flies(r) /\ FlightKept(flight[r]) /\ flight = [p \in PageRequests |-> flight[p]]
  BY DEF Renewal!Rotate, RenewalInv, RenewalTypes
<1>1. CASE row.refresh # flight[r].token
  <2>1. /\ flight' = [flight EXCEPT ![r] = [pc |-> "check", token |-> flight[r].token]]
        /\ UNCHANGED <<row, cookie, access, expiries, rotations, lost, excused>>
    BY <1>1 DEF Renewal!Rotate, Renewal!Turn, Renewal!Become
  <2>2. QED
    BY <1>0, <2>1, TurnHolds
<1>2. CASE row.refresh = flight[r].token
  <2> USE DEF RenewalInv
  <2>1. /\ row' = [row EXCEPT !.prev = row.refresh, !.grace = TRUE, !.refresh = rotations + 1]
        /\ flight'[r] = [pc |-> "rotated", token |-> flight[r].token, new |-> rotations + 1]
        /\ \A p \in PageRequests \ {r} : flight'[p] = flight[p]
        /\ flight' = [p \in PageRequests |-> flight'[p]]
        /\ rotations' = rotations + 1
        /\ excused' = (excused \/ \E p \in Renewal!InFlight \ {r} :
                          flight[p].pc = "sent" /\ flight[p].token = row.prev)
        /\ UNCHANGED <<cookie, access, expiries, lost>>
    BY <1>0, <1>2 DEF Renewal!Rotate, Renewal!Become
  <2>2. /\ row'.refresh = rotations + 1 /\ row'.prev = rotations /\ row'.grace = TRUE /\ row'.open = row.open
        /\ row' \in [refresh : Nat, prev : Int, grace : BOOLEAN, open : BOOLEAN]
        /\ rotations \in Nat /\ flight[r].token = rotations /\ row.refresh = rotations /\ row.prev = rotations - 1
    <3>1. /\ row \in [refresh : Nat, prev : Int, grace : BOOLEAN, open : BOOLEAN]
          /\ rotations \in Nat /\ row.refresh = rotations /\ row.prev = rotations - 1
      BY DEF RenewalTypes
    <3>2. row' = [refresh |-> rotations + 1, prev |-> row.refresh, grace |-> TRUE, open |-> row.open]
      BY <2>1, <3>1
    <3>3. row.open \in BOOLEAN
      BY <3>1
    <3>4. row' \in [refresh : Nat, prev : Int, grace : BOOLEAN, open : BOOLEAN]
      BY <3>1, <3>2, <3>3
    <3>5. row'.refresh = rotations + 1 /\ row'.prev = rotations /\ row'.grace = TRUE /\ row'.open = row.open
      BY <3>1, <3>2
    <3>6. QED
      BY <1>2, <3>1, <3>4, <3>5
  <2>3. \A p \in PageRequests : ~Answers(p)
    BY <1>0, <2>2 DEF Unanswered
  <2>4. \A p \in PageRequests : Flies(p) => flight[p].token \in Nat /\ flight[p].token <= rotations
    BY DEF RenewalTypes, FlightKept
  <2>5. RenewalTypes'
    <3>0. \A p \in PageRequests : FlightKept(flight[p])
      BY DEF RenewalTypes
    <3>1. ASSUME NEW p \in PageRequests PROVE FlightKept(flight[p])'
      <4>1. CASE p = r
        BY <2>1, <2>2, <4>1 DEF FlightKept
      <4>2. CASE p # r
        BY <2>1, <2>2, <2>3, <3>0, <4>2 DEF FlightKept
      <4>3. QED
        BY <4>1, <4>2
    <3>2. /\ cookie \in Int /\ cookie <= rotations' /\ (cookie = Renewal!NoToken \/ cookie \in Nat)
          /\ access \in BOOLEAN /\ expiries \in Nat /\ rotations' \in Nat
      BY <2>1, <2>2 DEF RenewalTypes
    <3>3. row'.refresh = rotations' /\ row'.prev = rotations' - 1
      BY <2>1, <2>2
    <3>4. QED
      BY <2>1, <2>2, <3>1, <3>2, <3>3 DEF RenewalTypes
  <2>6. OneAnswer' /\ Unanswered' /\ Behind'
    <3>1. OneAnswer'
      BY <2>1, <2>3 DEF OneAnswer
    <3>2. cookie # rotations' /\ \A p \in PageRequests : Flies(p)' => flight'[p].token # rotations'
      BY <1>0, <2>1, <2>2, <2>4 DEF RenewalTypes
    <3>3. Unanswered'
      BY <2>1, <3>2 DEF Unanswered
    <3>4. Behind'
      BY <1>0, <2>1 DEF Behind
    <3>5. QED
      BY <3>1, <3>3, <3>4
  <2>7. RotationsCounted'
    BY <1>0, <2>1, <2>2, <2>4 DEF RotationsCounted, RenewalTypes
  <2>8. OnItsWay'
    BY <2>1 DEF OnItsWay
  <2>9. cookie # Renewal!NoToken => cookie = rotations
    BY <1>0, <2>2 DEF Behind, RenewalTypes
  <2>10. GoodUnlessExcused'
    <3> SUFFICES ASSUME ~excused'
                 PROVE  /\ row'.open /\ cookie # Renewal!NoToken /\ Good(cookie)'
                        /\ \A p \in PageRequests :
                             flight'[p].pc # "clear" /\ (flight'[p].pc = "sent" => Good(flight[p].token)')
      BY <2>1 DEF GoodUnlessExcused, Good
    <3>1. ~excused /\ row.open /\ cookie # Renewal!NoToken
      BY <2>1 DEF GoodUnlessExcused
    <3>2. Good(cookie)'
      BY <2>1, <2>2, <2>9, <3>1 DEF Good
    <3>3. ASSUME NEW p \in PageRequests, flight[p].pc = "sent" PROVE flight[p].token = rotations
      <4>1. Good(flight[p].token) /\ p # r /\ p \in Renewal!InFlight
        BY <1>0, <3>1, <3>3 DEF GoodUnlessExcused, Renewal!InFlight
      <4>2. flight[p].token # row.prev
        BY <2>1, <3>3, <4>1
      <4>3. QED
        BY <2>2, <4>1, <4>2 DEF Good
    <3>4. QED
      BY <2>1, <2>2, <3>1, <3>2, <3>3 DEF GoodUnlessExcused, Good
  <2>11. QED
    BY <2>5, <2>6, <2>7, <2>8, <2>10
<1>3. QED
  BY <1>1, <1>2

LEMMA RenewHolds == ASSUME RenewalInv, NEW r \in PageRequests, Renewal!Renew(r) PROVE RenewalInv'
<1>1. /\ Flies(r) /\ ~Answers(r)
      /\ flight' = [flight EXCEPT ![r] = [pc |-> "check", token |-> flight[r].token]]
      /\ UNCHANGED <<row, cookie, access, expiries, rotations, lost, excused>>
  BY DEF Renewal!Renew, Renewal!Turn, Renewal!Become, Flies, Answers, Renewal!Ground
<1>2. QED
  BY <1>1, TurnHolds

LEMMA SessionCheckHolds == ASSUME RenewalInv, NEW r \in PageRequests, Renewal!Check(r) PROVE RenewalInv'
<1> USE DEF Flies, Answers, Renewal!Ground
<1>0. /\ flight[r].pc \in {"check", "rotated"} /\ Flies(r)
      /\ UNCHANGED <<row, cookie, access, expiries, rotations, lost, excused>>
  BY DEF Renewal!Check
<1>1. CASE ~row.open
  <2>1. flight' = [flight EXCEPT ![r] = [pc |-> "clear", token |-> flight[r].token]]
    BY <1>1 DEF Renewal!Check, Renewal!Turn, Renewal!Become
  <2>2. excused
    BY <1>1 DEF RenewalInv, GoodUnlessExcused
  <2>3. QED
    BY <1>0, <1>1, <2>1, <2>2, TurnHolds
<1>2. CASE row.open /\ flight[r].pc = "check"
  <2>1. flight' = [flight EXCEPT ![r] = [pc |-> "access", token |-> flight[r].token]]
    BY <1>2 DEF Renewal!Check, Renewal!Turn, Renewal!Become
  <2>2. QED
    BY <1>0, <1>2, <2>1, TurnHolds
<1>3. CASE row.open /\ flight[r].pc = "rotated"
  <2> USE DEF RenewalInv
  <2>1. flight' = [flight EXCEPT ![r] = [flight[r] EXCEPT !.pc = "set"]]
    BY <1>3 DEF Renewal!Check, Renewal!Become
  <2>2. /\ flight'[r] = [flight[r] EXCEPT !.pc = "set"]
        /\ \A p \in PageRequests \ {r} : flight'[p] = flight[p]
        /\ flight' = [p \in PageRequests |-> flight'[p]]
    BY <2>1 DEF RenewalTypes
  <2>3. /\ flight'[r].pc = "set" /\ flight'[r].token = flight[r].token /\ flight'[r].new = flight[r].new
        /\ FlightKept(flight[r])
    BY <1>0, <1>3, <2>2 DEF RenewalTypes, FlightKept
  <2>4. RenewalTypes'
    <3>0. \A p \in PageRequests : FlightKept(flight[p])
      BY DEF RenewalTypes
    <3>1. ASSUME NEW p \in PageRequests PROVE FlightKept(flight[p])'
      <4>1. CASE p = r
        BY <1>0, <1>3, <2>3, <4>1 DEF FlightKept
      <4>2. CASE p # r
        BY <1>0, <2>2, <3>0, <4>2 DEF FlightKept
      <4>3. QED
        BY <4>1, <4>2
    <3>2. QED
      BY <1>0, <2>2, <3>1 DEF RenewalTypes
  <2>5. OneAnswer' /\ Unanswered' /\ Behind'
    <3>1. ASSUME NEW p \in PageRequests
          PROVE  /\ Answers(p)' <=> Answers(p)
                 /\ Flies(p)' <=> Flies(p)
                 /\ flight'[p].token = flight[p].token
      <4>1. CASE p = r
        BY <1>0, <1>3, <2>3, <4>1
      <4>2. CASE p # r
        BY <2>2, <4>2
      <4>3. QED
        BY <4>1, <4>2
    <3>2. QED
      BY <1>0, <3>1 DEF OneAnswer, Unanswered, Behind
  <2>6. RotationsCounted' /\ OnItsWay' /\ GoodUnlessExcused'
    <3>1. RotationsCounted'
      BY <1>0, <1>3, <2>2, <2>3 DEF RotationsCounted
    <3>2. OnItsWay'
      BY <1>0, <1>3, <2>2, <2>3 DEF OnItsWay
    <3>3. GoodUnlessExcused'
      BY <1>0, <1>3, <2>2, <2>3 DEF GoodUnlessExcused, Good
    <3>4. QED
      BY <3>1, <3>2, <3>3
  <2>7. QED
    BY <2>4, <2>5, <2>6
<1>4. QED
  BY <1>0, <1>1, <1>2, <1>3

\* A request is over: the browser has what it brought, or nothing of it.
LEMMA LandHolds ==
    ASSUME RenewalInv, NEW r \in PageRequests, Flies(r),
           flight' = [flight EXCEPT ![r] = Renewal!Ground],
           lost => lost', UNCHANGED <<row, expiries, rotations, excused>>,
           \/ /\ cookie' = cookie /\ access' = access
              /\ Answers(r) => lost'
           \/ /\ cookie' = cookie /\ access' = TRUE /\ ~Answers(r)
           \/ cookie' = rotations /\ access' = TRUE /\ Answers(r)
           \/ cookie' = Renewal!NoToken /\ access' = FALSE /\ excused
    PROVE  RenewalInv'
<1> USE DEF RenewalInv, Flies, Answers, Renewal!NoToken
<1>1. /\ flight'[r] = Renewal!Ground
      /\ \A p \in PageRequests \ {r} : flight'[p] = flight[p]
      /\ flight' = [p \in PageRequests |-> flight'[p]]
      /\ rotations \in Nat /\ FlightKept(flight[r])
  BY DEF RenewalTypes
<1>2. RenewalTypes'
  <2>1. \A p \in PageRequests : FlightKept(flight[p])'
    BY <1>1 DEF RenewalTypes, FlightKept
  <2>2. cookie' \in Int /\ cookie' <= rotations /\ (cookie' = -1 \/ cookie' \in Nat) /\ access' \in BOOLEAN
    <3>1. /\ cookie \in Int /\ cookie <= rotations /\ (cookie = -1 \/ cookie \in Nat) /\ access \in BOOLEAN
          /\ rotations \in Nat
      BY DEF RenewalTypes
    <3>2. cookie' \in {cookie, rotations, -1}
      OBVIOUS
    <3>3. access' \in BOOLEAN
      BY <3>1
    <3>4. QED
      BY <3>1, <3>2, <3>3
  <2>3. QED
    BY <1>1, <2>1, <2>2 DEF RenewalTypes
<1>3. \A p \in PageRequests : Flies(p)' => Flies(p) /\ p # r /\ flight'[p] = flight[p]
  BY <1>1
<1>4. \A p \in PageRequests : Answers(p)' => Answers(p) /\ p # r
  BY <1>1 DEF Renewal!Ground
<1>5. OneAnswer' /\ Unanswered'
  BY <1>1, <1>3, <1>4 DEF OneAnswer, Unanswered
<1>6. Behind'
  BY <1>1, <1>3 DEF Behind, RenewalTypes, FlightKept
<1>7. RotationsCounted'
  <2>1. cookie' = rotations /\ ~access' => cookie = rotations /\ ~access
    BY <1>1
  <2>2. \A p \in PageRequests : flight'[p].pc \in {"sent", "current"} => flight'[p] = flight[p]
    BY <1>1 DEF Renewal!Ground
  <2>3. QED
    BY <2>1, <2>2 DEF RotationsCounted
<1>8. OnItsWay'
  BY <1>1 DEF OnItsWay
<1>9. GoodUnlessExcused'
  <2> SUFFICES ASSUME ~excused
               PROVE  /\ row.open /\ cookie' # Renewal!NoToken /\ Good(cookie)'
                      /\ \A p \in PageRequests :
                            flight'[p].pc # "clear" /\ (flight'[p].pc = "sent" => Good(flight[p].token)')
    BY DEF GoodUnlessExcused
  <2>1. row.open /\ cookie' # Renewal!NoToken /\ Good(cookie)'
    BY <1>1 DEF GoodUnlessExcused, Good
  <2>2. ASSUME NEW p \in PageRequests PROVE flight'[p].pc # "clear" /\ (flight'[p].pc = "sent" => Good(flight[p].token)')
    BY <1>1, <2>2 DEF GoodUnlessExcused, Good, Renewal!Ground
  <2>3. QED
    BY <2>1, <2>2
<1>10. QED
  BY <1>2, <1>5, <1>6, <1>7, <1>8, <1>9

LEMMA ReceiveHolds == ASSUME RenewalInv, NEW r \in PageRequests, Renewal!Receive(r) PROVE RenewalInv'
<1>1. /\ flight[r].pc \in {"set", "access", "clear", "keep"} /\ Flies(r)
      /\ flight' = [flight EXCEPT ![r] = Renewal!Ground]
      /\ UNCHANGED <<row, expiries, rotations, lost, excused>>
      /\ flight[r].pc = "set" => flight[r].new = rotations
  BY DEF Renewal!Receive, Renewal!Become, Flies, Renewal!Ground, RenewalInv, RenewalTypes, FlightKept
<1>2. \/ cookie' = cookie /\ access' = access /\ ~Answers(r)
      \/ cookie' = cookie /\ access' = TRUE /\ ~Answers(r)
      \/ cookie' = rotations /\ access' = TRUE /\ Answers(r)
      \/ cookie' = Renewal!NoToken /\ access' = FALSE /\ excused
  BY <1>1 DEF Renewal!Receive, Answers, RenewalInv, GoodUnlessExcused
<1>3. QED
  BY <1>1, <1>2, LandHolds

LEMMA LoseHolds == ASSUME RenewalInv, NEW r \in PageRequests, Renewal!Lose(r) PROVE RenewalInv'
<1>1. /\ Flies(r) /\ flight' = [flight EXCEPT ![r] = Renewal!Ground]
      /\ lost' = (lost \/ Answers(r))
      /\ UNCHANGED <<row, cookie, access, expiries, rotations, excused>>
  BY DEF Renewal!Lose, Renewal!Become, Flies, Answers
<1>2. QED
  BY <1>1, LandHolds

\* The row's grace ends, or the session: what was good by it has its excuse.
LEMMA EndGraceHolds == ASSUME RenewalInv, Renewal!EndGrace PROVE RenewalInv'
<1> USE DEF RenewalInv
<1>1. /\ row' = [row EXCEPT !.grace = FALSE]
      /\ excused' = (excused \/ cookie = row.prev \/ \E r \in Renewal!InFlight : flight[r].token = row.prev)
      /\ UNCHANGED <<cookie, access, flight, expiries, rotations, lost>>
  BY DEF Renewal!EndGrace
<1>2. /\ row' \in [refresh : Nat, prev : Int, grace : BOOLEAN, open : BOOLEAN]
      /\ row'.refresh = row.refresh /\ row'.prev = row.prev /\ row'.open = row.open /\ row'.grace = FALSE
      /\ row.prev = rotations - 1
  BY <1>1 DEF RenewalTypes
<1>3. RenewalTypes'
  <2>1. \A r \in PageRequests : FlightKept(flight[r])'
    BY <1>1 DEF RenewalTypes, FlightKept
  <2>2. QED
    BY <1>1, <1>2, <2>1 DEF RenewalTypes
<1>4. OneAnswer' /\ Unanswered' /\ Behind' /\ RotationsCounted' /\ OnItsWay'
  BY <1>1, <1>2 DEF OneAnswer, Unanswered, Behind, RotationsCounted, OnItsWay, Answers, Flies
<1>5. GoodUnlessExcused'
  <2> SUFFICES ASSUME ~excused'
               PROVE  /\ row'.open /\ cookie # Renewal!NoToken /\ cookie = rotations
                      /\ \A r \in PageRequests :
                            flight[r].pc # "clear" /\ (flight[r].pc = "sent" => flight[r].token = rotations)
    BY <1>1 DEF GoodUnlessExcused, Good
  <2>1. /\ row.open /\ cookie # Renewal!NoToken /\ Good(cookie) /\ cookie # rotations - 1
        /\ \A r \in PageRequests :
              flight[r].pc # "clear" /\ (flight[r].pc = "sent" => Good(flight[r].token))
    BY <1>1, <1>2 DEF GoodUnlessExcused
  <2>2. ASSUME NEW r \in PageRequests, flight[r].pc = "sent" PROVE flight[r].token # rotations - 1
    <3>1. r \in Renewal!InFlight
      BY <2>2 DEF Renewal!InFlight, Renewal!Ground
    <3>2. QED
      BY <1>1, <1>2, <3>1
  <2>3. QED
    BY <1>2, <2>1, <2>2 DEF Good
<1>6. QED
  BY <1>3, <1>4, <1>5

LEMMA EndSessionHolds == ASSUME RenewalInv, Renewal!EndSession PROVE RenewalInv'
<1> USE DEF RenewalInv
<1>1. /\ row' = [row EXCEPT !.open = FALSE] /\ excused' = TRUE
      /\ UNCHANGED <<cookie, access, flight, expiries, rotations, lost>>
  BY DEF Renewal!EndSession
<1>2. /\ row' \in [refresh : Nat, prev : Int, grace : BOOLEAN, open : BOOLEAN]
      /\ row'.refresh = row.refresh /\ row'.prev = row.prev /\ row'.open = FALSE
  BY <1>1 DEF RenewalTypes
<1>3. RenewalTypes'
  <2>1. \A r \in PageRequests : FlightKept(flight[r])'
    BY <1>1 DEF RenewalTypes, FlightKept
  <2>2. QED
    BY <1>1, <1>2, <2>1 DEF RenewalTypes
<1>4. OneAnswer' /\ Unanswered' /\ Behind' /\ RotationsCounted' /\ OnItsWay' /\ GoodUnlessExcused'
  BY <1>1, <1>2 DEF OneAnswer, Unanswered, Behind, RotationsCounted, OnItsWay, GoodUnlessExcused, Answers, Flies
<1>5. QED
  BY <1>3, <1>4

LEMMA RenewalAlone == part = "renewal" /\ [Next]_vars => [Renewal!Next]_renewalVars
<1>1. ASSUME part = "renewal", Next PROVE [Renewal!Next]_renewalVars
  BY <1>1 DEF Next, RenewalStep, FactorStep, ConnectedStep, PoolStep, CacheStep, SavedStep,
     OutboxStep, StripeStep, SchemaStep, PolicyStep, CalendarStep, GeneratedStep,
     MergeStep, DevStep, ModelStep, UploadStep, LifeStep, DecimalStep
<1>2. ASSUME UNCHANGED vars PROVE UNCHANGED renewalVars
  BY <1>2 DEF vars, state, renewalVars
<1>3. QED
  BY <1>1, <1>2

RenewalRuns == part = "renewal" => RenewalInv

LEMMA RenewalHolds == RenewalRuns /\ [Next]_vars => RenewalRuns'
<1>1. ASSUME RenewalInv, Renewal!Next PROVE RenewalInv'
  BY <1>1, ExpireAccessHolds, EndGraceHolds, EndSessionHolds, SendHolds, FindHolds,
     RefreshFailHolds, RotateHolds, RenewHolds, SessionCheckHolds, ReceiveHolds, LoseHolds DEF Renewal!Next
<1>2. ASSUME RenewalInv, UNCHANGED renewalVars PROVE RenewalInv'
  BY <1>2 DEF renewalVars, RenewalInv, RenewalTypes, FlightKept, OneAnswer, Unanswered, Behind,
     RotationsCounted, OnItsWay, GoodUnlessExcused, Good, Answers, Flies
<1>3. QED
  BY <1>1, <1>2, RenewalAlone, OnePart DEF RenewalRuns

\* However many requests of a page renew at once, in whatever order their replies come and
\* whichever are lost, a browser is signed out for a reason only; with every reply in and
\* none lost it holds the current token; and an expiry makes one rotation.
THEOREM SessionsKept == Spec => []SessionKept
<1>1. Init => RenewalRuns
  BY RenewalBegins DEF Init, RenewalRuns
<1>2. RenewalRuns => SessionKept
  <2> SUFFICES ASSUME RenewalInv PROVE Renewal!SessionKept
    BY DEF SessionKept, RenewalRuns
  <2>1. row.refresh = rotations /\ (\A r \in PageRequests : Answers(r) => r \in Renewal!InFlight)
    BY DEF RenewalInv, RenewalTypes, Answers, Renewal!InFlight, Renewal!Ground
  <2>2. Renewal!HoldsCurrent
    BY <2>1 DEF Renewal!HoldsCurrent, RenewalInv, RotationsCounted, OnItsWay
  <2>3. Renewal!SignedOutForAReason
    BY DEF Renewal!SignedOutForAReason, RenewalInv, GoodUnlessExcused
  <2>4. QED
    BY <2>2, <2>3 DEF Renewal!SessionKept
<1>3. QED
  BY <1>1, <1>2, RenewalHolds, PTL DEF Spec

-----------------------------------------------------------------------------
(* A connected account.                                                    *)

connection == x1
live == x2
refreshing == x3
caller == x4
grants == x5
renewable == x6
stranded == x7
connectedVars == <<x1, x2, x3, x4, x5, x6, x7>>
USE DEF connection, live, refreshing, caller, grants, renewable, stranded

Connects == connection # NoConnection
Holds(q) == caller[q].pc \in {"have", "refresh", "put", "keep", "revoke"}
Held(q) == caller[q].grant

\* A refresh token is of a grant given.
GrantKept(g) == g.id \in 1..MaxGrants /\ g.id <= grants /\ g.token \in Nat /\ g.token # 0
CallerKept(c) ==
    \/ c = Connected!NoCall
    \/ c.pc \in {"wait", "mark", "end", "delete", "lapsed"}
    \/ /\ c.pc \in {"have", "refresh", "put", "keep", "revoke"}
       /\ GrantKept(c.grant) /\ c.grant \in [id : Nat, token : Nat]

ConnectedTypes ==
    /\ Connects => GrantKept(connection)
    /\ live \in [1..MaxGrants -> Nat]
    /\ grants \in 0..MaxGrants
    /\ caller = [q \in Callers |-> caller[q]]
    /\ \A q \in Callers : CallerKept(caller[q])
    /\ \A g \in 1..MaxGrants : g > grants => live[g] = 0

\* No token is ahead of the provider's.
NoneAhead ==
    /\ Connects /\ live[connection.id] # 0 => connection.token <= live[connection.id]
    /\ \A q \in Callers : Holds(q) /\ live[Held(q).id] # 0 => Held(q).token <= live[Held(q).id]

\* A renewal still to be stored is the newest, and nobody else has its token: no second
\* renewal overtakes it.
NewestAlone == \A q \in Callers : caller[q].pc = "put" /\ live[Held(q).id] # 0 =>
    /\ Held(q).token = live[Held(q).id]
    /\ Connects /\ connection.id = Held(q).id => connection.token < Held(q).token
    /\ \A p \in Callers : p # q /\ Holds(p) /\ Held(p).id = Held(q).id => Held(p).token < Held(q).token

\* A new grant is its caller's alone until it is stored.
NewGrantAlone == \A q \in Callers : caller[q].pc = "keep" =>
    /\ live[Held(q).id] \in {0, Held(q).token}
    /\ Connects => connection.id # Held(q).id
    /\ \A p \in Callers : p # q /\ Holds(p) => Held(p).id # Held(q).id

StoredWorks == Connects =>
    \/ live[connection.id] \in {0, connection.token}
    \/ connection.id \in stranded
    \/ \E q \in Callers : caller[q].pc = "put" /\ Held(q).id = connection.id

ConnectedInv == ConnectedTypes /\ NoneAhead /\ NewestAlone /\ NewGrantAlone /\ StoredWorks

LEMMA GrantsBound == MaxGrants \in Nat
  BY PartsAssumption

LEMMA ConnectedBegins == Connected!Init => ConnectedInv
<1> SUFFICES ASSUME Connected!Init PROVE ConnectedInv
  OBVIOUS
<1> USE GrantsBound DEF Connected!Init, Connected!NoCall, Connected!GrantIds
<1>1. ConnectedTypes
  BY DEF ConnectedTypes, Connects, CallerKept
<1>2. NoneAhead /\ NewestAlone /\ NewGrantAlone /\ StoredWorks
  BY DEF NoneAhead, NewestAlone, NewGrantAlone, StoredWorks, Connects, Holds
<1>3. QED
  BY <1>1, <1>2 DEF ConnectedInv

\* A caller goes on to a stage that stores nothing; meanwhile the row may be marked or go,
\* and the provider may withdraw a grant.
LEMMA MoveHolds ==
    ASSUME ConnectedInv, NEW q \in Callers, NEW c,
           caller' = [caller EXCEPT ![q] = c],
           \/ c = Connected!NoCall
           \/ c.pc \in {"wait", "mark", "end", "delete", "lapsed"}
           \/ /\ c.pc \in {"have", "refresh", "revoke"}
              /\ \/ caller[q].pc \in {"have", "refresh", "revoke"} /\ c.grant = caller[q].grant
                 \/ Connects /\ c.grant = [id |-> connection.id, token |-> connection.token],
           caller[q].pc = "put" => caller[q].grant.id \in stranded',
           Connects' => Connects /\ connection'.id = connection.id /\ connection'.token = connection.token,
           live' \in [1..MaxGrants -> Nat],
           \A g \in 1..MaxGrants : live'[g] \in {0, live[g]},
           stranded \subseteq stranded', grants' = grants
    PROVE  ConnectedInv'
<1> USE DEF ConnectedInv, Connected!NoCall
<1>1. /\ caller'[q] = c
      /\ \A p \in Callers : p # q => caller'[p] = caller[p]
      /\ caller' = [p \in Callers |-> caller'[p]]
      /\ CallerKept(caller[q])
  BY DEF ConnectedTypes
<1>2. Holds(q)' => GrantKept(c.grant) /\ c.grant \in [id : Nat, token : Nat]
  BY <1>1 DEF ConnectedTypes, CallerKept, GrantKept, Holds
<1>3. ConnectedTypes'
  <2>1. CallerKept(caller[q])'
    BY <1>1, <1>2 DEF CallerKept, GrantKept, Holds
  <2>2. \A p \in Callers : p # q => CallerKept(caller[p])'
    BY <1>1 DEF ConnectedTypes, CallerKept, GrantKept
  <2>3. \A p \in Callers : CallerKept(caller[p])'
    BY <2>1, <2>2
  <2>4. (Connects => GrantKept(connection))'
    BY DEF ConnectedTypes, GrantKept
  <2>5. \A g \in 1..MaxGrants : g > grants' => live'[g] = 0
    BY DEF ConnectedTypes
  <2>6. QED
    BY <1>1, <2>3, <2>4, <2>5 DEF ConnectedTypes
<1>4. \A p \in Callers : Holds(p)' =>
        \/ /\ Holds(p) /\ Held(p)' = Held(p)
           /\ (caller'[p].pc \in {"put", "keep"} <=> caller[p].pc \in {"put", "keep"})
        \/ /\ Connects /\ Held(p)'.id = connection.id /\ Held(p)'.token = connection.token
           /\ caller'[p].pc \notin {"put", "keep"}
  BY <1>1 DEF Holds, Held
<1>5. \A p \in Callers : caller'[p].pc \in {"put", "keep"} => p # q /\ caller'[p] = caller[p] /\ Holds(p)
  BY <1>1 DEF Holds
<1>6. \A p \in Callers : Holds(p) => Held(p).id \in 1..MaxGrants /\ Held(p).token \in Nat
  BY DEF ConnectedTypes, CallerKept, GrantKept, Holds, Held
<1>7. Connects => connection.id \in 1..MaxGrants /\ connection.token \in Nat
  BY DEF ConnectedTypes, GrantKept
<1>8. live \in [1..MaxGrants -> Nat]
  BY DEF ConnectedTypes
<1>9. NoneAhead'
  BY <1>4, <1>6, <1>7, <1>8 DEF NoneAhead
<1>10. NewestAlone'
  BY <1>4, <1>5, <1>6, <1>7, <1>8 DEF NewestAlone, Held
<1>11. NewGrantAlone'
  BY <1>4, <1>5, <1>6, <1>7, <1>8 DEF NewGrantAlone, Held
<1>12. StoredWorks'
  BY <1>1, <1>6, <1>7, <1>8 DEF StoredWorks, Held
<1>13. QED
  BY <1>3, <1>9, <1>10, <1>11, <1>12

\* Callers go, and the provider may withdraw a grant.
LEMMA DropHolds ==
    ASSUME ConnectedInv,
           caller' = [p \in Callers |-> caller'[p]],
           \A p \in Callers :
               \/ caller'[p] = caller[p]
               \/ /\ caller'[p] = Connected!NoCall
                  /\ caller[p].pc = "put" => caller[p].grant.id \in stranded',
           live' \in [1..MaxGrants -> Nat],
           \A g \in 1..MaxGrants : live'[g] \in {0, live[g]},
           stranded \subseteq stranded', UNCHANGED <<connection, grants>>
    PROVE  ConnectedInv'
<1> USE DEF ConnectedInv, Connected!NoCall
<1>1. ConnectedTypes'
  <2>1. \A p \in Callers : CallerKept(caller[p])'
    BY DEF ConnectedTypes, CallerKept, GrantKept
  <2>2. (Connects => GrantKept(connection))'
    BY DEF ConnectedTypes, GrantKept, Connects
  <2>3. \A g \in 1..MaxGrants : g > grants' => live'[g] = 0
    BY DEF ConnectedTypes
  <2>4. QED
    BY <2>1, <2>2, <2>3 DEF ConnectedTypes
<1>2. \A p \in Callers : caller'[p].pc # "idle" => caller'[p] = caller[p]
  OBVIOUS
<1>3. \A p \in Callers : Holds(p) => Held(p).id \in 1..MaxGrants /\ Held(p).token \in Nat
  BY DEF ConnectedTypes, CallerKept, GrantKept, Holds, Held
<1>4. Connects => connection.id \in 1..MaxGrants /\ connection.token \in Nat
  BY DEF ConnectedTypes, GrantKept
<1>5. live \in [1..MaxGrants -> Nat]
  BY DEF ConnectedTypes
<1>6. /\ \A p \in Callers : Holds(p)' => Holds(p) /\ Held(p)' = Held(p)
      /\ \A p \in Callers : caller'[p].pc \in {"put", "keep"} => caller'[p] = caller[p] /\ Holds(p)
      /\ Connects' = Connects
  BY <1>2 DEF Holds, Held, Connects
<1>9. NoneAhead'
  BY <1>3, <1>4, <1>5, <1>6 DEF NoneAhead
<1>10. NewestAlone'
  BY <1>3, <1>4, <1>5, <1>6 DEF NewestAlone, Held
<1>11. NewGrantAlone'
  BY <1>3, <1>4, <1>5, <1>6 DEF NewGrantAlone, Held
<1>7. StoredWorks'
  BY <1>3, <1>4, <1>5 DEF StoredWorks, Held, Connects
<1>8. QED
  BY <1>1, <1>7, <1>9, <1>10, <1>11

\* Renew, when the provider knows the token: nobody has the new one but the caller, unless
\* the reply is lost.
LEMMA RenewsHolds ==
    ASSUME ConnectedInv, NEW q \in Callers, NEW c,
           caller[q].pc = "refresh", caller' = [caller EXCEPT ![q] = c],
           live[Held(q).id] = Held(q).token,
           live' = [live EXCEPT ![Held(q).id] = Held(q).token + 1],
           \/ /\ c.pc = "put" /\ c.grant = [id |-> Held(q).id, token |-> Held(q).token + 1]
              /\ stranded' = stranded
           \/ c.pc = "end" /\ stranded' = stranded \cup {Held(q).id},
           UNCHANGED <<connection, grants>>
    PROVE  ConnectedInv'
<1> USE DEF ConnectedInv
<1>1. /\ caller'[q] = c
      /\ \A p \in Callers : p # q => caller'[p] = caller[p]
      /\ caller' = [p \in Callers |-> caller'[p]]
  BY DEF ConnectedTypes
<1>2. /\ Holds(q) /\ GrantKept(Held(q)) /\ Held(q).id \in 1..MaxGrants /\ Held(q).token \in Nat \ {0}
      /\ live \in [1..MaxGrants -> Nat]
  BY DEF ConnectedTypes, CallerKept, GrantKept, Holds, Held, Connected!NoCall
<1>3. /\ live'[Held(q).id] = Held(q).token + 1
      /\ \A g \in 1..MaxGrants : g # Held(q).id => live'[g] = live[g]
      /\ live' \in [1..MaxGrants -> Nat]
  BY <1>2
<1>4. \A p \in Callers : Holds(p) => Held(p).id \in 1..MaxGrants /\ Held(p).token \in Nat
  BY DEF ConnectedTypes, CallerKept, GrantKept, Holds, Held, Connected!NoCall
<1>5. Connects => connection.id \in 1..MaxGrants /\ connection.token \in Nat
  BY DEF ConnectedTypes, GrantKept
<1>6. ConnectedTypes'
  <2>1. CallerKept(caller[q])'
    BY <1>1, <1>2 DEF CallerKept, GrantKept
  <2>2. \A p \in Callers : p # q => CallerKept(caller[p])'
    BY <1>1 DEF ConnectedTypes, CallerKept, GrantKept
  <2>3. (Connects => GrantKept(connection))'
    BY DEF ConnectedTypes, GrantKept, Connects
  <2>4. \A g \in 1..MaxGrants : g > grants' => live'[g] = 0
    BY <1>2, <1>3 DEF ConnectedTypes, GrantKept
  <2>5. QED
    BY <1>1, <1>3, <2>1, <2>2, <2>3, <2>4 DEF ConnectedTypes
<1>7. /\ \A p \in Callers : p # q => Held(p)' = Held(p) /\ (Holds(p)' = Holds(p))
      /\ Connects' = Connects
  BY <1>1 DEF Held, Holds, Connects
<1>8. Holds(q)' => /\ c.pc = "put" /\ Held(q)'.id = Held(q).id /\ Held(q)'.token = Held(q).token + 1
  BY <1>1 DEF Held, Holds
<1>9. NoneAhead'
  BY <1>2, <1>3, <1>4, <1>5, <1>7, <1>8 DEF NoneAhead
<1>10. \A p \in Callers : caller[p].pc = "put" => p # q /\ Held(p).id # Held(q).id
  BY <1>2 DEF NewestAlone
<1>11. NewestAlone'
  BY <1>1, <1>2, <1>3, <1>4, <1>5, <1>7, <1>8, <1>9, <1>10 DEF NewestAlone, NoneAhead, Holds
<1>12. \A p \in Callers : caller[p].pc = "keep" => p # q /\ Held(p).id # Held(q).id
  BY <1>2 DEF NewGrantAlone
<1>13. NewGrantAlone'
  BY <1>1, <1>2, <1>3, <1>4, <1>7, <1>8, <1>12 DEF NewGrantAlone, Holds
<1>14. StoredWorks'
  BY <1>1, <1>2, <1>3, <1>5, <1>7, <1>10 DEF StoredWorks, Held
<1>15. QED
  BY <1>6, <1>9, <1>11, <1>13, <1>14

\* Put and Keep store the newest token of the grant, which nobody else can renew before.
LEMMA StoresHolds ==
    ASSUME ConnectedInv, NEW q \in Callers, NEW pc \in {"idle", "end"},
           caller[q].pc \in {"put", "keep"}, caller' = [caller EXCEPT ![q] = [pc |-> pc]],
           connection'.id = Held(q).id, connection'.token = Held(q).token,
           UNCHANGED <<live, grants, stranded>>
    PROVE  ConnectedInv'
<1> USE DEF ConnectedInv
<1>1. /\ \A p \in Callers : p # q => caller'[p] = caller[p]
      /\ caller'[q] = [pc |-> pc] /\ ~Holds(q)'
      /\ caller' = [p \in Callers |-> caller'[p]]
  BY DEF ConnectedTypes, Holds, Connected!NoCall
<1>2. Holds(q) /\ GrantKept(Held(q)) /\ Held(q).id \in 1..MaxGrants /\ Held(q).token \in Nat \ {0}
  BY DEF ConnectedTypes, CallerKept, GrantKept, Holds, Held, Connected!NoCall
<1>3. connection'.id = Held(q).id /\ connection'.token = Held(q).token
  OBVIOUS
<1>4. \A p \in Callers : Holds(p) => Held(p).id \in 1..MaxGrants /\ Held(p).token \in Nat
  BY DEF ConnectedTypes, CallerKept, GrantKept, Holds, Held, Connected!NoCall
<1>5. ConnectedTypes'
  <2>1. CallerKept(caller[q])'
    BY <1>1 DEF CallerKept, Connected!NoCall
  <2>2. \A p \in Callers : p # q => CallerKept(caller[p])'
    BY <1>1 DEF ConnectedTypes, CallerKept, GrantKept
  <2>3. GrantKept(connection)'
    BY <1>2, <1>3 DEF GrantKept
  <2>4. QED
    BY <1>1, <2>1, <2>2, <2>3 DEF ConnectedTypes
<1>6. \A p \in Callers : Holds(p)' => p # q /\ Holds(p) /\ Held(p)' = Held(p)
  BY <1>1 DEF Held, Holds
<1>7. live \in [1..MaxGrants -> Nat]
  BY DEF ConnectedTypes
<1>8. live[Held(q).id] \in {0, Held(q).token}
  BY DEF NewestAlone, NewGrantAlone
<1>9. \A p \in Callers : p # q /\ Holds(p) /\ Held(p).id = Held(q).id /\ live[Held(q).id] # 0
          => caller[q].pc = "put" /\ Held(p).token < Held(q).token
  BY DEF NewestAlone, NewGrantAlone
<1>10. \A p \in Callers : caller'[p].pc \in {"put", "keep"} => p # q /\ caller'[p] = caller[p] /\ Holds(p) /\ Held(p)' = Held(p)
  BY <1>1, <1>6 DEF Holds, Held
<1>11. NoneAhead'
  BY <1>3, <1>4, <1>6, <1>7, <1>8, <1>2 DEF NoneAhead
<1>12. NewestAlone'
  BY <1>2, <1>3, <1>4, <1>6, <1>7, <1>9, <1>10 DEF NewestAlone
<1>13. NewGrantAlone'
  BY <1>2, <1>3, <1>4, <1>6, <1>10 DEF NewGrantAlone
<1>14. StoredWorks'
  BY <1>3, <1>8 DEF StoredWorks
<1>15. QED
  BY <1>5, <1>11, <1>12, <1>13, <1>14

\* Connect: a grant that nobody had.
LEMMA ConnectHolds == ASSUME ConnectedInv, NEW q \in Callers, Connected!Connect(q) PROVE ConnectedInv'
<1> USE DEF ConnectedInv
<1> DEFINE new == grants + 1
<1>1. /\ caller' = [caller EXCEPT ![q] = [pc |-> "keep", grant |-> [id |-> new, token |-> 1]]]
      /\ live' = [live EXCEPT ![new] = 1] /\ grants' = new /\ grants < MaxGrants
      /\ UNCHANGED <<connection, stranded>> /\ caller[q] = Connected!NoCall
  BY DEF Connected!Connect, Connected!Go
<1>2. /\ grants \in Nat /\ new = grants + 1 /\ new \in 1..MaxGrants
      /\ live \in [1..MaxGrants -> Nat]
  BY <1>1, GrantsBound DEF ConnectedTypes
<1>3. /\ caller'[q] = [pc |-> "keep", grant |-> [id |-> new, token |-> 1]]
      /\ \A p \in Callers : p # q => caller'[p] = caller[p]
      /\ caller' = [p \in Callers |-> caller'[p]]
  BY <1>1 DEF ConnectedTypes
<1> HIDE DEF new
<1>4. /\ live'[new] = 1
      /\ \A g \in 1..MaxGrants : g # new => live'[g] = live[g]
      /\ live' \in [1..MaxGrants -> Nat]
  BY <1>1, <1>2
<1>5. \A p \in Callers : Holds(p) => Held(p).id \in 1..MaxGrants /\ Held(p).id # new /\ Held(p).token \in Nat
  <2> SUFFICES ASSUME NEW p \in Callers, Holds(p)
               PROVE  Held(p).id \in 1..MaxGrants /\ Held(p).id # new /\ Held(p).token \in Nat
    OBVIOUS
  <2>1. CallerKept(caller[p])
    BY DEF ConnectedTypes
  <2>2. GrantKept(Held(p))
    BY <2>1 DEF CallerKept, Holds, Held, Connected!NoCall
  <2>3. QED
    BY <1>2, <2>2 DEF GrantKept
<1>6. Connects => connection.id \in 1..MaxGrants /\ connection.token \in Nat /\ connection.id # new
  BY <1>2 DEF ConnectedTypes, GrantKept
<1>7. Connects' = Connects
  BY <1>1 DEF Connects
<1>8. ConnectedTypes'
  <2>1. CallerKept(caller[q])'
    BY <1>1, <1>2, <1>3 DEF CallerKept, GrantKept
  <2>2. \A p \in Callers : p # q => CallerKept(caller[p])'
    <3>1. \A g : GrantKept(g) => GrantKept(g)'
      BY <1>1, <1>2, GrantsBound DEF GrantKept
    <3>2. QED
      BY <1>3, <3>1 DEF ConnectedTypes, CallerKept
  <2>3. (Connects => GrantKept(connection))'
    <3>1. connection' = connection /\ grants' = grants + 1 /\ grants \in Nat
      BY <1>1, <1>2
    <3>2. Connects => GrantKept(connection)
      BY DEF ConnectedTypes
    <3>3. QED
      BY <1>7, <3>1, <3>2 DEF GrantKept
  <2>4. \A g \in 1..MaxGrants : g > grants' => live'[g] = 0
    BY <1>1, <1>2, <1>4 DEF ConnectedTypes
  <2>5. grants' \in 0..MaxGrants
    BY <1>1, <1>2
  <2>6. QED
    BY <1>3, <1>4, <2>1, <2>2, <2>3, <2>4, <2>5 DEF ConnectedTypes
<1>9. /\ \A p \in Callers : p # q => Held(p)' = Held(p) /\ (Holds(p)' = Holds(p))
      /\ Held(q)' = [id |-> new, token |-> 1]
  BY <1>3 DEF Held, Holds
<1>10. NoneAhead'
  BY <1>1, <1>4, <1>5, <1>6, <1>7, <1>9 DEF NoneAhead
<1>11. /\ \A p \in Callers : caller'[p].pc = "put" =>
            p # q /\ caller[p].pc = "put" /\ Holds(p) /\ Held(p)' = Held(p)
      /\ \A p \in Callers : p # q /\ caller'[p].pc = "keep" =>
            caller[p].pc = "keep" /\ Holds(p) /\ Held(p)' = Held(p)
  BY <1>3 DEF Holds, Held
<1>12. NewestAlone'
  <2> SUFFICES ASSUME NEW p \in Callers, caller'[p].pc = "put", live'[Held(p)'.id] # 0
               PROVE  /\ Held(p)'.token = live'[Held(p)'.id]
                      /\ Connects' /\ connection'.id = Held(p)'.id => connection'.token < Held(p)'.token
                      /\ \A r \in Callers : r # p /\ Holds(r)' /\ Held(r)'.id = Held(p)'.id
                            => Held(r)'.token < Held(p)'.token
    BY DEF NewestAlone
  <2>1. caller[p].pc = "put" /\ p # q /\ Holds(p) /\ Held(p)' = Held(p) /\ live[Held(p).id] # 0
    BY <1>4, <1>5, <1>11
  <2>2. Held(p).token = live'[Held(p).id]
    BY <1>4, <1>5, <2>1 DEF NewestAlone
  <2>3. Connects' /\ connection'.id = Held(p).id => connection'.token < Held(p).token
    BY <1>1, <1>7, <2>1 DEF NewestAlone
  <2>4. \A r \in Callers : r # p /\ Holds(r)' /\ Held(r)'.id = Held(p).id => Held(r)'.token < Held(p).token
    BY <1>5, <1>9, <2>1 DEF NewestAlone
  <2>5. QED
    BY <2>1, <2>2, <2>3, <2>4
<1>15. NewGrantAlone'
  BY <1>1, <1>4, <1>5, <1>6, <1>7, <1>9, <1>11 DEF NewGrantAlone
<1>13. StoredWorks'
  <2>1. \A p \in Callers : caller[p].pc = "put" => p # q
    BY <1>1 DEF Connected!NoCall
  <2>2. QED
    BY <1>1, <1>3, <1>4, <1>6, <1>7, <1>9, <2>1 DEF StoredWorks
<1>14. QED
  BY <1>8, <1>10, <1>12, <1>13, <1>15

LEMMA TokenMoves == ASSUME ConnectedInv, NEW q \in Callers, Connected!Token(q) PROVE ConnectedInv'
<1>1. PICK c : c = [pc |-> "have", grant |-> [id |-> connection.id, token |-> connection.token]]
  OBVIOUS
<1>2. /\ caller' = [caller EXCEPT ![q] = c] /\ Connects
      /\ UNCHANGED <<connection, live, stranded, grants>> /\ caller[q] = Connected!NoCall
  BY <1>1 DEF Connected!Token, Connected!Go, Connected!Read, Connects
<1>3. c.pc = "have" /\ c.grant = [id |-> connection.id, token |-> connection.token]
  BY <1>1
<1>4. live \in [1..MaxGrants -> Nat] /\ caller[q].pc # "put"
  BY <1>2 DEF ConnectedInv, ConnectedTypes, Connected!NoCall
<1>5. QED
  BY <1>2, <1>3, <1>4, MoveHolds DEF Connects

\* A step of a caller that reads no token and stores none.
LEMMA PassHolds ==
    ASSUME ConnectedInv, NEW q \in Callers, NEW c, c \in {"idle", "wait", "mark", "end", "delete", "lapsed"},
           caller' = [caller EXCEPT ![q] = [pc |-> c]],
           caller[q].pc = "put" => caller[q].grant.id \in stranded',
           \/ UNCHANGED connection
           \/ connection' = NoConnection
           \/ Connects /\ connection'.id = connection.id /\ connection'.token = connection.token,
           \/ live' = live
           \/ \E id \in 1..MaxGrants : live' = [live EXCEPT ![id] = 0],
           stranded \subseteq stranded', grants' = grants
    PROVE  ConnectedInv'
<1>1. PICK m : m = [pc |-> c]
  OBVIOUS
<1>2. m = Connected!NoCall \/ m.pc \in {"wait", "mark", "end", "delete", "lapsed"}
  BY <1>1 DEF Connected!NoCall
<1>3. live \in [1..MaxGrants -> Nat]
  BY DEF ConnectedInv, ConnectedTypes
<1>4. live' \in [1..MaxGrants -> Nat] /\ \A g \in 1..MaxGrants : live'[g] \in {0, live[g]}
  <2>1. CASE live' = live
    BY <1>3, <2>1
  <2>2. ASSUME NEW id \in 1..MaxGrants, live' = [live EXCEPT ![id] = 0]
        PROVE  live' \in [1..MaxGrants -> Nat] /\ \A g \in 1..MaxGrants : live'[g] \in {0, live[g]}
    BY <1>3, <2>2
  <2>3. QED
    BY <2>1, <2>2
<1>5. Connects' => Connects /\ connection'.id = connection.id /\ connection'.token = connection.token
  BY DEF Connects
<1>6. caller' = [caller EXCEPT ![q] = m]
  BY <1>1
<1>7. QED
  BY <1>2, <1>4, <1>5, <1>6, MoveHolds

\* A caller keeps or reads a token on its way to a stage that stores none.
LEMMA ReadHolds ==
    ASSUME ConnectedInv, NEW q \in Callers, NEW pc \in {"refresh", "revoke"}, NEW g,
           caller' = [caller EXCEPT ![q] = [pc |-> pc, grant |-> g]],
           caller[q].pc # "put",
           \/ caller[q].pc = "have" /\ g = caller[q].grant
           \/ Connects /\ g = [id |-> connection.id, token |-> connection.token],
           UNCHANGED <<connection, live, stranded, grants>>
    PROVE  ConnectedInv'
<1>1. PICK m : m = [pc |-> pc, grant |-> g]
  OBVIOUS
<1>2. m.pc \in {"have", "refresh", "revoke"} /\ m.grant = g /\ caller' = [caller EXCEPT ![q] = m]
  BY <1>1
<1>3. live \in [1..MaxGrants -> Nat]
  BY DEF ConnectedInv, ConnectedTypes
<1>4. QED
  BY <1>2, <1>3, MoveHolds DEF Connects

LEMMA AtIs == \A q \in Callers : \A pc : Connected!At(q, pc) => caller[q].pc = pc
  BY DEF Connected!At

LEMMA RefreshGrantHolds == ASSUME ConnectedInv, NEW q \in Callers, Connected!Refresh(q) PROVE ConnectedInv'
<1>1. caller[q].pc = "have" /\ UNCHANGED <<connection, live, stranded, grants>>
  BY AtIs DEF Connected!Refresh
<1>2. CASE caller' = [caller EXCEPT ![q] = [pc |-> "wait"]]
  BY <1>1, <1>2, PassHolds
<1>3. CASE caller' = [caller EXCEPT ![q] = [pc |-> "refresh", grant |-> caller[q].grant]]
  BY <1>1, <1>3, ReadHolds
<1>4. QED
  BY <1>2, <1>3 DEF Connected!Refresh, Connected!Turn, Connected!Go

LEMMA RenewGrantHolds == ASSUME ConnectedInv, NEW q \in Callers, Connected!Renew(q) PROVE ConnectedInv'
<1>1. caller[q].pc = "refresh" /\ UNCHANGED <<connection, grants>>
  BY AtIs DEF Connected!Renew
<1>2. CASE ~Connected!Current(caller[q].grant)
  <2>1. caller' = [caller EXCEPT ![q] = [pc |-> "mark"]] /\ UNCHANGED <<live, stranded>>
    BY <1>2 DEF Connected!Renew, Connected!Turn
  <2>2. QED
    BY <1>1, <2>1, PassHolds
<1>3. CASE Connected!Current(caller[q].grant)
  <2>1. Held(q).token \in Nat /\ Held(q).id \in 1..MaxGrants /\ live \in [1..MaxGrants -> Nat]
    BY <1>1 DEF ConnectedInv, ConnectedTypes, CallerKept, GrantKept, Held, Connected!NoCall
  <2>2. live[Held(q).id] = Held(q).token /\ live' = [live EXCEPT ![Held(q).id] = Held(q).token + 1]
    BY <1>3 DEF Connected!Renew, Connected!Current, Held
  <2>3. CASE Connected!Turn(q, "end") /\ stranded' = stranded \cup {caller[q].grant.id}
    <3>1. PICK c : c = [pc |-> "end"]
      OBVIOUS
    <3>2. c.pc = "end" /\ caller' = [caller EXCEPT ![q] = c] /\ stranded' = stranded \cup {Held(q).id}
      BY <2>3, <3>1 DEF Connected!Turn, Held
    <3>3. QED
      BY <1>1, <2>2, <3>2, RenewsHolds
  <2>4. CASE Connected!Go(q, "put", [caller[q].grant EXCEPT !.token = @ + 1]) /\ UNCHANGED stranded
    <3>1. PICK c : c = [pc |-> "put", grant |-> [caller[q].grant EXCEPT !.token = @ + 1]]
      OBVIOUS
    <3>2. Held(q) \in [id : Nat, token : Nat]
      BY <1>1 DEF ConnectedInv, ConnectedTypes, CallerKept, Held, Connected!NoCall
    <3>3. c.pc = "put" /\ c.grant = [id |-> Held(q).id, token |-> Held(q).token + 1]
      BY <3>1, <3>2 DEF Held
    <3>4. caller' = [caller EXCEPT ![q] = c] /\ stranded' = stranded
      BY <2>4, <3>1 DEF Connected!Go
    <3>5. QED
      BY <1>1, <2>2, <3>3, <3>4, RenewsHolds
  <2>5. QED
    BY <1>3, <2>3, <2>4 DEF Connected!Renew
<1>4. QED
  BY <1>2, <1>3

LEMMA PutHolds == ASSUME ConnectedInv, NEW q \in Callers, Connected!Put(q) PROVE ConnectedInv'
<1>1. /\ caller[q].pc = "put" /\ UNCHANGED <<live, grants>>
      /\ caller' = [caller EXCEPT ![q] = [pc |-> "end"]]
  BY AtIs DEF Connected!Put, Connected!Turn
<1>2. CASE Connected!Store(caller[q].grant) /\ UNCHANGED stranded
  <2>1. /\ connection'.id = Held(q).id /\ connection'.token = Held(q).token
        /\ stranded' = stranded
    BY <1>2 DEF Connected!Store, Held
  <2>2. QED
    BY <1>1, <2>1, StoresHolds
<1>3. CASE UNCHANGED connection /\ stranded' = stranded \cup {caller[q].grant.id}
  BY <1>1, <1>3, PassHolds
<1>4. QED
  BY <1>2, <1>3 DEF Connected!Put

LEMMA KeepGrantHolds == ASSUME ConnectedInv, NEW q \in Callers, Connected!Keep(q) PROVE ConnectedInv'
<1>1. /\ caller[q].pc = "keep" /\ UNCHANGED <<live, stranded, grants>>
      /\ caller' = [caller EXCEPT ![q] = [pc |-> "idle"]]
  BY AtIs DEF Connected!Keep, Connected!Finish, Connected!NoCall
<1>2. CASE Connected!Store(caller[q].grant)
  <2>1. connection'.id = Held(q).id /\ connection'.token = Held(q).token
    BY <1>2 DEF Connected!Store, Held
  <2>2. QED
    BY <1>1, <2>1, StoresHolds
<1>3. CASE UNCHANGED connection
  BY <1>1, <1>3, PassHolds
<1>4. QED
  BY <1>2, <1>3 DEF Connected!Keep

LEMMA DisconnectHolds == ASSUME ConnectedInv, NEW q \in Callers, Connected!Disconnect(q) PROVE ConnectedInv'
<1>1. /\ caller[q].pc = "idle" /\ Connects /\ UNCHANGED <<connection, live, stranded, grants>>
  BY DEF Connected!Disconnect, Connected!NoCall, Connects
<1>2. CASE caller' = [caller EXCEPT ![q] = [pc |-> "delete"]]
  BY <1>1, <1>2, PassHolds
<1>3. CASE caller' = [caller EXCEPT ![q] = [pc |-> "revoke", grant |-> Connected!Read]]
  <2>1. PICK g : g = Connected!Read
    OBVIOUS
  <2>2. g = [id |-> connection.id, token |-> connection.token]
    BY <2>1 DEF Connected!Read
  <2>3. caller' = [caller EXCEPT ![q] = [pc |-> "revoke", grant |-> g]]
    BY <1>3, <2>1
  <2>4. QED
    BY <1>1, <2>2, <2>3, ReadHolds
<1>4. QED
  BY <1>2, <1>3 DEF Connected!Disconnect, Connected!Turn, Connected!Go

\* The steps that end a stage.
LEMMA PassesHold ==
    ASSUME ConnectedInv, NEW q \in Callers,
           \/ Connected!RenewFails(q) \/ Connected!MarkReconnect(q) \/ Connected!Unrenewable(q)
           \/ Connected!Lapse(q) \/ Connected!Delete(q) \/ Connected!GiveUp(q)
    PROVE  ConnectedInv'
<1> USE AtIs DEF Connected!Turn, Connected!Finish, Connected!NoCall, Connected!Mark, Connects
<1>0. Connects /\ connection' = [connection EXCEPT !.reconnect = TRUE]
        => connection'.id = connection.id /\ connection'.token = connection.token
  OBVIOUS
<1>1. CASE Connected!RenewFails(q)
  BY <1>1, PassHolds DEF Connected!RenewFails
<1>2. CASE Connected!MarkReconnect(q)
  BY <1>0, <1>2, PassHolds DEF Connected!MarkReconnect
<1>3. CASE Connected!Unrenewable(q)
  <2>1. /\ caller[q].pc = "idle" /\ UNCHANGED <<connection, live, stranded, grants>>
        /\ caller' = [caller EXCEPT ![q] = [pc |-> "lapsed"]]
    BY <1>3 DEF Connected!Unrenewable
  <2>2. QED
    BY <2>1, PassHolds
<1>4. CASE Connected!Lapse(q)
  BY <1>0, <1>4, PassHolds DEF Connected!Lapse
<1>5. CASE Connected!Delete(q)
  BY <1>5, PassHolds DEF Connected!Delete
<1>6. CASE Connected!GiveUp(q)
  BY <1>6, PassHolds DEF Connected!GiveUp
<1>7. QED
  BY <1>1, <1>2, <1>3, <1>4, <1>5, <1>6

LEMMA RevokeHolds == ASSUME ConnectedInv, NEW q \in Callers, Connected!Revoke(q) PROVE ConnectedInv'
<1>1. /\ caller[q].pc = "revoke" /\ UNCHANGED <<connection, stranded, grants>>
      /\ caller' = [caller EXCEPT ![q] = [pc |-> "delete"]]
      /\ live' = live \/ live' = [live EXCEPT ![caller[q].grant.id] = 0]
  BY AtIs DEF Connected!Revoke, Connected!Turn
<1>2. caller[q].grant.id \in 1..MaxGrants
  BY <1>1 DEF ConnectedInv, ConnectedTypes, CallerKept, GrantKept, Connected!NoCall
<1>3. QED
  BY <1>1, <1>2, PassHolds

LEMMA GoneHold ==
    ASSUME ConnectedInv,
           \/ Connected!Withdraw
           \/ \E n \in Processes : Connected!Die(n)
           \/ \E q \in Callers : Connected!EndRefresh(q)
    PROVE  ConnectedInv'
<1>1. /\ live \in [1..MaxGrants -> Nat] /\ caller = [p \in Callers |-> caller[p]]
      /\ live' = live => live' \in [1..MaxGrants -> Nat] /\ \A g \in 1..MaxGrants : live'[g] = live[g]
  BY DEF ConnectedInv, ConnectedTypes
<1>2. CASE Connected!Withdraw
  <2>1. /\ live' \in [1..MaxGrants -> Nat] /\ \A g \in 1..MaxGrants : live'[g] \in {0, live[g]}
        /\ UNCHANGED <<connection, caller, stranded, grants>>
    BY <1>1, <1>2 DEF Connected!Withdraw, Connected!GrantIds
  <2>2. QED
    BY <1>1, <2>1, DropHolds
<1>3. ASSUME NEW n \in Processes, Connected!Die(n) PROVE ConnectedInv'
  <2>1. /\ caller' = [q \in Callers |-> IF q \in {p \in Callers : NodeOf[p] = n} THEN Connected!NoCall ELSE caller[q]]
        /\ stranded' = stranded \cup {caller[q].grant.id : q \in
              {p \in {r \in Callers : NodeOf[r] = n} : Connected!At(p, "put")}}
        /\ UNCHANGED <<connection, live, grants>>
    BY <1>3 DEF Connected!Die
  <2>2. \A p \in Callers : caller'[p] = caller[p] \/ (caller'[p] = Connected!NoCall /\ NodeOf[p] = n)
    BY <2>1
  <2>3. \A p \in Callers : NodeOf[p] = n /\ caller[p].pc = "put" => caller[p].grant.id \in stranded'
    BY <2>1 DEF Connected!At, Connected!NoCall
  <2>4. caller' = [p \in Callers |-> caller'[p]] /\ stranded \subseteq stranded'
    BY <2>1
  <2>5. QED
    BY <1>1, <2>1, <2>2, <2>3, <2>4, DropHolds
<1>4. ASSUME NEW q \in Callers, Connected!EndRefresh(q) PROVE ConnectedInv'
  <2>1. /\ Connected!At(q, "end") /\ UNCHANGED <<connection, live, stranded, grants>>
        /\ caller' = [p \in Callers |->
              IF p \in {r \in Callers : NodeOf[r] = NodeOf[q] /\ Connected!At(r, "wait")} \cup {q}
              THEN Connected!NoCall ELSE caller[p]]
    BY <1>4 DEF Connected!EndRefresh
  <2>2. \A p \in Callers : caller'[p] = caller[p] \/ (caller'[p] = Connected!NoCall /\ caller[p].pc # "put")
    BY <2>1, AtIs
  <2>3. caller' = [p \in Callers |-> caller'[p]]
    BY <2>1
  <2>4. QED
    BY <1>1, <2>1, <2>2, <2>3, DropHolds
<1>5. QED
  BY <1>2, <1>3, <1>4

LEMMA ConnectedAlone == part = "connected" /\ [Next]_vars => [Connected!Next]_connectedVars
<1>1. ASSUME part = "connected", Next PROVE [Connected!Next]_connectedVars
  BY <1>1 DEF Next, RenewalStep, FactorStep, ConnectedStep, PoolStep, CacheStep, SavedStep,
     OutboxStep, StripeStep, SchemaStep, PolicyStep, CalendarStep, GeneratedStep,
     MergeStep, DevStep, ModelStep, UploadStep, LifeStep, DecimalStep
<1>2. ASSUME UNCHANGED vars PROVE UNCHANGED connectedVars
  BY <1>2 DEF vars, state, connectedVars
<1>3. QED
  BY <1>1, <1>2

ConnectedRuns == part = "connected" => ConnectedInv

LEMMA ConnectedHolds == ConnectedRuns /\ [Next]_vars => ConnectedRuns'
<1>1. ASSUME ConnectedInv, Connected!Next PROVE ConnectedInv'
  BY <1>1, TokenMoves, RefreshGrantHolds, RenewGrantHolds, PutHolds, KeepGrantHolds, ConnectHolds, DisconnectHolds,
     PassesHold, RevokeHolds, GoneHold DEF Connected!Next
<1>2. ASSUME ConnectedInv, UNCHANGED connectedVars PROVE ConnectedInv'
  BY <1>2 DEF connectedVars, ConnectedInv, ConnectedTypes, CallerKept, GrantKept, NoneAhead,
     NewestAlone, NewGrantAlone, StoredWorks, Connects, Holds, Held
<1>3. QED
  BY <1>1, <1>2, ConnectedAlone, OnePart DEF ConnectedRuns

\* However many nodes renew a grant at once, while the user connects again, disconnects or
\* withdraws it and processes die, the refresh token stored is the provider's current one,
\* but for a renewal on its way to the store or lost.
THEOREM StoredGrantsWork == Spec => []StoredGrantWorks
<1>1. Init => ConnectedRuns
  BY ConnectedBegins DEF Init, ConnectedRuns
<1>2. ConnectedRuns => StoredGrantWorks
  BY DEF StoredGrantWorks, Connected!StoredGrantWorks, Connected!At, Connected!NoCall, ConnectedRuns, ConnectedInv,
     StoredWorks, Connects, Held
<1>3. QED
  BY <1>1, <1>2, ConnectedHolds, PTL DEF Spec

-----------------------------------------------------------------------------
(* The second factor.                                                      *)

factor == x1
now == x2
issued == x3
checks == x4
spent == x5
twice == x6
tries == x7
enablings == x8
factorVars == <<x1, x2, x3, x4, x5, x6, x7, x8>>
USE DEF factor, now, issued, checks, spent, twice, tries, enablings

BackupCodes == [set : Nat, nr : Int]
TimeCodes == [secret : Nat, step : Int]
FactorRows == [secret : Nat, last : Int, backup : SUBSET BackupCodes, enabled : BOOLEAN,
               failures : Nat, failing : BOOLEAN]
There == factor # NoFactor

\* A row that a check has read with the secret of today is on, and the factor that is on
\* has the secret it read, unless one has been enabled since; a setup under way began while
\* no factor was on, with the same exception.
RowRead == [pc : {"step", "backup", "fail", "passed"},
            code : BackupCodes \cup TimeCodes \cup {Factor!NoCode}, row : FactorRows, enablings : Nat]
SameFactor(c) ==
    /\ c.enablings <= enablings
    /\ c.enablings = enablings /\ There /\ factor.enabled => factor.secret = c.row.secret
CheckKept(c) ==
    \/ c = Factor!Idle
    \/ /\ c \in RowRead
       /\ SameFactor(c)
       /\ c.row.secret <= issued.secret
       /\ There /\ factor.secret = c.row.secret => factor.enabled
       /\ c.pc = "step" => c.code \in TimeCodes /\ c.code.secret = c.row.secret
       /\ c.pc = "backup" => c.code \in c.row.backup
    \/ /\ c \in [pc : {"upsert"}, enablings : Nat]
       /\ c.enablings <= enablings
       /\ c.enablings = enablings => ~(There /\ factor.enabled)
    \/ c \in [pc : {"enable"}, code : TimeCodes] /\ c.code.secret <= issued.secret

FactorTypes ==
    /\ issued \in [secret : Nat, set : Nat]
    /\ There => /\ factor \in FactorRows /\ factor.secret <= issued.secret
                /\ \A b \in factor.backup : b.set <= issued.set
    /\ checks = [q \in Checks |-> checks[q]]
    /\ tries \in Nat /\ enablings \in Nat
    /\ twice = FALSE

ChecksKept == \A q \in Checks : CheckKept(checks[q])

\* A time code spent is of a step no later than the last one used, a recovery code spent
\* is no longer there, unless the row has another secret by now.
SpentKept ==
    /\ spent \subseteq TimeCodes \cup BackupCodes
    /\ \A c \in spent : c \in TimeCodes =>
          /\ c.secret <= issued.secret
          /\ There /\ c.secret = factor.secret => factor.enabled /\ c.step <= factor.last
    /\ \A c \in spent : c \in BackupCodes =>
          c.set <= issued.set /\ (There => c \notin factor.backup)

FailuresCounted == There => tries = IF factor.failing THEN factor.failures ELSE 0

\* Those whose code is still to be decided on were let in below the limit.
Undecided == {q \in Checks : checks[q].pc \in {"step", "backup", "fail"}}
UndecidedBounded == tries + Cardinality(Undecided) <= MaxFailures + Cardinality(Checks) - 1

FactorInv == FactorTypes /\ ChecksKept /\ SpentKept /\ FailuresCounted /\ UndecidedBounded

LEMMA FactorBounds == IsFiniteSet(Checks) /\ MaxFailures \in Nat \ {0}
  BY PartsAssumption

LEMMA UndecidedFinite ==
    /\ IsFiniteSet(Undecided) /\ Cardinality(Undecided) \in Nat
    /\ Cardinality(Checks) \in Nat /\ Cardinality(Undecided) <= Cardinality(Checks)
<1>1. Undecided \subseteq Checks
  BY DEF Undecided
<1>2. QED
  BY <1>1, FactorBounds, FS_Subset, FS_CardinalityType

LEMMA FactorBegins == Factor!Init => FactorInv
<1> SUFFICES ASSUME Factor!Init PROVE FactorInv
  OBVIOUS
<1> USE DEF Factor!Init, Factor!Idle, There
<1>1. FactorTypes /\ ChecksKept
  BY DEF FactorTypes, ChecksKept, CheckKept
<1>2. SpentKept /\ FailuresCounted
  BY DEF SpentKept, FailuresCounted
<1>3. UndecidedBounded
  <2>1. tries = 0
    OBVIOUS
  <2>2. QED
    BY <2>1, UndecidedFinite, FactorBounds DEF UndecidedBounded
<1>4. QED
  BY <1>1, <1>2, <1>3 DEF FactorInv

\* What leaves the bound.
LEMMA BoundHolds ==
    ASSUME FactorInv, tries' \in Nat,
           \/ tries' < MaxFailures
           \/ tries' <= tries /\ Undecided' \subseteq Undecided
           \/ /\ tries' <= tries + 1
              /\ \E q \in Undecided : Undecided' \subseteq Undecided \ {q}
    PROVE  UndecidedBounded'
<1>1. /\ Cardinality(Undecided') \in Nat /\ Cardinality(Undecided') <= Cardinality(Checks)
      /\ Cardinality(Checks) \in Nat /\ IsFiniteSet(Undecided') /\ MaxFailures \in Nat \ {0}
  <2>1. Undecided' \subseteq Checks
    BY DEF Undecided
  <2>2. QED
    BY <2>1, FactorBounds, FS_Subset, FS_CardinalityType
<1>2. tries \in Nat /\ UndecidedBounded
  BY DEF FactorInv, FactorTypes
<1>3. CASE tries' < MaxFailures
  BY <1>1, <1>3 DEF UndecidedBounded
<1>4. CASE tries' <= tries /\ Undecided' \subseteq Undecided
  <2>1. Cardinality(Undecided') <= Cardinality(Undecided)
    BY <1>4, UndecidedFinite, FS_Subset
  <2>2. QED
    BY <1>1, <1>2, <1>4, <2>1, UndecidedFinite DEF UndecidedBounded
<1>5. ASSUME NEW q \in Undecided, tries' <= tries + 1, Undecided' \subseteq Undecided \ {q}
      PROVE  UndecidedBounded'
  <2>1. Cardinality(Undecided \ {q}) = Cardinality(Undecided) - 1 /\ IsFiniteSet(Undecided \ {q})
    BY <1>5, UndecidedFinite, FS_RemoveElement
  <2>2. Cardinality(Undecided') <= Cardinality(Undecided) - 1
    BY <1>5, <2>1, FS_Subset
  <2>3. QED
    BY <1>1, <1>2, <1>5, <2>2, UndecidedFinite DEF UndecidedBounded
<1>6. QED
  BY <1>3, <1>4, <1>5

\* The row keeps its secret and stays on, goes, or has a new secret.
Follows ==
    /\ issued' \in [secret : Nat, set : Nat]
    /\ issued.secret <= issued'.secret /\ issued.set <= issued'.set
    /\ There' => \/ /\ There /\ factor'.secret = factor.secret
                    /\ factor.enabled => factor'.enabled
                 \/ factor'.secret > issued.secret
    /\ enablings' \in Nat /\ enablings <= enablings'
    /\ enablings' = enablings /\ There' /\ factor'.enabled
          => There /\ factor.enabled /\ factor'.secret = factor.secret

\* A check stays as good as it was while another one acts.
LEMMA OtherKept ==
    ASSUME FactorInv, NEW p \in Checks, checks'[p] = checks[p], Follows
    PROVE  CheckKept(checks[p])'
<1>1. CheckKept(checks[p]) /\ issued.secret \in Nat /\ issued'.secret \in Nat /\ enablings \in Nat
  BY DEF FactorInv, ChecksKept, FactorTypes, Follows
<1>2. CASE checks[p] = Factor!Idle
  BY <1>2 DEF CheckKept, Factor!Idle
<1>3. CASE /\ checks[p] \in RowRead
           /\ SameFactor(checks[p])
           /\ checks[p].row.secret <= issued.secret
           /\ There /\ factor.secret = checks[p].row.secret => factor.enabled
           /\ checks[p].pc = "step" => checks[p].code \in TimeCodes /\ checks[p].code.secret = checks[p].row.secret
           /\ checks[p].pc = "backup" => checks[p].code \in checks[p].row.backup
  <2>1. checks[p].row.secret \in Nat /\ checks[p].enablings \in Nat
    BY <1>3 DEF RowRead, FactorRows
  <2>2. checks[p].row.secret <= issued'.secret
    BY <1>1, <1>3, <2>1 DEF Follows
  <2>3. There' /\ factor'.secret = checks[p].row.secret => factor'.enabled
    BY <1>1, <1>3, <2>1 DEF Follows
  <2>4. SameFactor(checks[p])'
    BY <1>1, <1>3, <2>1 DEF Follows, SameFactor
  <2>5. QED
    BY <1>3, <2>2, <2>3, <2>4 DEF CheckKept
<1>4. CASE /\ checks[p] \in [pc : {"upsert"}, enablings : Nat]
           /\ checks[p].enablings <= enablings
           /\ checks[p].enablings = enablings => ~(There /\ factor.enabled)
  <2>1. checks[p].enablings <= enablings' /\ (checks[p].enablings = enablings' => ~(There' /\ factor'.enabled))
    BY <1>1, <1>4 DEF Follows
  <2>2. QED
    BY <1>4, <2>1 DEF CheckKept
<1>5. CASE checks[p] \in [pc : {"enable"}, code : TimeCodes] /\ checks[p].code.secret <= issued.secret
  <2>1. checks[p].code.secret \in Nat
    BY <1>5 DEF TimeCodes
  <2>2. checks[p].code.secret <= issued'.secret
    BY <1>1, <1>5, <2>1 DEF Follows
  <2>3. QED
    BY <1>5, <2>2 DEF CheckKept
<1>6. QED
  BY <1>1, <1>2, <1>3, <1>4, <1>5 DEF CheckKept

LEMMA CodesApart == \A c : ~(c \in TimeCodes /\ c \in BackupCodes)
<1> SUFFICES ASSUME NEW c, c \in TimeCodes, c \in BackupCodes PROVE FALSE
  OBVIOUS
<1>1. DOMAIN c = {"secret", "step"} /\ DOMAIN c = {"set", "nr"}
  BY DEF TimeCodes, BackupCodes
<1>2. "secret" \in {"secret", "step"} /\ "secret" \notin {"set", "nr"}
  OBVIOUS
<1>3. QED
  BY <1>1, <1>2

LEMMA ChecksHold ==
    ASSUME FactorInv, NEW q \in Checks, NEW c, checks' = [checks EXCEPT ![q] = c],
           CheckKept(checks[q])', Follows
    PROVE  /\ ChecksKept' /\ checks' = [p \in Checks |-> checks'[p]] /\ checks'[q] = c
           /\ \A p \in Checks : p # q => checks'[p] = checks[p]
<1>1. /\ checks' = [p \in Checks |-> checks'[p]] /\ checks'[q] = c
      /\ \A p \in Checks : p # q => checks'[p] = checks[p]
  BY DEF FactorInv, FactorTypes
<1>2. \A p \in Checks : p # q => CheckKept(checks[p])'
  BY <1>1, OtherKept
<1>3. QED
  BY <1>1, <1>2 DEF ChecksKept

\* A check goes on, or ends, and leaves the row.
LEMMA CheckMoves ==
    ASSUME FactorInv, NEW q \in Checks, NEW c, checks' = [checks EXCEPT ![q] = c],
           CheckKept(checks[q])',
           \/ c.pc \notin {"step", "backup", "fail"}
           \/ checks[q].pc \in {"step", "backup", "fail"}
           \/ tries < MaxFailures,
           UNCHANGED <<factor, issued, spent, twice, tries, enablings>>
    PROVE  FactorInv'
<1>1. FactorTypes /\ There' = There
  BY DEF FactorInv, There
<1>2. Follows
  BY <1>1 DEF Follows, FactorTypes
<1>3. /\ ChecksKept' /\ checks' = [p \in Checks |-> checks'[p]] /\ checks'[q] = c
      /\ \A p \in Checks : p # q => checks'[p] = checks[p]
  BY <1>2, ChecksHold
<1>4. FactorTypes'
  BY <1>1, <1>3 DEF FactorTypes
<1>5. SpentKept' /\ FailuresCounted'
  BY <1>1 DEF FactorInv, SpentKept, FailuresCounted
<1>6. tries < MaxFailures \/ Undecided' \subseteq Undecided
  BY <1>3 DEF Undecided
<1>7. UndecidedBounded'
  BY <1>1, <1>6, BoundHolds DEF FactorTypes
<1>8. QED
  BY <1>3, <1>4, <1>5, <1>7 DEF FactorInv

LEMMA EndsHold ==
    ASSUME FactorInv, NEW q \in Checks, Factor!End(q),
           UNCHANGED <<factor, issued, spent, twice, tries, enablings>>
    PROVE  FactorInv'
<1>1. PICK c : c = Factor!Idle
  OBVIOUS
<1>2. checks' = [checks EXCEPT ![q] = c] /\ c.pc = "idle"
  BY <1>1 DEF Factor!End, Factor!Idle
<1>3. checks'[q] = Factor!Idle
  BY <1>1, <1>2 DEF FactorInv, FactorTypes
<1>4. CheckKept(checks[q])'
  BY <1>3 DEF CheckKept, Factor!Idle
<1>5. QED
  BY <1>2, <1>4, CheckMoves

LEMMA IsEnabled == Factor!Enabled <=> There /\ factor.enabled
  BY DEF Factor!Enabled, There

\* An admitted check found the row below the limit.
LEMMA ReadFactorHolds == ASSUME FactorInv, NEW q \in Checks, Factor!Look(q) PROVE FactorInv'
<1>1. /\ There /\ factor.enabled /\ ~Factor!Locked
      /\ UNCHANGED <<factor, issued, spent, twice, tries, enablings>>
  BY IsEnabled DEF Factor!Look
<1>2. factor \in FactorRows /\ factor.secret <= issued.secret /\ There'
  BY <1>1 DEF FactorInv, FactorTypes, There
<1>3. tries < MaxFailures
  <2>1. CASE factor.failing
    <3>1. factor.failures < MaxFailures
      BY <1>1, <1>2, <2>1, FactorBounds DEF Factor!Locked, FactorRows
    <3>2. QED
      BY <1>1, <2>1, <3>1 DEF FactorInv, FailuresCounted
  <2>2. CASE ~factor.failing
    BY <1>1, <2>2, FactorBounds DEF FactorInv, FailuresCounted
  <2>3. QED
    BY <2>1, <2>2
<1>4. PICK code \in Factor!Typed :
        checks' = [checks EXCEPT ![q] =
            CASE Factor!VerifyTOTP(factor.secret, code, factor.last) ->
                    Factor!Read("step", code)
              [] code \in factor.backup -> Factor!Read("backup", code)
              [] OTHER -> Factor!Read("fail", Factor!NoCode)]
  BY DEF Factor!Look
<1>5. PICK pc \in {"step", "backup", "fail"}, k \in BackupCodes \cup TimeCodes \cup {Factor!NoCode} :
        /\ checks' = [checks EXCEPT ![q] = Factor!Read(pc, k)]
        /\ pc = "step" => k \in TimeCodes /\ k.secret = factor.secret
        /\ pc = "backup" => k \in factor.backup
  <2>1. CASE Factor!VerifyTOTP(factor.secret, code, factor.last)
    <3>1. code \in TimeCodes /\ code.secret = factor.secret
      BY <2>1 DEF Factor!VerifyTOTP, TimeCodes, Factor!TimeCode, Factor!Secrets
    <3>2. code \notin factor.backup
      BY <1>2, <3>1, CodesApart DEF FactorRows
    <3>3. checks' = [checks EXCEPT ![q] = Factor!Read("step", code)]
      BY <1>4, <2>1, <3>2
    <3>4. QED
      BY <3>1, <3>3
  <2>2. CASE ~Factor!VerifyTOTP(factor.secret, code, factor.last) /\ code \in factor.backup
    <3>1. code \in BackupCodes
      BY <1>2, <2>2 DEF FactorRows
    <3>2. checks' = [checks EXCEPT ![q] = Factor!Read("backup", code)]
      BY <1>4, <2>2
    <3>3. QED
      BY <2>2, <3>1, <3>2
  <2>3. CASE ~Factor!VerifyTOTP(factor.secret, code, factor.last) /\ code \notin factor.backup
    <3>1. checks' = [checks EXCEPT ![q] = Factor!Read("fail", Factor!NoCode)]
      BY <1>4, <2>3
    <3>2. QED
      BY <3>1
  <2>4. QED
    BY <2>1, <2>2, <2>3
<1>6. PICK c : c = Factor!Read(pc, k)
  OBVIOUS
<1>7. checks' = [checks EXCEPT ![q] = c] /\ checks'[q] = c
  BY <1>5, <1>6 DEF FactorInv, FactorTypes
<1>8. /\ c \in RowRead
      /\ c.row = factor /\ c.pc = pc /\ c.code = k /\ c.enablings = enablings
  BY <1>2, <1>6 DEF Factor!Read, RowRead, FactorInv, FactorTypes
<1>11. SameFactor(checks[q])'
  BY <1>1, <1>2, <1>7, <1>8 DEF SameFactor, FactorInv, FactorTypes
<1>9. CheckKept(checks[q])'
  BY <1>1, <1>2, <1>5, <1>7, <1>8, <1>11 DEF CheckKept
<1>10. QED
  BY <1>1, <1>3, <1>7, <1>9, CheckMoves

\* What a check with a row is.
RowCheck(q) ==
    /\ checks[q] \in RowRead
    /\ SameFactor(checks[q])
    /\ checks[q].row.secret <= issued.secret
    /\ There /\ factor.secret = checks[q].row.secret => factor.enabled

LEMMA RowChecks ==
    ASSUME FactorInv, NEW q \in Checks, checks[q].pc \in {"step", "backup", "fail", "passed"}
    PROVE  /\ RowCheck(q)
           /\ checks[q].pc = "step" => checks[q].code \in TimeCodes /\ checks[q].code.secret = checks[q].row.secret
           /\ checks[q].pc = "backup" => checks[q].code \in checks[q].row.backup
  BY DEF FactorInv, ChecksKept, CheckKept, RowCheck, Factor!Idle

LEMMA LoseRaceHolds ==
    ASSUME FactorInv, NEW q \in Checks, checks[q].pc \in {"step", "backup"}, Factor!LoseRace(q),
           UNCHANGED <<issued, enablings>>
    PROVE  FactorInv'
<1>1. RowCheck(q)
  BY RowChecks
<1>2. PICK c : c = [[checks[q] EXCEPT !.pc = "fail"] EXCEPT !.code = Factor!NoCode]
  OBVIOUS
<1>3. checks' = [checks EXCEPT ![q] = c] /\ UNCHANGED <<factor, spent, twice, tries>>
  BY <1>2 DEF Factor!LoseRace, FactorInv, FactorTypes
<1>4. /\ c \in RowRead
      /\ c.pc = "fail" /\ c.row = checks[q].row /\ c.enablings = checks[q].enablings
  BY <1>1, <1>2 DEF RowCheck, RowRead
<1>5. checks'[q] = c /\ There' = There
  BY <1>3 DEF FactorInv, FactorTypes, There
<1>6. CheckKept(checks[q])'
  BY <1>1, <1>3, <1>4, <1>5 DEF CheckKept, RowCheck, SameFactor
<1>7. QED
  BY <1>3, <1>6, CheckMoves

\* A right code is spent once: the row, whatever it is by now, records it.
LEMMA PassesOnce ==
    ASSUME FactorInv, NEW q \in Checks, There,
           NEW last \in Int, NEW backup \in SUBSET BackupCodes,
           factor' = [secret |-> factor.secret, last |-> last, backup |-> backup,
                      enabled |-> factor.enabled, failures |-> 0, failing |-> FALSE],
           factor.last <= last, backup \subseteq factor.backup,
           \/ /\ checks[q].pc = "step" /\ last = checks[q].code.step
              /\ factor.last < checks[q].code.step
           \/ /\ checks[q].pc = "backup" /\ backup = factor.backup \ {checks[q].code}
              /\ factor.backup = checks[q].row.backup,
           spent' = spent \cup {checks[q].code},
           twice' = (twice \/ (checks[q].code \in spent /\ checks[q].row.secret = factor.secret)),
           tries' = 0, Factor!Turn(q, "passed"), UNCHANGED <<issued, enablings>>
    PROVE  FactorInv'
<1> DEFINE code == checks[q].code
<1>1. FactorTypes /\ ChecksKept /\ SpentKept /\ factor \in FactorRows /\ twice = FALSE
  BY DEF FactorInv, FactorTypes
<1>2. /\ RowCheck(q)
      /\ checks[q].pc = "step" => code \in TimeCodes /\ code.secret = checks[q].row.secret
      /\ checks[q].pc = "backup" => code \in checks[q].row.backup
  BY RowChecks
<1>3. /\ factor'.secret = factor.secret /\ factor'.last = last /\ factor'.backup = backup
      /\ factor'.enabled = factor.enabled /\ factor'.failures = 0 /\ factor'.failing = FALSE
      /\ factor' \in FactorRows
  BY <1>1 DEF FactorRows
<1>4. checks[q].pc = "backup" => code \in BackupCodes /\ code \in factor.backup
  BY <1>1, <1>2 DEF FactorRows
<1>5. Follows
  BY <1>1, <1>3 DEF Follows, FactorTypes
<1>6. PICK c : c = [checks[q] EXCEPT !.pc = "passed"]
  OBVIOUS
<1>7. checks' = [checks EXCEPT ![q] = c] /\ checks'[q] = c
  BY <1>1, <1>6 DEF Factor!Turn, FactorTypes
<1>8. /\ c \in RowRead
      /\ c.pc = "passed" /\ c.row = checks[q].row /\ c.enablings = checks[q].enablings
  BY <1>2, <1>6 DEF RowCheck, RowRead
<1>17. SameFactor(checks[q])'
  BY <1>1, <1>2, <1>3, <1>7, <1>8 DEF SameFactor, RowCheck
<1>9. CheckKept(checks[q])'
  BY <1>2, <1>3, <1>7, <1>8, <1>17 DEF CheckKept, RowCheck
<1>10. ChecksKept' /\ checks' = [p \in Checks |-> checks'[p]]
  BY <1>5, <1>7, <1>9, ChecksHold
<1>11. twice' = FALSE
  <2> SUFFICES ASSUME code \in spent, checks[q].row.secret = factor.secret PROVE FALSE
    BY <1>1
  <2>1. CASE checks[q].pc = "step"
    <3>1. code.step <= factor.last /\ code.step \in Int /\ factor.last \in Int
      BY <1>1, <1>2, <2>1 DEF SpentKept, TimeCodes, FactorRows
    <3>2. QED
      BY <2>1, <3>1
  <2>2. CASE checks[q].pc = "backup"
    BY <1>1, <1>4, <2>2 DEF SpentKept
  <2>3. QED
    BY <2>1, <2>2
<1>12. FactorTypes'
  BY <1>1, <1>3, <1>10, <1>11 DEF FactorTypes
<1>13. SpentKept'
  <2>1. code \in TimeCodes \cup BackupCodes
    BY <1>2, <1>4
  <2>2. \A k \in spent : k \in TimeCodes => k.secret <= issued.secret
           /\ (k.secret = factor.secret => factor.enabled /\ k.step <= last)
    <3>1. \A k \in spent : k \in TimeCodes => k.step \in Int
      BY DEF TimeCodes
    <3>2. factor.last \in Int
      BY <1>1 DEF FactorRows
    <3>3. QED
      BY <1>1, <3>1, <3>2 DEF SpentKept
  <2>3. \A k \in spent : k \in BackupCodes => k.set <= issued.set /\ k \notin backup
    BY <1>1 DEF SpentKept
  <2>4. code \in TimeCodes => /\ code.secret <= issued.secret
                              /\ (code.secret = factor.secret => factor.enabled /\ code.step <= last)
    <3>1. code \in TimeCodes => checks[q].pc = "step"
      BY <1>4, CodesApart
    <3>2. code \in TimeCodes => code.step \in Int
      BY DEF TimeCodes
    <3>3. QED
      BY <1>2, <3>1, <3>2, CodesApart, <1>4 DEF RowCheck
  <2>5. code \in BackupCodes => code.set <= issued.set /\ code \notin backup
    BY <1>1, <1>2, <1>4, CodesApart DEF FactorTypes
  <2>6. spent' = spent \cup {code} /\ issued' = issued /\ spent \subseteq TimeCodes \cup BackupCodes
    BY <1>1 DEF SpentKept
  <2> HIDE DEF code
  <2>7. spent' \subseteq TimeCodes \cup BackupCodes
    BY <2>1, <2>6
  <2>8. \A k \in spent' : k \in TimeCodes => k.secret <= issued'.secret
           /\ (k.secret = factor.secret => factor.enabled /\ k.step <= last)
    BY <2>2, <2>4, <2>6
  <2>9. \A k \in spent' : k \in BackupCodes => k.set <= issued'.set /\ k \notin backup
    BY <2>3, <2>5, <2>6
  <2>10. QED
    BY <1>3, <2>7, <2>8, <2>9 DEF SpentKept
<1>14. FailuresCounted'
  BY <1>3 DEF FailuresCounted
<1>15. UndecidedBounded'
  BY FactorBounds, BoundHolds
<1>16. QED
  BY <1>10, <1>12, <1>13, <1>14, <1>15 DEF FactorInv

LEMMA UseStepHolds == ASSUME FactorInv, NEW q \in Checks, Factor!UseStep(q) PROVE FactorInv'
<1>1. checks[q].pc = "step" /\ UNCHANGED <<issued, enablings>>
  BY DEF Factor!UseStep
<1>2. CASE There /\ factor.last < checks[q].code.step
  <2>1. Factor!Pass(q, [factor EXCEPT !.last = checks[q].code.step])
    BY <1>2 DEF Factor!UseStep, There
  <2>2. factor \in FactorRows /\ checks[q].code.step \in Int
    BY <1>1, <1>2, RowChecks DEF FactorInv, FactorTypes, TimeCodes
  <2>3. factor' = [secret |-> factor.secret, last |-> checks[q].code.step, backup |-> factor.backup,
                   enabled |-> factor.enabled, failures |-> 0, failing |-> FALSE]
    BY <2>1, <2>2 DEF Factor!Pass, FactorRows
  <2>4. [factor EXCEPT !.last = checks[q].code.step].secret = factor.secret
    BY <2>2 DEF FactorRows
  <2>5. factor.last <= checks[q].code.step /\ factor.backup \in SUBSET BackupCodes
    BY <1>2, <2>2 DEF FactorRows
  <2>6. /\ spent' = spent \cup {checks[q].code} /\ tries' = 0 /\ Factor!Turn(q, "passed")
        /\ twice' = (twice \/ (checks[q].code \in spent /\ checks[q].row.secret = factor.secret))
    BY <2>1, <2>4 DEF Factor!Pass
  <2>7. QED
    BY <1>1, <1>2, <2>2, <2>3, <2>5, <2>6, PassesOnce
<1>3. CASE ~(There /\ factor.last < checks[q].code.step)
  BY <1>1, <1>3, LoseRaceHolds DEF Factor!UseStep, There
<1>4. QED
  BY <1>2, <1>3

LEMMA UseBackupHolds == ASSUME FactorInv, NEW q \in Checks, Factor!UseBackup(q) PROVE FactorInv'
<1>1. checks[q].pc = "backup" /\ UNCHANGED <<issued, enablings>>
  BY DEF Factor!UseBackup
<1>2. CASE There /\ factor.backup = checks[q].row.backup
  <2> DEFINE left == factor.backup \ {checks[q].code}
  <2>1. Factor!Pass(q, [factor EXCEPT !.backup = @ \ {checks[q].code}])
    BY <1>2 DEF Factor!UseBackup, There
  <2>2. factor \in FactorRows
    BY <1>2 DEF FactorInv, FactorTypes
  <2>3. factor' = [secret |-> factor.secret, last |-> factor.last, backup |-> left,
                   enabled |-> factor.enabled, failures |-> 0, failing |-> FALSE]
    BY <2>1, <2>2 DEF Factor!Pass, FactorRows
  <2>4. [factor EXCEPT !.backup = @ \ {checks[q].code}].secret = factor.secret
    BY <2>2 DEF FactorRows
  <2>5. factor.last \in Int /\ factor.last <= factor.last /\ left \in SUBSET BackupCodes /\ left \subseteq factor.backup
    BY <2>2 DEF FactorRows
  <2>6. /\ spent' = spent \cup {checks[q].code} /\ tries' = 0 /\ Factor!Turn(q, "passed")
        /\ twice' = (twice \/ (checks[q].code \in spent /\ checks[q].row.secret = factor.secret))
    BY <2>1, <2>4 DEF Factor!Pass
  <2> HIDE DEF left
  <2>7. left = factor.backup \ {checks[q].code}
    BY DEF left
  <2>8. QED
    BY <1>1, <1>2, <2>3, <2>5, <2>6, <2>7, PassesOnce
<1>3. CASE ~(There /\ factor.backup = checks[q].row.backup)
  BY <1>1, <1>3, LoseRaceHolds DEF Factor!UseBackup, There
<1>4. QED
  BY <1>2, <1>3

\* A step that makes the row another, or none, and ends its check.
LEMMA RowEndsCheck ==
    ASSUME FactorInv, NEW q \in Checks, Factor!End(q), Follows, FactorTypes', SpentKept',
           FailuresCounted',
           tries' = 0 \/ tries' = tries \/ (tries' = tries + 1 /\ checks[q].pc = "fail")
    PROVE  FactorInv'
<1>1. PICK c : c = Factor!Idle
  OBVIOUS
<1>2. checks' = [checks EXCEPT ![q] = c] /\ checks'[q] = Factor!Idle
  BY <1>1 DEF Factor!End, FactorInv, FactorTypes
<1>3. CheckKept(checks[q])'
  BY <1>2 DEF CheckKept, Factor!Idle
<1>4. ChecksKept' /\ (\A p \in Checks : p # q => checks'[p] = checks[p])
  BY <1>2, <1>3, ChecksHold
<1>5. /\ Undecided' \subseteq Undecided
      /\ checks[q].pc = "fail" => q \in Undecided /\ Undecided' \subseteq Undecided \ {q}
  BY <1>2, <1>4 DEF Undecided, Factor!Idle
<1>6. tries' \in Nat /\ tries \in Nat
  BY DEF FactorInv, FactorTypes
<1>7. UndecidedBounded'
  BY <1>5, <1>6, FactorBounds, BoundHolds
<1>8. QED
  BY <1>4, <1>7 DEF FactorInv

LEMMA EndKeepsTypes ==
    ASSUME FactorInv, NEW q \in Checks, Factor!End(q)
    PROVE  checks' = [p \in Checks |-> checks'[p]]
  BY DEF Factor!End, FactorInv, FactorTypes

LEMMA FactorFailedHolds == ASSUME FactorInv, NEW q \in Checks, Factor!FactorFailed(q) PROVE FactorInv'
<1>1. /\ checks[q].pc = "fail" /\ Factor!End(q)
      /\ UNCHANGED <<issued, spent, twice, enablings>>
  BY DEF Factor!FactorFailed
<1>2. FactorTypes /\ SpentKept /\ FailuresCounted
  BY DEF FactorInv
<1>3. CASE ~There
  <2>1. factor' = factor /\ tries' = 0 /\ ~There'
    BY <1>3 DEF Factor!FactorFailed, There
  <2>2. FactorTypes' /\ SpentKept' /\ FailuresCounted' /\ Follows
    BY <1>1, <1>2, <1>3, <2>1, EndKeepsTypes DEF FactorTypes, SpentKept, FailuresCounted, Follows
  <2>3. QED
    BY <1>1, <2>1, <2>2, RowEndsCheck
<1>4. CASE There
  <2>1. factor \in FactorRows
    BY <1>2, <1>4 DEF FactorTypes
  <2>0. PICK n : n = IF factor.failing THEN factor.failures + 1 ELSE 1
    OBVIOUS
  <2>2. /\ factor' = [factor EXCEPT !.failures = n, !.failing = TRUE]
        /\ tries' = tries + 1 /\ n \in Nat
    BY <1>4, <2>0, <2>1 DEF Factor!FactorFailed, There, FactorRows
  <2>3. /\ factor'.secret = factor.secret /\ factor'.last = factor.last /\ factor'.backup = factor.backup
        /\ factor'.enabled = factor.enabled /\ factor'.failing = TRUE
        /\ factor'.failures = n /\ factor' \in FactorRows
    BY <2>1, <2>2 DEF FactorRows
  <2>4. FactorTypes'
    BY <1>1, <1>2, <1>4, <2>2, <2>3, EndKeepsTypes DEF FactorTypes
  <2>5. SpentKept'
    BY <1>1, <1>2, <1>4, <2>3 DEF SpentKept
  <2>6. FailuresCounted'
    BY <1>2, <1>4, <2>0, <2>2, <2>3 DEF FailuresCounted, FactorTypes
  <2>7. Follows
    BY <1>1, <1>2, <1>4, <2>3 DEF Follows, FactorTypes
  <2>8. QED
    BY <1>1, <2>2, <2>4, <2>5, <2>6, <2>7, RowEndsCheck
<1>5. QED
  BY <1>3, <1>4

LEMMA DisableHolds == ASSUME FactorInv, NEW q \in Checks, Factor!Disable(q) PROVE FactorInv'
<1>1. /\ Factor!End(q) /\ ~There' /\ tries' = 0 /\ UNCHANGED <<issued, spent, twice, enablings>>
  BY DEF Factor!Disable, There
<1>2. FactorTypes /\ SpentKept
  BY DEF FactorInv
<1>3. FactorTypes' /\ Follows
  BY <1>1, <1>2, EndKeepsTypes DEF FactorTypes, Follows
<1>4. SpentKept' /\ FailuresCounted'
  BY <1>1, <1>2 DEF SpentKept, FailuresCounted
<1>5. QED
  BY <1>1, <1>3, <1>4, RowEndsCheck

LEMMA FreshCodes ==
    ASSUME NEW s \in Nat
    PROVE  Factor!Fresh(s) \in SUBSET BackupCodes /\ \A b \in Factor!Fresh(s) : b.set = s
  BY DEF Factor!Fresh, BackupCodes

LEMMA RegenerateHolds == ASSUME FactorInv, NEW q \in Checks, Factor!Regenerate(q) PROVE FactorInv'
<1>1. Factor!End(q) /\ UNCHANGED <<spent, twice, tries, enablings>>
  BY DEF Factor!Regenerate
<1>2. FactorTypes /\ SpentKept /\ FailuresCounted
  BY DEF FactorInv
<1>3. CASE ~There
  <2>1. UNCHANGED <<factor, issued>>
    BY <1>3 DEF Factor!Regenerate, There
  <2>2. QED
    BY <1>1, <2>1, EndsHold
<1>4. CASE There
  <2>1. factor \in FactorRows /\ issued.set \in Nat /\ issued.secret \in Nat
    BY <1>2, <1>4 DEF FactorTypes
  <2>2. PICK fresh : fresh = Factor!Fresh(issued.set + 1)
    OBVIOUS
  <2>3. fresh \in SUBSET BackupCodes /\ \A b \in fresh : b.set = issued.set + 1
    BY <2>1, <2>2, FreshCodes
  <2>4. issued' = [issued EXCEPT !.set = @ + 1] /\ factor' = [factor EXCEPT !.backup = fresh]
    BY <1>4, <2>2 DEF Factor!Regenerate, There
  <2>5. /\ issued'.set = issued.set + 1 /\ issued'.secret = issued.secret
        /\ issued' \in [secret : Nat, set : Nat]
    BY <1>2, <2>4 DEF FactorTypes
  <2>6. /\ factor'.secret = factor.secret /\ factor'.last = factor.last /\ factor'.backup = fresh
        /\ factor'.enabled = factor.enabled /\ factor'.failing = factor.failing
        /\ factor'.failures = factor.failures /\ factor' \in FactorRows
    BY <2>1, <2>3, <2>4 DEF FactorRows
  <2>7. FactorTypes'
    BY <1>1, <1>2, <1>4, <2>1, <2>3, <2>5, <2>6, EndKeepsTypes DEF FactorTypes
  <2>8. SpentKept'
    <3>1. \A k \in spent : k \in BackupCodes => k.set <= issued'.set /\ k \notin fresh
      <4>1. \A k \in BackupCodes : k.set \in Nat
        BY DEF BackupCodes
      <4>2. \A k \in spent : k \in BackupCodes => k.set <= issued.set
        BY <1>2 DEF SpentKept
      <4>3. QED
        BY <2>1, <2>3, <2>5, <4>1, <4>2
    <3>2. QED
      BY <1>1, <1>2, <1>4, <2>5, <2>6, <3>1 DEF SpentKept
  <2>9. FailuresCounted'
    BY <1>1, <1>2, <1>4, <2>6 DEF FailuresCounted
  <2>10. Follows
    BY <1>1, <1>2, <1>4, <2>1, <2>5, <2>6 DEF Follows, FactorTypes
  <2>11. QED
    BY <1>1, <2>7, <2>8, <2>9, <2>10, RowEndsCheck
<1>5. QED
  BY <1>3, <1>4

LEMMA StartSetupHolds == ASSUME FactorInv, NEW q \in Checks, Factor!StartSetup(q) PROVE FactorInv'
<1>1. PICK c : c = [pc |-> "upsert", enablings |-> enablings]
  OBVIOUS
<1>2. /\ checks' = [checks EXCEPT ![q] = c] /\ ~(There /\ factor.enabled)
      /\ UNCHANGED <<factor, issued, spent, twice, tries, enablings>>
  BY <1>1, IsEnabled DEF Factor!StartSetup
<1>3. /\ c \in [pc : {"upsert"}, enablings : Nat] /\ c.enablings = enablings /\ c.pc = "upsert"
      /\ enablings \in Nat /\ checks'[q] = c
  BY <1>1, <1>2 DEF FactorInv, FactorTypes
<1>4. There' = There
  BY <1>2 DEF There
<1>5. CheckKept(checks[q])'
  BY <1>2, <1>3, <1>4 DEF CheckKept
<1>6. QED
  BY <1>2, <1>3, <1>5, CheckMoves

LEMMA SetupHolds == ASSUME FactorInv, NEW q \in Checks, Factor!Setup(q) PROVE FactorInv'
<1>1. /\ Factor!End(q) /\ tries' = 0 /\ UNCHANGED <<spent, twice, enablings>>
      /\ issued' = [issued EXCEPT !.secret = @ + 1]
      /\ factor' = [secret |-> issued.secret + 1, last |-> 0, backup |-> {},
                    enabled |-> FALSE, failures |-> 0, failing |-> FALSE]
  BY DEF Factor!Setup
<1>2. FactorTypes /\ SpentKept /\ issued.secret \in Nat /\ issued.set \in Nat
  BY DEF FactorInv, FactorTypes
<1>3. /\ issued'.secret = issued.secret + 1 /\ issued'.set = issued.set
      /\ issued' \in [secret : Nat, set : Nat]
  BY <1>1, <1>2 DEF FactorTypes
<1>4. /\ factor'.secret = issued.secret + 1 /\ factor'.backup = {} /\ factor'.enabled = FALSE
      /\ factor'.failing = FALSE /\ factor' \in FactorRows
  BY <1>1, <1>2 DEF FactorRows
<1>5. FactorTypes'
  BY <1>1, <1>2, <1>3, <1>4, EndKeepsTypes DEF FactorTypes
<1>6. SpentKept'
  <2>1. \A k \in TimeCodes : k.secret \in Nat
    BY DEF TimeCodes
  <2>2. \A k \in spent : k \in TimeCodes => k.secret <= issued'.secret /\ k.secret # factor'.secret
    BY <1>2, <1>3, <1>4, <2>1 DEF SpentKept
  <2>3. \A k \in spent : k \in BackupCodes => k.set <= issued'.set /\ k \notin factor'.backup
    BY <1>2, <1>3, <1>4 DEF SpentKept
  <2>4. QED
    BY <1>1, <1>2, <2>2, <2>3 DEF SpentKept
<1>7. FailuresCounted'
  BY <1>1, <1>4 DEF FailuresCounted
<1>8. Follows
  BY <1>1, <1>2, <1>3, <1>4 DEF Follows, FactorTypes
<1>9. QED
  BY <1>1, <1>5, <1>6, <1>7, <1>8, RowEndsCheck

LEMMA StartEnableHolds == ASSUME FactorInv, NEW q \in Checks, Factor!StartEnable(q) PROVE FactorInv'
<1>1. PICK code \in Factor!Typed :
        /\ Factor!VerifyTOTP(factor.secret, code, 0) /\ There
        /\ checks' = [checks EXCEPT ![q] = [pc |-> "enable", code |-> code]]
        /\ UNCHANGED <<factor, issued, spent, twice, tries, enablings>>
  BY DEF Factor!StartEnable, There
<1>2. PICK c : c = [pc |-> "enable", code |-> code]
  OBVIOUS
<1>3. code \in TimeCodes /\ code.secret <= issued.secret
  BY <1>1 DEF Factor!VerifyTOTP, TimeCodes, Factor!TimeCode, Factor!Secrets, FactorInv, FactorTypes
<1>4. /\ checks' = [checks EXCEPT ![q] = c] /\ checks'[q] = c /\ c.pc = "enable"
      /\ c \in [pc : {"enable"}, code : TimeCodes] /\ c.code = code
  BY <1>1, <1>2, <1>3 DEF FactorInv, FactorTypes
<1>5. CheckKept(checks[q])'
  BY <1>1, <1>3, <1>4 DEF CheckKept
<1>6. QED
  BY <1>1, <1>4, <1>5, CheckMoves

LEMMA EnableHolds == ASSUME FactorInv, NEW q \in Checks, Factor!Enable(q) PROVE FactorInv'
<1>1. Factor!End(q) /\ UNCHANGED twice /\ checks[q].pc = "enable"
  BY DEF Factor!Enable
<1>2. FactorTypes /\ SpentKept
  BY DEF FactorInv
<1>3. CASE ~(There /\ ~factor.enabled)
  <2>1. UNCHANGED <<factor, issued, spent, tries, enablings>>
    BY <1>3 DEF Factor!Enable, There
  <2>2. QED
    BY <1>1, <2>1, EndsHold
<1>4. CASE There /\ ~factor.enabled
  <2>1. factor \in FactorRows /\ issued.set \in Nat /\ issued.secret \in Nat /\ enablings \in Nat
    BY <1>2, <1>4 DEF FactorTypes
  <2>2. PICK fresh : fresh = Factor!Fresh(issued.set + 1)
    OBVIOUS
  <2>3. fresh \in SUBSET BackupCodes /\ \A b \in fresh : b.set = issued.set + 1
    BY <2>1, <2>2, FreshCodes
  <2>4. PICK code : code = checks[q].code
    OBVIOUS
  <2>5. code \in TimeCodes /\ code.secret <= issued.secret /\ code.step \in Int
    BY <1>1, <2>4 DEF FactorInv, ChecksKept, CheckKept, RowRead, Factor!Idle, TimeCodes
  <2>6. /\ issued' = [issued EXCEPT !.set = @ + 1]
        /\ factor' = [factor EXCEPT !.last = code.step, !.enabled = TRUE, !.backup = fresh,
                                    !.failures = 0, !.failing = FALSE]
        /\ spent' = spent \cup {code} /\ tries' = 0 /\ enablings' = enablings + 1
    BY <1>4, <2>2, <2>4 DEF Factor!Enable, There
  <2>7. /\ issued'.set = issued.set + 1 /\ issued'.secret = issued.secret
        /\ issued' \in [secret : Nat, set : Nat]
    BY <1>2, <2>6 DEF FactorTypes
  <2>8. /\ factor'.secret = factor.secret /\ factor'.last = code.step /\ factor'.backup = fresh
        /\ factor'.enabled = TRUE /\ factor'.failing = FALSE /\ factor' \in FactorRows
    BY <2>1, <2>3, <2>5, <2>6 DEF FactorRows
  <2>9. FactorTypes'
    BY <1>1, <1>2, <1>4, <2>1, <2>3, <2>6, <2>7, <2>8, EndKeepsTypes DEF FactorTypes
  <2>10. SpentKept'
    <3>1. \A k \in spent : k \in TimeCodes => k.secret <= issued.secret /\ k.secret # factor.secret
      BY <1>2, <1>4 DEF SpentKept
    <3>2. \A k \in spent' : k \in TimeCodes => k.secret <= issued'.secret
             /\ (k.secret = factor'.secret => k.step <= factor'.last)
      BY <2>5, <2>6, <2>7, <2>8, <3>1
    <3>3. \A k \in spent : k \in BackupCodes => k.set <= issued.set /\ k.set \in Nat
      BY <1>2 DEF SpentKept, BackupCodes
    <3>4. \A k \in spent' : k \in BackupCodes => k.set <= issued'.set /\ k \notin fresh
      BY <2>1, <2>3, <2>5, <2>6, <2>7, <3>3, CodesApart
    <3>5. spent' \subseteq TimeCodes \cup BackupCodes
      BY <1>2, <2>5, <2>6 DEF SpentKept
    <3>6. QED
      BY <2>8, <3>2, <3>4, <3>5 DEF SpentKept
  <2>11. FailuresCounted'
    BY <2>6, <2>8 DEF FailuresCounted
  <2>12. Follows
    BY <1>1, <1>2, <1>4, <2>1, <2>6, <2>7, <2>8 DEF Follows, FactorTypes
  <2>13. QED
    BY <1>1, <2>6, <2>9, <2>10, <2>11, <2>12, RowEndsCheck
<1>5. QED
  BY <1>3, <1>4

\* The window ends; time goes on.
LEMMA TimeHolds == ASSUME FactorInv, Factor!EndWindow \/ Factor!Tick PROVE FactorInv'
<1>1. FactorTypes /\ ChecksKept /\ SpentKept /\ FailuresCounted
  BY DEF FactorInv
<1>2. CASE Factor!Tick
  <2>1. UNCHANGED <<factor, issued, checks, spent, twice, tries, enablings>>
    BY <1>2 DEF Factor!Tick
  <2>2. Follows /\ FactorTypes'
    BY <1>1, <2>1 DEF Follows, FactorTypes, There
  <2>3. ChecksKept'
    BY <2>1, <2>2, OtherKept DEF ChecksKept
  <2>4. SpentKept' /\ FailuresCounted'
    BY <1>1, <2>1 DEF SpentKept, FailuresCounted, There
  <2>5. Undecided' = Undecided
    BY <2>1 DEF Undecided
  <2>6. UndecidedBounded'
    BY <1>1, <2>1, <2>5, BoundHolds DEF FactorTypes
  <2>7. QED
    BY <2>2, <2>3, <2>4, <2>6 DEF FactorInv
<1>3. CASE Factor!EndWindow
  <2>1. /\ UNCHANGED <<issued, checks, spent, twice, enablings>> /\ There /\ tries' = 0
        /\ factor' = [factor EXCEPT !.failing = FALSE]
    BY <1>3 DEF Factor!EndWindow, There
  <2>2. /\ factor'.secret = factor.secret /\ factor'.last = factor.last /\ factor'.backup = factor.backup
        /\ factor'.enabled = factor.enabled /\ factor'.failing = FALSE /\ factor' \in FactorRows
    BY <1>1, <2>1 DEF FactorRows, FactorTypes
  <2>3. Follows /\ FactorTypes'
    BY <1>1, <2>1, <2>2 DEF Follows, FactorTypes
  <2>4. ChecksKept'
    BY <2>1, <2>3, OtherKept DEF ChecksKept
  <2>5. SpentKept'
    BY <1>1, <2>1, <2>2 DEF SpentKept
  <2>6. FailuresCounted'
    BY <2>1, <2>2 DEF FailuresCounted
  <2>7. UndecidedBounded'
    BY <2>1, FactorBounds, BoundHolds
  <2>8. QED
    BY <2>3, <2>4, <2>5, <2>6, <2>7 DEF FactorInv
<1>4. QED
  BY <1>2, <1>3

LEMMA FactorAlone == part = "factor" /\ [Next]_vars => [Factor!Next]_factorVars
<1>1. ASSUME part = "factor", Next PROVE [Factor!Next]_factorVars
  BY <1>1 DEF Next, RenewalStep, FactorStep, ConnectedStep, PoolStep, CacheStep, SavedStep,
     OutboxStep, StripeStep, SchemaStep, PolicyStep, CalendarStep, GeneratedStep,
     MergeStep, DevStep, ModelStep, UploadStep, LifeStep, DecimalStep
<1>2. ASSUME UNCHANGED vars PROVE UNCHANGED factorVars
  BY <1>2 DEF vars, state, factorVars
<1>3. QED
  BY <1>1, <1>2

LEMMA FactorSteps == ASSUME FactorInv, [Factor!Next]_factorVars PROVE FactorInv'
<1>1. CASE Factor!Next
  <2>1. ASSUME NEW q \in Checks, Factor!Done(q) \/ Factor!Abort(q) PROVE FactorInv'
    BY <2>1, EndsHold DEF Factor!Done, Factor!Abort
  <2>2. QED
    BY <1>1, <2>1, ReadFactorHolds, UseStepHolds, UseBackupHolds, FactorFailedHolds, DisableHolds, RegenerateHolds,
       StartSetupHolds, SetupHolds, StartEnableHolds, EnableHolds, TimeHolds DEF Factor!Next
<1>2. CASE UNCHANGED factorVars
  BY <1>2 DEF factorVars, FactorInv, FactorTypes, ChecksKept, CheckKept, SameFactor, SpentKept,
     FailuresCounted, UndecidedBounded, Undecided, There
<1>3. QED
  BY <1>1, <1>2

FactorRuns == part = "factor" => FactorInv

LEMMA FactorHolds == FactorRuns /\ [Next]_vars => FactorRuns'
  BY FactorSteps, FactorAlone, OnePart DEF FactorRuns

\* However many checks of codes run at once, with setups, new recovery codes and the factor
\* turned off in between: no code passes twice, and parallel requests win a guesser no more
\* than one wrong code each beyond the limit.
THEOREM CodesKept == Spec => []CodesHold
<1>1. Init => FactorRuns
  BY FactorBegins DEF Init, FactorRuns
<1>2. FactorRuns => CodesHold
  <2> SUFFICES ASSUME FactorInv PROVE Factor!CodesHold
    BY DEF CodesHold, FactorRuns
  <2>1. ~twice
    BY DEF FactorInv, FactorTypes
  <2> DEFINE wrong == {q \in Checks : checks[q] # Factor!Idle /\ checks[q].pc = "fail"}
  <2>2. wrong \subseteq Undecided
    BY DEF Undecided
  <2>3. Cardinality(wrong) <= Cardinality(Undecided) /\ Cardinality(wrong) \in Nat
    BY <2>2, UndecidedFinite, FS_Subset, FS_CardinalityType
  <2>4. tries + Cardinality(wrong) <= MaxFailures + Cardinality(Checks) - 1
    BY <2>3, UndecidedFinite, FactorBounds DEF FactorInv, FactorTypes, UndecidedBounded
  <2>5. Factor!TriesBounded
    BY <2>4 DEF Factor!TriesBounded, Cardinality, Factor!Cardinality
  <2>6. QED
    BY <2>1, <2>5 DEF Factor!CodesHold, Factor!CodesOnce
<1>3. QED
  BY <1>1, <1>2, FactorHolds, PTL DEF Spec

LEMMA StaysThere == factor' \in FactorRows /\ factor'.enabled => Factor!Enabled'
  BY NoFactorAssumption DEF Factor!Enabled, FactorRows, BackupCodes

\* A row that is on stays on when a check passes or fails, and with new codes.
LEMMA StaysOn ==
    ASSUME FactorInv, There, factor.enabled, NEW q \in Checks,
           \/ Factor!UseStep(q) \/ Factor!UseBackup(q) \/ Factor!FactorFailed(q) \/ Factor!Regenerate(q)
    PROVE  Factor!Enabled'
<1>1. factor \in FactorRows /\ issued.set \in Nat
  BY DEF FactorInv, FactorTypes
<1>2. CASE factor' = factor
  BY <1>1, <1>2, StaysThere
<1>3. CASE Factor!UseStep(q) /\ factor' # factor
  <2>1. factor' = [[factor EXCEPT !.last = checks[q].code.step] EXCEPT !.failures = 0, !.failing = FALSE]
    BY <1>3 DEF Factor!UseStep, Factor!Pass, Factor!LoseRace
  <2>2. checks[q].code.step \in Int
    BY <1>3, RowChecks DEF Factor!UseStep, TimeCodes
  <2>3. factor' \in FactorRows /\ factor'.enabled = factor.enabled
    BY <1>1, <2>1, <2>2 DEF FactorRows
  <2>4. QED
    BY <2>3, StaysThere
<1>4. CASE Factor!UseBackup(q) /\ factor' # factor
  <2>1. PICK left : left = factor.backup \ {checks[q].code}
    OBVIOUS
  <2>2. factor' = [[factor EXCEPT !.backup = left] EXCEPT !.failures = 0, !.failing = FALSE]
    BY <1>4, <2>1 DEF Factor!UseBackup, Factor!Pass, Factor!LoseRace
  <2>3. left \in SUBSET BackupCodes
    BY <1>1, <2>1 DEF FactorRows
  <2>4. factor' \in FactorRows /\ factor'.enabled = factor.enabled
    BY <1>1, <2>2, <2>3 DEF FactorRows
  <2>5. QED
    BY <2>4, StaysThere
<1>5. CASE Factor!FactorFailed(q) /\ factor' # factor
  <2>1. PICK n : n = IF factor.failing THEN factor.failures + 1 ELSE 1
    OBVIOUS
  <2>2. factor' = [factor EXCEPT !.failures = n, !.failing = TRUE] /\ n \in Nat
    BY <1>1, <1>5, <2>1 DEF Factor!FactorFailed, FactorRows
  <2>3. factor' \in FactorRows /\ factor'.enabled = factor.enabled
    BY <1>1, <2>2 DEF FactorRows
  <2>4. QED
    BY <2>3, StaysThere
<1>6. CASE Factor!Regenerate(q) /\ factor' # factor
  <2>1. PICK fresh : fresh = Factor!Fresh(issued.set + 1)
    OBVIOUS
  <2>2. fresh \in SUBSET BackupCodes
    BY <1>1, <2>1, FreshCodes
  <2>3. factor' = [factor EXCEPT !.backup = fresh]
    BY <1>6, <2>1 DEF Factor!Regenerate
  <2>4. factor' \in FactorRows /\ factor'.enabled = factor.enabled
    BY <1>1, <2>2, <2>3 DEF FactorRows
  <2>5. QED
    BY <2>4, StaysThere
<1>7. QED
  BY <1>2, <1>3, <1>4, <1>5, <1>6

\* A factor that is on goes off by a code compared with the secret it has, or by a request
\* that had read the row before it was on.
THEOREM OffByCodeOnly == Spec => OffOnlyByCode
<1>1. Init => FactorRuns
  BY FactorBegins DEF Init, FactorRuns
<1>2. FactorRuns /\ [Next]_vars => [part = "factor" => Factor!OffByCode]_vars
  <2> SUFFICES ASSUME FactorInv, [Factor!Next]_factorVars, Factor!Enabled, ~Factor!Enabled'
               PROVE  \E q \in Checks : checks[q] # Factor!Idle /\ checks'[q] = Factor!Idle /\
                        \/ checks[q].pc = "passed" /\ checks[q].row.secret = factor.secret
                        \/ checks[q].pc \in {"passed", "upsert"} /\ checks[q].enablings < enablings
    BY FactorAlone DEF FactorRuns, Factor!OffByCode
  <2>1. There /\ factor.enabled /\ factor' # factor
    BY IsEnabled DEF Factor!Enabled, There
  <2>2. PICK q \in Checks :
          Factor!UseStep(q) \/ Factor!UseBackup(q) \/ Factor!FactorFailed(q) \/ Factor!Regenerate(q)
          \/ Factor!Disable(q) \/ Factor!Setup(q)
    <3>1. ~Factor!EndWindow
      <4> SUFFICES ASSUME Factor!EndWindow PROVE FALSE
        OBVIOUS
      <4>1. factor' = [factor EXCEPT !.failing = FALSE] /\ factor \in FactorRows
        BY <2>1 DEF Factor!EndWindow, FactorInv, FactorTypes
      <4>2. factor' \in FactorRows /\ factor'.enabled = factor.enabled
        BY <4>1 DEF FactorRows
      <4>3. QED
        BY <2>1, <4>2, StaysThere
    <3>2. \A q \in Checks : ~Factor!Enable(q)
      BY <2>1 DEF Factor!Enable
    <3>3. Factor!Next
      BY <2>1 DEF factorVars
    <3>4. QED
      BY <2>1, <3>1, <3>2, <3>3 DEF Factor!Next, Factor!Tick, Factor!Look, Factor!Done, Factor!StartSetup,
         Factor!StartEnable, Factor!Abort
  <2>3. Factor!Disable(q) \/ Factor!Setup(q)
    BY <2>1, <2>2, StaysOn
  <2>4. checks[q] # Factor!Idle /\ checks'[q] = Factor!Idle
    BY <2>3 DEF Factor!Disable, Factor!Setup, Factor!End, FactorInv, FactorTypes
  <2>5. CASE Factor!Disable(q)
    <3>1. checks[q].pc = "passed"
      BY <2>5 DEF Factor!Disable
    <3>2. RowCheck(q) /\ enablings \in Nat
      BY <3>1, RowChecks DEF FactorInv, FactorTypes
    <3>3. \/ checks[q].row.secret = factor.secret
          \/ checks[q].enablings < enablings
      BY <2>1, <3>2 DEF RowCheck, RowRead, SameFactor
    <3>4. QED
      BY <2>4, <3>1, <3>3
  <2>6. CASE Factor!Setup(q)
    <3>1. checks[q].pc = "upsert"
      BY <2>6 DEF Factor!Setup
    <3>2. /\ checks[q].enablings \in Nat /\ checks[q].enablings <= enablings /\ enablings \in Nat
          /\ checks[q].enablings # enablings
      BY <2>1, <2>4, <3>1 DEF FactorInv, FactorTypes, ChecksKept, CheckKept, RowRead
    <3>3. QED
      BY <2>4, <3>1, <3>2
  <2>7. QED
    BY <2>3, <2>5, <2>6
<1>3. QED
  BY <1>1, <1>2, FactorHolds, PTL DEF Spec, OffOnlyByCode

-----------------------------------------------------------------------------
(* The migrations and their table.                                         *)

applied == x1
ran == x2
advisory == x3
migrator == x4
mishaps == x5
lockLost == x6
reverts == x7
torn == x8
schemaVars == <<x1, x2, x3, x4, x5, x6, x7, x8>>
USE DEF applied, ran, advisory, migrator, mishaps, lockLost, reverts, torn

Asked == [pc : {"lock", "status"}, up : BOOLEAN, hold : BOOLEAN, steps : Nat]
AtWork == [pc : {"next", "late"}, up : BOOLEAN, todo : SUBSET Scripts, waits : Nat, step : Nat \ {0}]
Leaving == [pc : {"unlock", "ended"}]

SchemaTypes ==
    /\ applied \subseteq Scripts
    /\ ran \in [Scripts -> SUBSET Nat] /\ \A s \in Scripts : ran[s] \subseteq Schema!Steps(s)
    /\ migrator \in [Pair -> Asked \cup AtWork \cup Leaving]
    /\ lockLost \in BOOLEAN /\ reverts \in BOOLEAN

\* As long as no lock was lost, one process is at work.
OneMigrator ==
    ~lockLost => \A m \in Pair : migrator[m].pc \in {"status", "next", "unlock"} => advisory = m

Trusted == ~(lockLost /\ reverts)

\* What is to be applied follows what is applied, and the statements before the next one
\* are in effect; what is to be reverted is applied, with nothing applied after it left out.
Applying(m) ==
    /\ \A s \in migrator[m].todo : 1..s \subseteq applied \cup migrator[m].todo
    /\ \A s \in NoTransaction : Schema!Doing(m, s) /\ s \notin applied
                                    => 1..(migrator[m].step - 1) \subseteq ran[s]
Reverting(m) ==
    /\ migrator[m].todo \subseteq applied
    /\ ~lockLost => \A s \in migrator[m].todo, t \in applied : s < t => t \in migrator[m].todo

AtTheirWork ==
    Trusted => \A m \in Pair : migrator[m].pc = "next" =>
                IF migrator[m].up THEN Applying(m) ELSE Reverting(m)

InTurn == Trusted => \A s \in Scripts : Schema!InEffect(s) /\ (s \in applied => 1..s \subseteq applied)

\* A statement that a dead process left running is of a script that is still applied when it
\* reverts; who has come to the same script since has not got past it.
LateKept ==
    \A m \in Pair, s \in Scripts : Schema!StillAt(m, s) =>
        /\ s \in NoTransaction /\ migrator[m].step \in 1..Statements
        /\ Trusted /\ ~migrator[m].up => s \in applied
        /\ ~lockLost => \A o \in Pair : Schema!Doing(o, s) => migrator[o].step <= migrator[m].step

SchemaInv == SchemaTypes /\ OneMigrator /\ AtTheirWork /\ InTurn /\ LateKept

LEMMA ScriptsOrdered ==
    /\ Scripts \subseteq Nat \ {0} /\ \A s \in Scripts : 1..s \subseteq Scripts
    /\ IsFiniteSet(Scripts) /\ Statements \in Nat /\ Unlocked \notin Pair
    /\ NoTransaction \subseteq Scripts /\ DataLoss \subseteq Scripts
  BY PartsAssumption

LEMMA WorkShape ==
    ASSUME NEW u \in BOOLEAN, NEW q \in SUBSET Scripts, NEW i \in Nat \ {0}
    PROVE  /\ Schema!Work(u, q, i) \in AtWork
           /\ Schema!Work(u, q, i).pc = "next" /\ Schema!Work(u, q, i).up = u
           /\ Schema!Work(u, q, i).todo = q /\ Schema!Work(u, q, i).step = i
  BY DEF Schema!Work, AtWork

LEMMA MigrationsBegin == Schema!Init => SchemaInv
<1> SUFFICES ASSUME Schema!Init PROVE SchemaInv
  OBVIOUS
<1>1. /\ applied = {} /\ ran = [s \in Scripts |-> {}] /\ lockLost = FALSE /\ reverts = FALSE
      /\ migrator = [m \in Pair |-> [pc |-> "ended"]]
  BY DEF Schema!Init, Schema!Ended
<1>2. [pc |-> "ended"] \in Leaving
  BY DEF Leaving
<1>3. SchemaTypes
  BY <1>1, <1>2 DEF SchemaTypes
<1>4. OneMigrator /\ AtTheirWork
  BY <1>1 DEF OneMigrator, AtTheirWork
<1>5. InTurn
  BY <1>1 DEF InTurn, Schema!InEffect
<1>6. LateKept
  BY <1>1 DEF LateKept, Schema!StillAt
<1>7. QED
  BY <1>3, <1>4, <1>5, <1>6 DEF SchemaInv

\* One script is the next.
LEMMA OneNext ==
    ASSUME SchemaInv, NEW m \in Pair, migrator[m].pc \in {"next", "late"},
           NEW s \in Scripts, NEW t \in Scripts, Schema!NextOf(m, s), Schema!NextOf(m, t)
    PROVE  s = t
<1>1. s <= t /\ t <= s
  BY DEF Schema!NextOf
<1>2. s \in Nat /\ t \in Nat
  BY ScriptsOrdered
<1>3. QED
  BY <1>1, <1>2

\* A step that changes neither table nor schema, and puts its process where nothing is
\* said of it.
LEMMA MigratorMoves ==
    ASSUME SchemaInv, NEW m \in Pair, NEW r,
           r \in Asked \cup Leaving,
           migrator' = [migrator EXCEPT ![m] = r],
           applied' = applied, ran' = ran, reverts' = reverts, torn' = torn,
           lockLost' = lockLost, advisory' \in {advisory, m, Unlocked},
           ~lockLost => advisory' = advisory
                        \/ \A o \in Pair \ {m} : migrator[o].pc \notin {"status", "next", "unlock"},
           ~lockLost /\ r.pc \in {"status", "next", "unlock"} => advisory' = m
    PROVE  SchemaInv'
<1>1. /\ migrator \in [Pair -> Asked \cup AtWork \cup Leaving] /\ migrator'[m] = r
      /\ \A o \in Pair : o # m => migrator'[o] = migrator[o]
  BY DEF SchemaInv, SchemaTypes
<1>2. r.pc # "next"
  BY DEF Asked, Leaving
<1>3. SchemaTypes'
  BY <1>1 DEF SchemaInv, SchemaTypes, Schema!Steps
<1>4. OneMigrator'
  BY <1>1 DEF SchemaInv, OneMigrator
<1>5. AtTheirWork'
  BY <1>1, <1>2 DEF SchemaInv, AtTheirWork, Trusted, Applying, Reverting, Schema!Doing, Schema!NextOf
<1>6. InTurn'
  BY DEF SchemaInv, InTurn, Trusted, Schema!InEffect, Schema!Steps
<1>8. r.pc # "late"
  BY DEF Asked, Leaving
<1>9. LateKept'
  BY <1>1, <1>2, <1>8 DEF SchemaInv, LateKept, Trusted, Schema!StillAt, Schema!Doing, Schema!NextOf
<1>7. QED
  BY <1>3, <1>4, <1>5, <1>6, <1>9 DEF SchemaInv

LEMMA MigratorBegins == ASSUME SchemaInv, NEW m \in Pair, Schema!Begin(m) PROVE SchemaInv'
<1>1. PICK up \in BOOLEAN, hold \in BOOLEAN, n \in Scripts \cup {0} :
          migrator' = [migrator EXCEPT ![m] = [pc |-> "lock", up |-> up, hold |-> hold, steps |-> n]]
  BY DEF Schema!Begin, Schema!Become
<1>2. n \in Nat
  BY ScriptsOrdered
<1>3. [pc |-> "lock", up |-> up, hold |-> hold, steps |-> n] \in Asked
  BY <1>2 DEF Asked
<1>4. UNCHANGED <<applied, ran, advisory, lockLost, reverts, torn>>
  BY DEF Schema!Begin
<1>5. QED
  BY <1>1, <1>3, <1>4, MigratorMoves

LEMMA LockTaken == ASSUME SchemaInv, NEW m \in Pair, Schema!Lock(m) PROVE SchemaInv'
<1> DEFINE r == [migrator[m] EXCEPT !.pc = "status"]
<1>1. /\ migrator[m].pc = "lock" /\ advisory = Unlocked /\ advisory' = m
      /\ migrator' = [migrator EXCEPT ![m] = r]
      /\ UNCHANGED <<applied, ran, lockLost, reverts, torn>>
  BY DEF Schema!Lock, Schema!Free, Schema!Become
<1>2. migrator[m] \in Asked
  BY <1>1 DEF SchemaInv, SchemaTypes, AtWork, Leaving
<1>3. r \in Asked
  BY <1>2 DEF Asked
<1>4. ~lockLost => \A o \in Pair : migrator[o].pc \notin {"status", "next", "unlock"}
  BY <1>1, ScriptsOrdered DEF SchemaInv, OneMigrator
<1> HIDE DEF r
<1>5. QED
  BY <1>1, <1>3, <1>4, MigratorMoves

\* Those that let go of everything.
LEMMA MigratorLeaves ==
    ASSUME SchemaInv, NEW m \in Pair,
           \/ Schema!RunFails(m) \/ Schema!Finish(m) \/ Schema!Unlock(m)
           \/ Schema!Kill(m) /\ Schema!Become(m, Schema!Ended)
    PROVE  SchemaInv'
<1>1. PICK pc \in {"unlock", "ended"} :
          /\ migrator' = [migrator EXCEPT ![m] = [pc |-> pc]]
          /\ pc = "unlock" => migrator[m].pc = "next" /\ advisory' = advisory
          /\ advisory' = advisory \/ (advisory = m /\ advisory' = Unlocked)
  BY DEF Schema!RunFails, Schema!Finish, Schema!Unlock, Schema!Kill, Schema!Become, Schema!Ended
<1>2. UNCHANGED <<applied, ran, lockLost, reverts, torn>>
  BY DEF Schema!RunFails, Schema!Finish, Schema!Unlock, Schema!Kill
<1> DEFINE r == [pc |-> pc]
<1>3. r \in Leaving /\ r.pc = pc
  BY DEF Leaving
<1>4. ~lockLost => advisory' = advisory
                   \/ \A o \in Pair \ {m} : migrator[o].pc \notin {"status", "next", "unlock"}
  BY <1>1 DEF SchemaInv, OneMigrator
<1>5. ~lockLost /\ r.pc \in {"status", "next", "unlock"} => advisory' = m
  BY <1>1, <1>3 DEF SchemaInv, OneMigrator
<1>6. migrator' = [migrator EXCEPT ![m] = r]
  BY <1>1
<1> HIDE DEF r
<1>7. QED
  BY <1>1, <1>2, <1>3, <1>4, <1>5, <1>6, MigratorMoves

\* The next script to apply has all before it in the table; the next to revert is the last
\* of the table, unless the lock was lost.
LEMMA NextScript ==
    ASSUME SchemaInv, Trusted, NEW m \in Pair, NEW s, Schema!Doing(m, s)
    PROVE  /\ s \in Scripts
           /\ migrator[m].up => \A t \in 1..s : t # s => t \in applied
           /\ ~migrator[m].up => s \in applied
           /\ ~migrator[m].up /\ ~lockLost => \A t \in applied : t <= s
<1>1. migrator[m].pc = "next" /\ s \in migrator[m].todo
  BY DEF Schema!Doing, Schema!NextOf
<1>2. migrator[m] \in AtWork
  BY <1>1 DEF SchemaInv, SchemaTypes, Asked, Leaving
<1>3. migrator[m].todo \subseteq Scripts /\ migrator[m].up \in BOOLEAN
  BY <1>2 DEF AtWork
<1>4. s \in Nat /\ \A t \in migrator[m].todo : t \in Nat
  BY <1>1, <1>3, ScriptsOrdered
<1>5. ASSUME migrator[m].up, NEW t \in 1..s, t # s PROVE t \in applied
  <2>1. \A u \in migrator[m].todo : s <= u
    BY <1>5 DEF Schema!Doing, Schema!NextOf
  <2>2. t \notin migrator[m].todo
    BY <2>1, <1>4, <1>5
  <2>3. QED
    BY <1>1, <1>5, <2>2 DEF SchemaInv, AtTheirWork, Applying
<1>6. ASSUME ~migrator[m].up
      PROVE  s \in applied /\ (~lockLost => \A t \in applied : t <= s)
  <2>1. \A u \in migrator[m].todo : u <= s
    BY <1>6 DEF Schema!Doing, Schema!NextOf
  <2>2. Reverting(m)
    BY <1>1, <1>6 DEF SchemaInv, AtTheirWork
  <2>3. applied \subseteq Nat
    BY ScriptsOrdered DEF SchemaInv, SchemaTypes
  <2>4. ASSUME ~lockLost, NEW t \in applied, s < t PROVE FALSE
    <3>1. t <= s
      BY <1>1, <2>1, <2>2, <2>4 DEF Reverting
    <3>2. t \in Nat
      BY <2>3
    <3>3. QED
      BY <1>4, <2>4, <3>1, <3>2
  <2>5. ~lockLost => \A t \in applied : t <= s
    BY <1>4, <2>3, <2>4
  <2>6. QED
    BY <1>1, <2>2, <2>5 DEF Reverting
<1>7. QED
  BY <1>1, <1>3, <1>5, <1>6

\* A process is killed and leaves a statement running.
LEMMA StatementLeft ==
    ASSUME SchemaInv, NEW m \in Pair, NEW s \in NoTransaction, Schema!Doing(m, s),
           migrator[m].step <= Statements,
           migrator' = [migrator EXCEPT ![m] = [migrator[m] EXCEPT !.pc = "late"]],
           advisory' = IF advisory = m THEN Unlocked ELSE advisory,
           UNCHANGED <<applied, ran, lockLost, reverts, torn>>
    PROVE  SchemaInv'
<1> DEFINE r == [migrator[m] EXCEPT !.pc = "late"]
<1>1. migrator[m].pc = "next" /\ migrator[m] \in AtWork /\ Schema!NextOf(m, s) /\ s \in Scripts
  BY ScriptsOrdered DEF SchemaInv, SchemaTypes, Asked, Leaving, Schema!Doing
<1>2. /\ r \in AtWork /\ r.pc = "late" /\ r.up = migrator[m].up
      /\ r.todo = migrator[m].todo /\ r.step = migrator[m].step /\ r.step \in 1..Statements
  BY <1>1, ScriptsOrdered DEF AtWork
<1>3. migrator' = [migrator EXCEPT ![m] = r]
  OBVIOUS
<1> HIDE DEF r
<1>4. /\ migrator \in [Pair -> Asked \cup AtWork \cup Leaving] /\ migrator'[m] = r
      /\ \A o \in Pair : o # m => migrator'[o] = migrator[o]
  BY <1>3 DEF SchemaInv, SchemaTypes
<1>5. SchemaTypes'
  BY <1>2, <1>3, <1>4 DEF SchemaInv, SchemaTypes, Schema!Steps
<1>6. ~lockLost => \A o \in Pair \ {m} : migrator[o].pc \notin {"status", "next", "unlock"}
  BY <1>1 DEF SchemaInv, OneMigrator
<1>7. OneMigrator'
  BY <1>2, <1>4, <1>6 DEF OneMigrator
<1>8. Trusted' <=> Trusted
  BY DEF Trusted
<1>9. AtTheirWork'
  BY <1>2, <1>4, <1>8 DEF SchemaInv, AtTheirWork, Applying, Reverting, Schema!Doing, Schema!NextOf
<1>10. InTurn'
  BY DEF SchemaInv, InTurn, Trusted, Schema!InEffect, Schema!Steps
<1>11. LateKept'
  <2> SUFFICES ASSUME NEW o \in Pair, NEW t \in Scripts, Schema!StillAt(o, t)'
               PROVE  /\ t \in NoTransaction /\ migrator'[o].step \in 1..Statements
                      /\ Trusted /\ ~migrator'[o].up => t \in applied
                      /\ ~lockLost => \A p \in Pair : ~Schema!Doing(p, t)'
                                       \/ migrator'[p].step <= migrator'[o].step
    BY <1>8 DEF LateKept
  <2>1. CASE o # m
    <3>1. migrator'[o] = migrator[o] /\ Schema!StillAt(o, t)
      BY <1>4, <2>1 DEF Schema!StillAt, Schema!NextOf
    <3>2. \A p \in Pair : Schema!Doing(p, t)' => Schema!Doing(p, t) /\ migrator'[p] = migrator[p]
      BY <1>2, <1>4 DEF Schema!Doing, Schema!NextOf
    <3>3. QED
      BY <3>1, <3>2 DEF SchemaInv, LateKept
  <2>2. CASE o = m
    <3>1. Schema!NextOf(m, t)
      BY <1>2, <1>4, <2>2 DEF Schema!StillAt, Schema!NextOf
    <3>2. t = s
      BY <1>1, <3>1, OneNext
    <3>3. Trusted /\ ~migrator[m].up => s \in applied
      BY NextScript
    <3>4. ~lockLost => \A p \in Pair : ~Schema!Doing(p, t)'
      BY <1>2, <1>4, <1>6 DEF Schema!Doing
    <3>5. QED
      BY <1>2, <1>4, <2>2, <3>2, <3>3, <3>4
  <2>3. QED
    BY <2>1, <2>2
<1>12. QED
  BY <1>5, <1>7, <1>9, <1>10, <1>11 DEF SchemaInv

LEMMA MigratorKilled == ASSUME SchemaInv, NEW m \in Pair, Schema!Kill(m) PROVE SchemaInv'
<1>1. CASE Schema!Become(m, Schema!Ended)
  BY <1>1, MigratorLeaves
<1>2. ASSUME NEW s \in NoTransaction, Schema!Doing(m, s), migrator[m].step <= Statements,
             Schema!Become(m, [migrator[m] EXCEPT !.pc = "late"])
      PROVE  SchemaInv'
  BY <1>2, StatementLeft DEF Schema!Kill, Schema!Become
<1>3. QED
  BY <1>1, <1>2 DEF Schema!Kill

\* The lock goes while its holder works: from then on nothing is said once a script is
\* reverted.
LEMMA LockLost == ASSUME SchemaInv, NEW m \in Pair, Schema!LoseLock(m) PROVE SchemaInv'
<1>1. lockLost' = TRUE /\ UNCHANGED <<applied, ran, migrator, reverts, torn>>
  BY DEF Schema!LoseLock
<1>2. SchemaTypes' /\ OneMigrator'
  BY <1>1 DEF SchemaInv, SchemaTypes, OneMigrator, Schema!Steps
<1>3. AtTheirWork'
  BY <1>1 DEF SchemaInv, AtTheirWork, Trusted, Applying, Reverting, Schema!Doing, Schema!NextOf
<1>4. InTurn'
  BY <1>1 DEF SchemaInv, InTurn, Trusted, Schema!InEffect, Schema!Steps
<1>6. LateKept'
  BY <1>1 DEF SchemaInv, LateKept, Trusted, Schema!StillAt, Schema!Doing, Schema!NextOf
<1>5. QED
  BY <1>2, <1>3, <1>4, <1>6 DEF SchemaInv

LEMMA StatusTaken == ASSUME SchemaInv, NEW m \in Pair, Schema!Status(m) PROVE SchemaInv'
<1> DEFINE todo == Schema!Todo(m)
           r == Schema!Work(migrator[m].up, todo, 1)
<1>1. /\ migrator[m].pc = "status" /\ migrator' = [migrator EXCEPT ![m] = r]
      /\ UNCHANGED <<applied, ran, advisory, lockLost, reverts, torn>>
  BY DEF Schema!Status, Schema!Become
<1>2. migrator[m] \in Asked
  BY <1>1 DEF SchemaInv, SchemaTypes, AtWork, Leaving
<1>3. migrator[m].up \in BOOLEAN /\ migrator[m].steps \in Nat
  BY <1>2 DEF Asked
<1>4. todo \subseteq Scripts
  BY DEF Schema!Todo, SchemaInv, SchemaTypes
<1>5. ASSUME migrator[m].up, NEW s \in todo PROVE 1..s \subseteq applied \cup todo
  <2> DEFINE held == IF applied = {} \/ ~migrator[m].hold THEN {} ELSE DataLoss \ applied
  <2>1. todo = {t \in Scripts \ applied : \A h \in held : t < h}
    BY <1>5 DEF Schema!Todo
  <2>2. s \in Scripts /\ \A h \in held : s < h
    BY <1>5, <2>1
  <2> HIDE DEF held, todo
  <2> SUFFICES ASSUME NEW t \in 1..s, t \notin applied PROVE t \in todo
    OBVIOUS
  <2>3. t \in Scripts /\ t <= s
    BY <2>2, ScriptsOrdered
  <2>4. ASSUME NEW h \in held PROVE t < h
    <3>1. s < h /\ s \in Nat
      BY <2>2, ScriptsOrdered
    <3>2. h \in Nat
      BY <2>4, ScriptsOrdered DEF held
    <3>3. QED
      BY <2>3, <3>1, <3>2
  <2>5. QED
    BY <2>1, <2>3, <2>4
<1>6. ASSUME ~migrator[m].up
      PROVE  /\ todo \subseteq applied
             /\ \A s \in todo, t \in applied : s < t => t \in todo
  <2>1. todo = {s \in applied : Schema!Cardinality({t \in applied : s < t}) < migrator[m].steps}
    BY <1>6 DEF Schema!Todo
  <2> HIDE DEF todo
  <2>2. ASSUME NEW s \in todo, NEW t \in applied, s < t PROVE t \in todo
    <3> DEFINE Above(u) == {v \in applied : u < v}
    <3>1. applied \subseteq Nat /\ IsFiniteSet(applied)
      BY ScriptsOrdered, FS_Subset DEF SchemaInv, SchemaTypes
    <3>2. s \in applied /\ s \in Nat /\ t \in Nat
      BY <2>1, <2>2, <3>1
    <3>3. Above(t) \subseteq Above(s)
      <4>1. \A v \in applied : t < v => s < v
        BY <2>2, <3>1, <3>2
      <4>2. QED
        BY ONLY <4>1
    <3>4. IsFiniteSet(Above(s)) /\ IsFiniteSet(Above(t))
      BY <3>1, FS_Subset
    <3>5. Cardinality(Above(t)) <= Cardinality(Above(s)) /\ Cardinality(Above(t)) \in Nat
          /\ Cardinality(Above(s)) \in Nat
      <4> HIDE DEF Above
      <4>1. QED
        BY <3>3, <3>4, FS_Subset, FS_CardinalityType
    <3>6. \A S : Schema!Cardinality(S) = Cardinality(S)
      BY DEF Schema!Cardinality, Cardinality
    <3>7. Cardinality(Above(s)) < migrator[m].steps
      BY <2>1, <2>2, <3>6
    <3>8. Cardinality(Above(t)) < migrator[m].steps
      <4> HIDE DEF Above
      <4>1. QED
        BY <1>3, <3>5, <3>7
    <3>9. QED
      BY <2>1, <3>6, <3>8
  <2>3. QED
    BY <2>1, <2>2
<1> HIDE DEF todo
<1>7. 1 \in Nat \ {0} /\ todo \in SUBSET Scripts
  BY <1>4
<1>8. /\ r \in AtWork /\ r.pc = "next" /\ r.up = migrator[m].up
      /\ r.todo = todo /\ r.step = 1
  BY <1>3, <1>7, WorkShape
<1> HIDE DEF r
<1>9. /\ migrator \in [Pair -> Asked \cup AtWork \cup Leaving] /\ migrator'[m] = r
      /\ \A o \in Pair : o # m => migrator'[o] = migrator[o]
  BY <1>1 DEF SchemaInv, SchemaTypes
<1>10. SchemaTypes'
  BY <1>1, <1>8, <1>9 DEF SchemaInv, SchemaTypes, Schema!Steps
<1>11. OneMigrator'
  BY <1>1, <1>9 DEF SchemaInv, OneMigrator
<1>12. AtTheirWork'
  <2> SUFFICES ASSUME Trusted', NEW o \in Pair, (migrator[o].pc = "next")'
               PROVE  (IF migrator[o].up THEN Applying(o) ELSE Reverting(o))'
    BY DEF AtTheirWork
  <2>1. Trusted
    BY <1>1 DEF Trusted
  <2>2. CASE o # m
    BY <1>1, <1>9, <2>1, <2>2 DEF SchemaInv, AtTheirWork, Applying, Reverting, Schema!Doing, Schema!NextOf
  <2>3. CASE o = m /\ migrator[m].up
    <3>1. 1..(1 - 1) = {}
      OBVIOUS
    <3>2. QED
      BY <1>1, <1>5, <1>8, <1>9, <2>3, <3>1 DEF Applying
  <2>4. CASE o = m /\ ~migrator[m].up
    BY <1>1, <1>6, <1>8, <1>9, <2>4 DEF Reverting
  <2>5. QED
    BY <2>2, <2>3, <2>4
<1>13. InTurn'
  BY <1>1 DEF SchemaInv, InTurn, Trusted, Schema!InEffect, Schema!Steps
<1>15. LateKept'
  <2> SUFFICES ASSUME NEW o \in Pair, NEW t \in Scripts, Schema!StillAt(o, t)'
               PROVE  /\ t \in NoTransaction /\ migrator'[o].step \in 1..Statements
                      /\ Trusted' /\ ~migrator'[o].up => t \in applied'
                      /\ ~lockLost' => \A p \in Pair : Schema!Doing(p, t)'
                                                        => migrator'[p].step <= migrator'[o].step
    BY DEF LateKept
  <2>1. o # m /\ migrator'[o] = migrator[o] /\ Schema!StillAt(o, t)
    BY <1>8, <1>9 DEF Schema!StillAt, Schema!NextOf
  <2>2. \A p \in Pair : p # m /\ Schema!Doing(p, t)' => Schema!Doing(p, t) /\ migrator'[p] = migrator[p]
    BY <1>9 DEF Schema!Doing, Schema!NextOf
  <2>3. migrator'[m].step = 1 /\ Trusted' = Trusted
    BY <1>1, <1>8, <1>9 DEF Trusted
  <2>4. QED
    BY <1>1, <2>1, <2>2, <2>3 DEF SchemaInv, LateKept
<1>14. QED
  BY <1>10, <1>11, <1>12, <1>13, <1>15 DEF SchemaInv

LEMMA TimedOut == ASSUME SchemaInv, NEW m \in Pair, Schema!LockTimeout(m) PROVE SchemaInv'
<1> DEFINE r == [migrator[m] EXCEPT !.waits = @ + 1]
<1>1. /\ migrator[m].pc = "next" /\ migrator' = [migrator EXCEPT ![m] = r]
      /\ UNCHANGED <<applied, ran, advisory, lockLost, reverts, torn>>
  BY DEF Schema!LockTimeout, Schema!Become
<1>2. migrator[m] \in AtWork
  BY <1>1 DEF SchemaInv, SchemaTypes, Asked, Leaving
<1>3. /\ r \in AtWork /\ r.pc = migrator[m].pc /\ r.up = migrator[m].up
      /\ r.todo = migrator[m].todo /\ r.step = migrator[m].step
  BY <1>2 DEF AtWork
<1> HIDE DEF r
<1>4. /\ migrator \in [Pair -> Asked \cup AtWork \cup Leaving] /\ migrator'[m] = r
      /\ \A o \in Pair : o # m => migrator'[o] = migrator[o]
  BY <1>1 DEF SchemaInv, SchemaTypes
<1>5. SchemaTypes'
  BY <1>1, <1>3, <1>4 DEF SchemaInv, SchemaTypes, Schema!Steps
<1>6. OneMigrator'
  BY <1>1, <1>3, <1>4 DEF SchemaInv, OneMigrator
<1>7. \A o \in Pair : /\ migrator'[o].pc = migrator[o].pc
                      /\ migrator[o].pc = "next" =>
                            /\ migrator'[o].up = migrator[o].up
                            /\ migrator'[o].todo = migrator[o].todo
                            /\ migrator'[o].step = migrator[o].step
  BY <1>3, <1>4
<1>8. AtTheirWork'
  BY <1>1, <1>7 DEF SchemaInv, AtTheirWork, Trusted, Applying, Reverting, Schema!Doing, Schema!NextOf
<1>9. InTurn'
  BY <1>1 DEF SchemaInv, InTurn, Trusted, Schema!InEffect, Schema!Steps
<1>11. LateKept'
  <2> SUFFICES ASSUME NEW o \in Pair, NEW t \in Scripts, Schema!StillAt(o, t)'
               PROVE  /\ t \in NoTransaction /\ migrator'[o].step \in 1..Statements
                      /\ Trusted' /\ ~migrator'[o].up => t \in applied'
                      /\ ~lockLost' => \A p \in Pair : Schema!Doing(p, t)'
                                                        => migrator'[p].step <= migrator'[o].step
    BY DEF LateKept
  <2>1. o # m /\ migrator'[o] = migrator[o] /\ Schema!StillAt(o, t)
    BY <1>1, <1>3, <1>4 DEF Schema!StillAt, Schema!NextOf
  <2>2. \A p \in Pair : Schema!Doing(p, t)' => Schema!Doing(p, t) /\ migrator'[p].step = migrator[p].step
    BY <1>7 DEF Schema!Doing, Schema!NextOf
  <2>3. Trusted' = Trusted
    BY <1>1 DEF Trusted
  <2>4. QED
    BY <1>1, <2>1, <2>2, <2>3 DEF SchemaInv, LateKept
<1>10. QED
  BY <1>5, <1>6, <1>8, <1>9, <1>11 DEF SchemaInv

\* What Done leaves of the process.
LEMMA ScriptDone ==
    ASSUME SchemaInv, NEW m \in Pair, NEW s, Schema!Doing(m, s), Schema!Done(m, s)
    PROVE  /\ migrator[m] \in AtWork /\ migrator' \in [Pair -> Asked \cup AtWork \cup Leaving]
           /\ migrator'[m].pc = "next" /\ migrator'[m].up = migrator[m].up
           /\ migrator'[m].todo = migrator[m].todo \ {s} /\ migrator'[m].step = 1
           /\ \A o \in Pair : o # m => migrator'[o] = migrator[o]
<1> DEFINE r == Schema!Work(migrator[m].up, migrator[m].todo \ {s}, 1)
<1>1. migrator[m].pc = "next" /\ migrator' = [migrator EXCEPT ![m] = r]
  BY DEF Schema!Doing, Schema!NextOf, Schema!Done, Schema!Become
<1>2. migrator[m] \in AtWork
  BY <1>1 DEF SchemaInv, SchemaTypes, Asked, Leaving
<1>3. /\ r \in AtWork /\ r.pc = "next" /\ r.up = migrator[m].up
      /\ r.todo = migrator[m].todo \ {s} /\ r.step = 1
  <2>1. migrator[m].up \in BOOLEAN /\ migrator[m].todo \ {s} \in SUBSET Scripts
    BY <1>2 DEF AtWork
  <2>2. 1 \in Nat \ {0}
    OBVIOUS
  <2>3. QED
    BY <2>1, <2>2, WorkShape
<1> HIDE DEF r
<1>4. QED
  BY <1>1, <1>2, <1>3 DEF SchemaInv, SchemaTypes

\* A script's record, when the script is in effect, or is not any more.
LEMMA RecordedHolds ==
    ASSUME SchemaInv, NEW m \in Pair, NEW s \in Scripts,
           Schema!Doing(m, s), Schema!Recordable(m, s), Schema!Record(m, s), Schema!Done(m, s),
           ran' \in [Scripts -> SUBSET Nat], \A t \in Scripts : t # s => ran'[t] = ran[t],
           ran'[s] \subseteq Schema!Steps(s),
           Trusted /\ migrator[m].up => ran'[s] = Schema!Steps(s),
           ~migrator[m].up /\ s \notin NoTransaction => ran'[s] = {},
           ~lockLost => \A o \in Pair : ~Schema!StillAt(o, s),
           advisory' = advisory, lockLost' = lockLost
    PROVE  SchemaInv'
<1>1. /\ migrator[m] \in AtWork /\ migrator' \in [Pair -> Asked \cup AtWork \cup Leaving]
      /\ migrator'[m].pc = "next" /\ migrator'[m].up = migrator[m].up
      /\ migrator'[m].todo = migrator[m].todo \ {s} /\ migrator'[m].step = 1
      /\ \A o \in Pair : o # m => migrator'[o] = migrator[o]
  BY ScriptDone
<1>2. /\ applied' = IF migrator[m].up THEN applied \cup {s} ELSE applied \ {s}
      /\ reverts' = (reverts \/ ~migrator[m].up)
      /\ torn' = torn \ {s}
  BY DEF Schema!Record
<1>3. migrator[m].up \in BOOLEAN /\ migrator[m].pc = "next"
  BY <1>1 DEF AtWork, Schema!Doing, Schema!NextOf
<1>4. SchemaTypes'
  BY <1>1, <1>2, <1>3 DEF SchemaInv, SchemaTypes, Schema!Steps
<1>5. OneMigrator'
  BY <1>1, <1>3 DEF SchemaInv, OneMigrator
<1>6. Trusted' => Trusted /\ (lockLost => migrator[m].up)
  BY <1>2, <1>3 DEF Trusted
<1>7. Trusted => /\ migrator[m].up => \A t \in 1..s : t # s => t \in applied
                 /\ ~migrator[m].up => s \in applied
                 /\ ~migrator[m].up /\ ~lockLost => \A t \in applied : t <= s
  BY NextScript
<1>8. InTurn'
  <2> SUFFICES ASSUME Trusted', NEW t \in Scripts
               PROVE  Schema!InEffect(t)' /\ (t \in applied' => 1..t \subseteq applied')
    BY DEF InTurn
  <2>1. Trusted /\ Schema!InEffect(t) /\ (t \in applied => 1..t \subseteq applied)
    BY <1>6 DEF SchemaInv, InTurn
  <2>2. Schema!InEffect(t)'
    <3>1. CASE t # s
      BY <1>2, <2>1, <3>1 DEF Schema!InEffect, Schema!Steps
    <3>2. CASE t = s /\ migrator[m].up
      BY <1>2, <2>1, <3>2 DEF Schema!InEffect, Schema!Steps
    <3>3. CASE t = s /\ ~migrator[m].up
      BY <1>2, <3>3 DEF Schema!InEffect, Schema!Steps
    <3>4. QED
      BY <3>1, <3>2, <3>3
  <2>3. ASSUME t \in applied' PROVE 1..t \subseteq applied'
    <3>1. CASE migrator[m].up
      BY <1>2, <1>7, <2>1, <2>3, <3>1
    <3>2. CASE ~migrator[m].up
      <4>1. t \in applied /\ t # s /\ t <= s
        BY <1>2, <1>6, <1>7, <2>1, <2>3, <3>2
      <4>2. s \in Nat /\ t \in Nat
        BY ScriptsOrdered
      <4>3. s \notin 1..t
        BY <4>1, <4>2
      <4>4. QED
        BY <1>2, <2>1, <3>2, <4>1, <4>3
    <3>3. QED
      BY <3>1, <3>2
  <2>4. QED
    BY <2>2, <2>3
<1>9. AtTheirWork'
  <2> SUFFICES ASSUME Trusted', NEW o \in Pair, migrator'[o].pc = "next"
               PROVE  (IF migrator[o].up THEN Applying(o) ELSE Reverting(o))'
    BY DEF AtTheirWork
  <2>1. CASE o = m /\ migrator[m].up
    <3>1. 1..(1 - 1) = {}
      OBVIOUS
    <3>2. Applying(m)
      BY <1>3, <1>6, <2>1 DEF SchemaInv, AtTheirWork
    <3>3. \A t \in migrator'[m].todo : 1..t \subseteq applied' \cup migrator'[m].todo
      BY <1>1, <1>2, <2>1, <3>2 DEF Applying
    <3>4. QED
      BY <1>1, <2>1, <3>1, <3>3 DEF Applying
  <2>2. CASE o = m /\ ~migrator[m].up
    <3>1. Reverting(m)
      BY <1>3, <1>6, <2>2 DEF SchemaInv, AtTheirWork
    <3>2. QED
      BY <1>1, <1>2, <2>2, <3>1 DEF Reverting
  <2>3. CASE o # m
    <3>1. migrator'[o] = migrator[o]
      BY <1>1, <2>3
    <3>2. lockLost /\ migrator[m].up
      BY <1>3, <1>6, <2>3, <3>1 DEF SchemaInv, OneMigrator
    <3>3. IF migrator[o].up THEN Applying(o) ELSE Reverting(o)
      BY <1>6, <3>1 DEF SchemaInv, AtTheirWork
    <3>4. CASE ~migrator[o].up
      BY <1>2, <3>1, <3>2, <3>3, <3>4 DEF Reverting
    <3>5. CASE migrator[o].up
      <4>1. \A t \in migrator[o].todo : 1..t \subseteq applied' \cup migrator[o].todo
        BY <1>2, <3>2, <3>3, <3>5 DEF Applying
      <4>2. ASSUME NEW t \in NoTransaction, Schema!Doing(o, t), t \notin applied'
            PROVE  1..(migrator[o].step - 1) \subseteq ran'[t]
        <5>1. t # s /\ t \notin applied /\ t \in Scripts
          BY <1>2, <3>2, <4>2, ScriptsOrdered
        <5>2. QED
          BY <3>3, <3>5, <4>2, <5>1 DEF Applying
      <4>3. \A t : Schema!Doing(o, t)' => Schema!Doing(o, t)
        BY <3>1 DEF Schema!Doing, Schema!NextOf
      <4>4. QED
        BY <3>1, <3>5, <4>1, <4>2, <4>3 DEF Applying
    <3>6. QED
      BY <3>4, <3>5
  <2>4. QED
    BY <2>1, <2>2, <2>3, <1>3
<1>11. LateKept'
  <2> SUFFICES ASSUME NEW o \in Pair, NEW t \in Scripts, Schema!StillAt(o, t)'
               PROVE  /\ t \in NoTransaction /\ migrator'[o].step \in 1..Statements
                      /\ Trusted' /\ ~migrator'[o].up => t \in applied'
                      /\ ~lockLost' => \A p \in Pair : Schema!Doing(p, t)'
                                                        => migrator'[p].step <= migrator'[o].step
    BY DEF LateKept
  <2>1. o # m /\ migrator'[o] = migrator[o] /\ Schema!StillAt(o, t)
    BY <1>1 DEF Schema!StillAt, Schema!NextOf
  <2>2. \A p \in Pair : p # m /\ Schema!Doing(p, t)' => Schema!Doing(p, t) /\ migrator'[p] = migrator[p]
    BY <1>1 DEF Schema!Doing, Schema!NextOf
  <2>3. t \in NoTransaction /\ migrator[o].step \in 1..Statements
    BY <2>1 DEF SchemaInv, LateKept
  <2>4. ~lockLost' => \A p \in Pair : Schema!Doing(p, t)' => migrator'[p].step <= migrator'[o].step
    BY <1>1, <2>1, <2>2, <2>3 DEF SchemaInv, LateKept
  <2>5. ASSUME Trusted', ~migrator'[o].up PROVE t \in applied'
    <3>1. t \in applied
      BY <1>6, <2>1, <2>5 DEF SchemaInv, LateKept
    <3>2. CASE migrator[m].up
      BY <1>2, <3>1, <3>2
    <3>3. CASE ~migrator[m].up
      BY <1>2, <1>6, <2>1, <2>5, <3>1, <3>3
    <3>4. QED
      BY <3>2, <3>3
  <2>6. QED
    BY <2>1, <2>3, <2>4, <2>5
<1>10. QED
  BY <1>4, <1>5, <1>8, <1>9, <1>11 DEF SchemaInv

LEMMA ScriptRunInTx ==
    ASSUME SchemaInv, NEW m \in Pair, NEW s \in Scripts, Schema!RunInTx(m, s)
    PROVE  SchemaInv'
<1>1. /\ Schema!Doing(m, s) /\ s \notin NoTransaction /\ Schema!Recordable(m, s)
      /\ ran' = [ran EXCEPT ![s] = IF migrator[m].up THEN {1} ELSE {}]
      /\ Schema!Record(m, s) /\ Schema!Done(m, s)
      /\ advisory' = advisory /\ lockLost' = lockLost
  BY DEF Schema!RunInTx
<1>2. ran' \in [Scripts -> SUBSET Nat] /\ \A t \in Scripts : t # s => ran'[t] = ran[t]
  BY <1>1 DEF SchemaInv, SchemaTypes
<1>3. ran'[s] = IF migrator[m].up THEN {1} ELSE {}
  BY <1>1 DEF SchemaInv, SchemaTypes
<1>4. Schema!Steps(s) = {1}
  BY <1>1 DEF Schema!Steps
<1>6. \A o \in Pair : ~Schema!StillAt(o, s)
  BY <1>1 DEF SchemaInv, LateKept
<1>5. QED
  BY <1>1, <1>2, <1>3, <1>4, <1>6, RecordedHolds

LEMMA ScriptRecorded ==
    ASSUME SchemaInv, NEW m \in Pair, NEW s \in Scripts, Schema!RecordEach(m, s)
    PROVE  SchemaInv'
<1>1. /\ Schema!Doing(m, s) /\ s \in NoTransaction /\ Schema!Recordable(m, s)
      /\ migrator[m].step > Statements /\ ran' = ran
      /\ Schema!Record(m, s) /\ Schema!Done(m, s)
      /\ advisory' = advisory /\ lockLost' = lockLost
  BY DEF Schema!RecordEach
<1>2. ran' \in [Scripts -> SUBSET Nat] /\ ran'[s] \subseteq Schema!Steps(s)
  BY <1>1 DEF SchemaInv, SchemaTypes
<1>3. Schema!Steps(s) = 1..Statements
  BY <1>1 DEF Schema!Steps
<1>4. migrator[m].step \in Nat /\ Statements \in Nat
  BY <1>1, ScriptDone, ScriptsOrdered DEF AtWork
<1>5. ASSUME Trusted, migrator[m].up PROVE ran'[s] = Schema!Steps(s)
  <2>1. s \notin applied /\ migrator[m].pc = "next"
    BY <1>1, <1>5 DEF Schema!Recordable, Schema!Doing, Schema!NextOf
  <2>2. 1..(migrator[m].step - 1) \subseteq ran[s]
    BY <1>1, <1>5, <2>1 DEF SchemaInv, AtTheirWork, Applying
  <2>3. 1..Statements \subseteq 1..(migrator[m].step - 1)
    BY <1>1, <1>4
  <2>4. QED
    BY <1>1, <1>2, <1>3, <2>2, <2>3
<1>7. ~lockLost => \A o \in Pair : ~Schema!StillAt(o, s)
  BY <1>1, <1>4 DEF SchemaInv, LateKept
<1>6. QED
  BY <1>1, <1>2, <1>5, <1>7, RecordedHolds

LEMMA StatementRun ==
    ASSUME SchemaInv, NEW m \in Pair, NEW s \in Scripts, Schema!RunStatement(m, s)
    PROVE  SchemaInv'
<1> DEFINE i == migrator[m].step
           r == Schema!Work(migrator[m].up, migrator[m].todo, i + 1)
<1>1. /\ Schema!Doing(m, s) /\ s \in NoTransaction /\ i <= Statements
      /\ ran' = [ran EXCEPT ![s] = IF migrator[m].up THEN @ \cup {i} ELSE @ \ {i}]
      /\ migrator' = [migrator EXCEPT ![m] = r]
      /\ torn' = IF migrator[m].up THEN torn ELSE torn \cup {s}
      /\ UNCHANGED <<applied, advisory, lockLost, reverts>>
  BY DEF Schema!RunStatement, Schema!Execute, Schema!Become
<1>2. migrator[m].pc = "next"
  BY <1>1 DEF Schema!Doing, Schema!NextOf
<1>3. migrator[m] \in AtWork
  BY <1>2 DEF SchemaInv, SchemaTypes, Asked, Leaving
<1>4. i \in Nat \ {0} /\ i + 1 \in Nat \ {0} /\ migrator[m].up \in BOOLEAN /\ Statements \in Nat
  BY <1>3, ScriptsOrdered DEF AtWork
<1>5. /\ r \in AtWork /\ r.pc = "next" /\ r.up = migrator[m].up
      /\ r.todo = migrator[m].todo /\ r.step = i + 1
  <2>1. migrator[m].todo \in SUBSET Scripts
    BY <1>3 DEF AtWork
  <2>2. QED
    BY <1>4, <2>1, WorkShape
<1> HIDE DEF r
<1>6. /\ migrator' \in [Pair -> Asked \cup AtWork \cup Leaving] /\ migrator'[m] = r
      /\ \A o \in Pair : o # m => migrator'[o] = migrator[o]
  BY <1>1, <1>5 DEF SchemaInv, SchemaTypes
<1>7. \A t \in Scripts : t # s => ran'[t] = ran[t]
  BY <1>1 DEF SchemaInv, SchemaTypes
<1>8. ran'[s] = IF migrator[m].up THEN ran[s] \cup {i} ELSE ran[s] \ {i}
  BY <1>1 DEF SchemaInv, SchemaTypes
<1>9. Schema!Steps(s) = 1..Statements /\ ran[s] \subseteq 1..Statements /\ i \in 1..Statements
  BY <1>1, <1>4 DEF SchemaInv, SchemaTypes, Schema!Steps
<1>10. SchemaTypes'
  <2>1. ran'[s] \subseteq Schema!Steps(s) /\ ran'[s] \in SUBSET Nat
    BY <1>8, <1>9
  <2>2. ran' \in [Scripts -> SUBSET Nat]
    BY <1>1, <1>4 DEF SchemaInv, SchemaTypes
  <2>3. QED
    BY <1>1, <1>6, <1>7, <2>1, <2>2 DEF SchemaInv, SchemaTypes, Schema!Steps
<1>11. OneMigrator'
  BY <1>1, <1>2, <1>5, <1>6 DEF SchemaInv, OneMigrator
<1>12. Trusted' <=> Trusted
  BY <1>1 DEF Trusted
<1>13. InTurn'
  <2> SUFFICES ASSUME Trusted, NEW t \in Scripts
               PROVE  Schema!InEffect(t)' /\ (t \in applied' => 1..t \subseteq applied')
    BY <1>12 DEF InTurn
  <2>1. Schema!InEffect(t) /\ (t \in applied => 1..t \subseteq applied)
    BY DEF SchemaInv, InTurn
  <2>2. CASE t # s
    BY <1>1, <1>7, <2>1, <2>2 DEF Schema!InEffect, Schema!Steps
  <2>3. CASE t = s
    BY <1>1, <1>8, <1>9, <2>1, <2>3 DEF Schema!InEffect, Schema!Steps
  <2>4. QED
    BY <2>2, <2>3
<1>14. ~migrator[m].up /\ Trusted => s \in applied
  BY <1>1, NextScript
<1>15. AtTheirWork'
  <2> SUFFICES ASSUME Trusted, NEW o \in Pair, migrator'[o].pc = "next"
               PROVE  (IF migrator[o].up THEN Applying(o) ELSE Reverting(o))'
    BY <1>12 DEF AtTheirWork
  <2>1. /\ migrator[o].pc = "next" /\ migrator'[o].up = migrator[o].up
        /\ migrator'[o].todo = migrator[o].todo
    BY <1>2, <1>5, <1>6
  <2>2. IF migrator[o].up THEN Applying(o) ELSE Reverting(o)
    BY <2>1 DEF SchemaInv, AtTheirWork
  <2>3. CASE ~migrator[o].up
    BY <1>1, <2>1, <2>2, <2>3 DEF Reverting
  <2>4. CASE migrator[o].up
    <3>1. \A t : Schema!Doing(o, t)' => Schema!Doing(o, t)
      BY <2>1, <2>4 DEF Schema!Doing, Schema!NextOf
    <3>2. ASSUME NEW t \in NoTransaction, Schema!Doing(o, t), t \notin applied
          PROVE  1..(migrator'[o].step - 1) \subseteq ran'[t]
      <4>1. t \in Scripts /\ 1..(migrator[o].step - 1) \subseteq ran[t]
        BY <2>2, <2>4, <3>2, ScriptsOrdered DEF Applying
      <4>2. CASE t # s
        <5>1. o # m
          <6>1. ASSUME o = m PROVE t = s
            <7>1. /\ s \in migrator[m].todo /\ t \in migrator[m].todo /\ s <= t /\ t <= s
              BY <1>1, <2>4, <3>2, <6>1 DEF Schema!Doing, Schema!NextOf
            <7>2. s \in Nat /\ t \in Nat
              BY <4>1, ScriptsOrdered
            <7>3. QED
              BY <7>1, <7>2
          <6>2. QED
            BY <4>2, <6>1
        <5>2. QED
          BY <1>6, <1>7, <4>1, <4>2, <5>1
      <4>3. CASE t = s
        <5>1. ran'[s] = ran[s] \cup {i}
          BY <1>8, <1>14, <3>2, <4>3
        <5>2. CASE o # m
          BY <1>6, <4>1, <4>3, <5>1, <5>2
        <5>3. CASE o = m
          <6>1. migrator'[o].step - 1 = i /\ 1..i = (1..(i - 1)) \cup {i}
            BY <1>4, <1>5, <1>6, <5>3
          <6>2. QED
            BY <4>1, <4>3, <5>1, <5>3, <6>1
        <5>4. QED
          BY <5>2, <5>3
      <4>4. QED
        BY <4>2, <4>3
    <3>3. QED
      BY <1>1, <2>1, <2>2, <2>4, <3>1, <3>2 DEF Applying
  <2>5. QED
    BY <2>3, <2>4
<1>17. LateKept'
  <2> SUFFICES ASSUME NEW o \in Pair, NEW t \in Scripts, Schema!StillAt(o, t)'
               PROVE  /\ t \in NoTransaction /\ migrator'[o].step \in 1..Statements
                      /\ Trusted /\ ~migrator'[o].up => t \in applied'
                      /\ ~lockLost' => \A p \in Pair : Schema!Doing(p, t)'
                                                        => migrator'[p].step <= migrator'[o].step
    BY <1>12 DEF LateKept
  <2>1. o # m /\ migrator'[o] = migrator[o] /\ Schema!StillAt(o, t)
    BY <1>5, <1>6 DEF Schema!StillAt, Schema!NextOf
  <2>2. /\ t \in NoTransaction /\ migrator[o].step \in 1..Statements
        /\ Trusted /\ ~migrator[o].up => t \in applied
        /\ ~lockLost => \A p \in Pair : Schema!Doing(p, t) => migrator[p].step <= migrator[o].step
    BY <2>1 DEF SchemaInv, LateKept
  <2>3. \A p \in Pair : p # m /\ Schema!Doing(p, t)' => Schema!Doing(p, t) /\ migrator'[p] = migrator[p]
    BY <1>6 DEF Schema!Doing, Schema!NextOf
  <2>4. ASSUME ~lockLost, Schema!Doing(m, t)' PROVE i + 1 <= migrator[o].step
    <3>1. Schema!Doing(m, t)
      BY <1>2, <1>5, <1>6, <2>4 DEF Schema!Doing, Schema!NextOf
    <3>2. t = s
      BY <1>1, <1>2, <3>1, OneNext DEF Schema!Doing
    <3>3. migrator[o].step # i
      BY <2>1, <3>2 DEF Schema!RunStatement
    <3>4. i <= migrator[o].step
      BY <2>2, <2>4, <3>1
    <3>5. QED
      BY <1>4, <2>2, <3>3, <3>4
  <2>5. QED
    BY <1>1, <1>5, <1>6, <2>1, <2>2, <2>3, <2>4
<1>16. QED
  BY <1>10, <1>11, <1>13, <1>15, <1>17 DEF SchemaInv

\* The statement that was left running takes effect late: its script is not recorded before.
LEMMA StatementEndsLate ==
    ASSUME SchemaInv, NEW m \in Pair, NEW s \in Scripts, Schema!EndsLate(m, s)
    PROVE  SchemaInv'
<1> DEFINE i == migrator[m].step
           r == [pc |-> "ended"]
<1>1. /\ Schema!StillAt(m, s) /\ migrator[m].pc = "late"
      /\ migrator' = [migrator EXCEPT ![m] = r]
      /\ UNCHANGED <<applied, advisory, lockLost, reverts>>
  BY DEF Schema!EndsLate, Schema!StillAt, Schema!Become, Schema!Ended
<1>2. r \in Leaving /\ r.pc = "ended"
  BY DEF Leaving
<1> HIDE DEF r
<1>3. /\ s \in NoTransaction /\ i \in 1..Statements /\ migrator[m] \in AtWork
      /\ Trusted /\ ~migrator[m].up => s \in applied
  BY <1>1 DEF SchemaInv, SchemaTypes, LateKept, Asked, Leaving
<1>4. CASE UNCHANGED <<ran, torn>>
  BY <1>1, <1>2, <1>4, MigratorMoves
<1>5. CASE Schema!Execute(m, s)
  <2>1. /\ migrator' \in [Pair -> Asked \cup AtWork \cup Leaving] /\ migrator'[m] = r
        /\ \A o \in Pair : o # m => migrator'[o] = migrator[o]
    BY <1>1, <1>2 DEF SchemaInv, SchemaTypes
  <2>2. /\ ran' = [ran EXCEPT ![s] = IF migrator[m].up THEN @ \cup {i} ELSE @ \ {i}]
        /\ torn' = IF migrator[m].up THEN torn ELSE torn \cup {s}
    BY <1>5 DEF Schema!Execute
  <2>3. /\ \A t \in Scripts : t # s => ran'[t] = ran[t]
        /\ ran'[s] = IF migrator[m].up THEN ran[s] \cup {i} ELSE ran[s] \ {i}
    BY <2>2 DEF SchemaInv, SchemaTypes
  <2>4. Schema!Steps(s) = 1..Statements /\ ran[s] \subseteq 1..Statements
    BY <1>3 DEF SchemaInv, SchemaTypes, Schema!Steps
  <2>5. SchemaTypes'
    <3>1. ran'[s] \subseteq Schema!Steps(s) /\ ran'[s] \in SUBSET Nat /\ i \in Nat
      BY <1>3, <2>3, <2>4, ScriptsOrdered
    <3>2. ran' \in [Scripts -> SUBSET Nat]
      BY <2>2, <3>1 DEF SchemaInv, SchemaTypes
    <3>3. QED
      BY <1>1, <2>1, <2>3, <3>1, <3>2 DEF SchemaInv, SchemaTypes, Schema!Steps
  <2>6. OneMigrator'
    BY <1>1, <1>2, <2>1 DEF SchemaInv, OneMigrator
  <2>7. Trusted' <=> Trusted
    BY <1>1 DEF Trusted
  <2>8. InTurn'
    <3> SUFFICES ASSUME Trusted, NEW t \in Scripts
                 PROVE  Schema!InEffect(t)' /\ (t \in applied' => 1..t \subseteq applied')
      BY <2>7 DEF InTurn
    <3>1. Schema!InEffect(t) /\ (t \in applied => 1..t \subseteq applied)
      BY DEF SchemaInv, InTurn
    <3>2. CASE t # s
      BY <1>1, <2>2, <2>3, <3>1, <3>2 DEF Schema!InEffect, Schema!Steps
    <3>3. CASE t = s
      BY <1>1, <1>3, <2>2, <2>3, <2>4, <3>1, <3>3 DEF Schema!InEffect, Schema!Steps
    <3>4. QED
      BY <3>2, <3>3
  <2>9. AtTheirWork'
    <3> SUFFICES ASSUME Trusted, NEW o \in Pair, migrator'[o].pc = "next"
                 PROVE  (IF migrator[o].up THEN Applying(o) ELSE Reverting(o))'
      BY <2>7 DEF AtTheirWork
    <3>1. migrator'[o] = migrator[o] /\ migrator[o].pc = "next"
      BY <1>2, <2>1
    <3>2. IF migrator[o].up THEN Applying(o) ELSE Reverting(o)
      BY <3>1 DEF SchemaInv, AtTheirWork
    <3>3. CASE ~migrator[o].up
      BY <1>1, <3>1, <3>2, <3>3 DEF Reverting
    <3>4. CASE migrator[o].up
      <4>1. \A t \in NoTransaction : t \notin applied => ran[t] \subseteq ran'[t]
        BY <1>3, <2>3, ScriptsOrdered
      <4>2. \A t : Schema!Doing(o, t)' => Schema!Doing(o, t)
        BY <3>1 DEF Schema!Doing, Schema!NextOf
      <4>3. \A t \in NoTransaction : Schema!Doing(o, t)' /\ t \notin applied
                                        => 1..(migrator[o].step - 1) \subseteq ran'[t]
        BY <3>2, <3>4, <4>1, <4>2 DEF Applying
      <4>4. QED
        BY <1>1, <3>1, <3>2, <3>4, <4>3 DEF Applying
    <3>5. QED
      BY <3>3, <3>4
  <2>10. LateKept'
    <3> SUFFICES ASSUME NEW o \in Pair, NEW t \in Scripts, Schema!StillAt(o, t)'
                 PROVE  /\ t \in NoTransaction /\ migrator'[o].step \in 1..Statements
                        /\ Trusted' /\ ~migrator'[o].up => t \in applied'
                        /\ ~lockLost' => \A p \in Pair : Schema!Doing(p, t)'
                                                          => migrator'[p].step <= migrator'[o].step
      BY DEF LateKept
    <3>1. o # m /\ migrator'[o] = migrator[o] /\ Schema!StillAt(o, t)
      BY <1>2, <2>1 DEF Schema!StillAt, Schema!NextOf
    <3>2. \A p \in Pair : Schema!Doing(p, t)' => Schema!Doing(p, t) /\ migrator'[p] = migrator[p]
      BY <1>2, <2>1 DEF Schema!Doing, Schema!NextOf
    <3>3. QED
      BY <1>1, <2>7, <3>1, <3>2 DEF SchemaInv, LateKept
  <2>11. QED
    BY <2>5, <2>6, <2>8, <2>9, <2>10 DEF SchemaInv
<1>6. QED
  BY <1>4, <1>5 DEF Schema!EndsLate

LEMMA MigrationsAlone == part = "migrations" /\ [Next]_vars => [Schema!Next]_schemaVars
<1>1. ASSUME part = "migrations", Next PROVE [Schema!Next]_schemaVars
  BY <1>1 DEF Next, RenewalStep, FactorStep, ConnectedStep, PoolStep, CacheStep, SavedStep,
     OutboxStep, StripeStep, SchemaStep, PolicyStep, CalendarStep, GeneratedStep,
     MergeStep, DevStep, ModelStep, UploadStep, LifeStep, DecimalStep
<1>2. ASSUME UNCHANGED vars PROVE UNCHANGED schemaVars
  BY <1>2 DEF vars, state, schemaVars
<1>3. QED
  BY <1>1, <1>2

Migrating == part = "migrations" => SchemaInv

LEMMA MigratingHolds == Migrating /\ [Next]_vars => Migrating'
<1>1. ASSUME SchemaInv, UNCHANGED schemaVars PROVE SchemaInv'
  BY <1>1 DEF schemaVars, SchemaInv, SchemaTypes, OneMigrator, AtTheirWork, InTurn, Trusted, Applying,
     Reverting, LateKept, Schema!StillAt, Schema!Doing, Schema!NextOf, Schema!InEffect, Schema!Steps
<1>2. ASSUME SchemaInv, Schema!Next PROVE SchemaInv'
  BY <1>2, MigratorBegins, LockTaken, StatusTaken, ScriptRunInTx, StatementRun, ScriptRecorded,
     TimedOut, MigratorLeaves, MigratorKilled, StatementEndsLate, LockLost DEF Schema!Next
<1>3. QED
  BY <1>1, <1>2, MigrationsAlone, OnePart DEF Migrating

\* The table of migrations tells what of the schema is there: for any number of scripts,
\* statements and processes, killed or cut off from the lock anywhere, also while the server
\* is still at a statement of theirs.
THEOREM TableTells == Spec => []RecordTells
<1>1. Init => Migrating
  BY MigrationsBegin DEF Init, Migrating
<1>2. Migrating => RecordTells
  BY DEF Migrating, SchemaInv, InTurn, Trusted, RecordTells, Schema!RecordTells
<1>3. QED
  BY <1>1, <1>2, MigratingHolds, PTL DEF Spec

-----------------------------------------------------------------------------
(* The application from its start to its end.                              *)

stage == x1
packsOn == x2
around == x3
working == x4
listening == x5
busy == x6
deadline == x7
hooks == x8
failure == x9
sockets == x10
lifeVars == <<x1, x2, x3, x4, x5, x6, x10, x7, x8, x9>>
USE DEF stage, packsOn, around, working, listening, busy, deadline, hooks, failure, sockets

LifeTypes ==
    /\ stage \in {"boot", "onStart", "listen", "serve", "shutdown first", "shutdown last",
                  "onShutdown", "stop", "returned"}
    /\ busy \in [Life!ServerSet -> Nat]
    /\ listening \subseteq Life!ServerSet
    /\ deadline \in {"none", "run", "over"}

\* The packs that are on are the first ones of the list.
FirstPacks == \E n \in 0..PacksListed : packsOn = 1..n

\* What holds on the way: the packs are all on while a server may run, no server accepts
\* requests before and after, and OnShutdown is still to run or ran, unless the boot failed.
OnTheWay ==
    /\ stage \in {"boot", "listen", "serve"} => deadline = "none" /\ failure = ""
    /\ stage \notin {"stop", "returned"} => hooks = 0
    /\ stage \in {"listen", "serve", "shutdown first", "shutdown last", "onShutdown"} =>
          packsOn = Life!Packs
    /\ stage \notin {"serve", "shutdown first"} => listening = {}
    /\ stage = "shutdown first" => Life!First \notin listening
    /\ stage \in {"stop", "returned"} => hooks = 1 \/ failure \in {"handler", "sidecar", "pack"}
    /\ stage = "returned" => packsOn = {} /\ (around # {} => failure = "sidecar")

\* In time, a server that was shut down has no requests, and work has its packs.
Drained ==
    Life!InTime =>
        /\ stage \notin {"serve", "shutdown first", "shutdown last"} =>
              \A s \in Life!ServerSet : busy[s] = 0
        /\ stage = "shutdown last" => busy[Life!First] = 0
        /\ working \subseteq packsOn

LifeInv == LifeTypes /\ FirstPacks /\ OnTheWay /\ Drained

LEMMA TwoServers ==
    /\ Life!ServerSet = {"private", "app"}
    /\ Life!First = "private" /\ Life!Last = "app" /\ Life!Packs = 1..PacksListed
    /\ PacksListed \in Nat \ {0}
<1>1. 1..2 = {1, 2}
  OBVIOUS
<1>2. PacksListed \in Nat \ {0}
  BY PartsAssumption
<1>3. QED
  BY <1>1, <1>2 DEF Life!ServerSet, Life!First, Life!Last, Life!Packs

LEMMA LifeBegins == Life!Init => LifeInv
<1> SUFFICES ASSUME Life!Init PROVE LifeInv
  OBVIOUS
<1>1. /\ stage = "boot" /\ packsOn = {} /\ around = {} /\ working = {} /\ listening = {}
      /\ busy = [s \in Life!ServerSet |-> 0] /\ deadline = "none" /\ hooks = 0 /\ failure = ""
  BY DEF Life!Init
<1>2. 1..0 = {} /\ 0 \in 0..PacksListed
  BY TwoServers
<1>3. FirstPacks
  BY <1>1, <1>2 DEF FirstPacks
<1>4. QED
  BY <1>1, <1>3 DEF LifeInv, LifeTypes, FirstPacks, OnTheWay, Drained

\* Only requests come and go.
LEMMA ArrivesHolds == ASSUME LifeInv, NEW s \in Life!ServerSet, Life!Arrives(s) PROVE LifeInv'
<1>1. /\ s \in listening /\ busy' = [busy EXCEPT ![s] = @ + 1]
      /\ UNCHANGED <<stage, packsOn, around, working, listening, deadline, hooks, failure>>
  BY DEF Life!Arrives
<1>2. stage \in {"serve", "shutdown first"}
  BY <1>1 DEF LifeInv, OnTheWay
<1>3. busy' \in [Life!ServerSet -> Nat]
  <2>1. busy \in [Life!ServerSet -> Nat]
    BY DEF LifeInv, LifeTypes
  <2>2. QED
    BY <1>1, <2>1
<1>4. QED
  BY <1>1, <1>2, <1>3 DEF LifeInv, LifeTypes, FirstPacks, OnTheWay, Drained, Life!InTime

\* A request that ends, or takes its connection over, is none any more that a server waits for.
LEMMA FewerHolds ==
    ASSUME LifeInv, NEW s \in Life!ServerSet, busy[s] > 0, busy' = [busy EXCEPT ![s] = @ - 1],
           UNCHANGED <<stage, packsOn, around, working, listening, deadline, hooks, failure>>
    PROVE  LifeInv'
<1>1. busy \in [Life!ServerSet -> Nat]
  BY DEF LifeInv, LifeTypes
<1>2. busy' \in [Life!ServerSet -> Nat]
  BY <1>1
<1>3. \A r \in Life!ServerSet : busy[r] = 0 => busy'[r] = 0
  BY <1>1
<1>4. Drained'
  BY <1>3, TwoServers DEF LifeInv, Drained, Life!InTime
<1>5. QED
  BY <1>2, <1>4 DEF LifeInv, LifeTypes, FirstPacks, OnTheWay

LEMMA LifeAnsweredHolds ==
    ASSUME LifeInv, NEW s \in Life!ServerSet, Life!Answered(s) \/ Life!Hijacks(s)
    PROVE  LifeInv'
  BY FewerHolds DEF Life!Answered, Life!Hijacks

LEMMA SocketEndsHolds == ASSUME LifeInv, NEW s \in Life!ServerSet, Life!SocketEnds(s) PROVE LifeInv'
<1>1. UNCHANGED <<stage, packsOn, around, working, listening, busy, deadline, hooks, failure>>
  BY DEF Life!SocketEnds
<1>2. QED
  BY <1>1 DEF LifeInv, LifeTypes, FirstPacks, OnTheWay, Drained, Life!InTime

LEMMA WorkEndsHolds == ASSUME LifeInv, NEW p \in Life!Packs, Life!WorkEnds(p) PROVE LifeInv'
<1>1. /\ working' = working \ {p}
      /\ UNCHANGED <<stage, packsOn, around, listening, busy, deadline, hooks, failure>>
  BY DEF Life!WorkEnds
<1>2. QED
  BY <1>1 DEF LifeInv, LifeTypes, FirstPacks, OnTheWay, Drained, Life!InTime

LEMMA TimePassesHolds == ASSUME LifeInv, Life!TimePasses PROVE LifeInv'
<1>1. /\ deadline' = "over" /\ stage \notin {"boot", "listen", "serve"}
      /\ UNCHANGED <<stage, packsOn, around, working, listening, busy, hooks, failure>>
  BY DEF Life!TimePasses, LifeInv, OnTheWay
<1>2. QED
  BY <1>1 DEF LifeInv, LifeTypes, FirstPacks, OnTheWay, Drained, Life!InTime

\* A step that leaves the requests, the packs' work and what counts as late alone.
LEMMA BootBeginsHolds == ASSUME LifeInv, Life!BootBegins PROVE LifeInv'
<1>1. /\ stage = "boot" /\ packsOn = {}
      /\ UNCHANGED <<packsOn, working, listening, busy, deadline, hooks>>
      /\ \/ stage' = "boot" /\ failure' = failure
         \/ stage' = "returned" /\ failure' = "handler" /\ around' = around
         \/ stage' = "returned" /\ failure' = "sidecar"
      /\ around = {}
  BY DEF Life!BootBegins
<1>2. LifeTypes' /\ FirstPacks' /\ OnTheWay'
  BY <1>1 DEF LifeInv, LifeTypes, FirstPacks, OnTheWay
<1>3. deadline = "none" /\ failure = "" /\ Life!InTime
  BY <1>1 DEF LifeInv, OnTheWay, Life!InTime
<1>4. Drained'
  BY <1>1, <1>3 DEF LifeInv, Drained
<1>5. QED
  BY <1>2, <1>4 DEF LifeInv

LEMMA HowMany ==
    ASSUME LifeInv
    PROVE  Life!Cardinality(packsOn) \in 0..PacksListed /\ packsOn = 1..Life!Cardinality(packsOn)
<1>1. PICK n \in 0..PacksListed : packsOn = 1..n
  BY DEF LifeInv, FirstPacks
<1>2. n \in Nat /\ n - 1 + 1 = n
  BY <1>1, TwoServers
<1>3. Cardinality(1..n) = n
  BY <1>2, FS_Interval
<1>4. Life!Cardinality(packsOn) = Cardinality(packsOn)
  BY DEF Cardinality, Life!Cardinality
<1>5. QED
  BY <1>1, <1>3, <1>4

LEMMA StartPackHolds == ASSUME LifeInv, Life!StartPack PROVE LifeInv'
<1> DEFINE n == Life!Cardinality(packsOn)
<1>1. n \in 0..PacksListed /\ packsOn = 1..n /\ n \in Nat
  BY HowMany, TwoServers
<1>2. /\ stage = "boot" /\ packsOn # Life!Packs
      /\ UNCHANGED <<around, listening, busy, hooks>>
      /\ \/ /\ packsOn' = packsOn \cup {n + 1} /\ working' = working \cup {n + 1}
            /\ UNCHANGED <<stage, deadline, failure>>
         \/ /\ stage' = "stop" /\ deadline' \in {"none", "over"} /\ failure' = "pack"
            /\ UNCHANGED <<packsOn, working>>
  BY DEF Life!StartPack, Life!FailsBefore
<1>3. /\ deadline = "none" /\ failure = "" /\ hooks = 0 /\ listening = {}
  BY <1>2 DEF LifeInv, OnTheWay
<1>4. /\ working \subseteq packsOn /\ \A s \in Life!ServerSet : busy[s] = 0
  BY <1>2, <1>3 DEF LifeInv, Drained, Life!InTime
<1> HIDE DEF n
<1>5. CASE /\ packsOn' = packsOn \cup {n + 1} /\ working' = working \cup {n + 1}
           /\ UNCHANGED <<stage, deadline, failure>>
  <2>1. n + 1 \in 0..PacksListed
    BY <1>1, <1>2, TwoServers
  <2>2. packsOn' = 1..(n + 1)
    BY <1>1, <1>5
  <2>3. FirstPacks'
    BY <2>1, <2>2 DEF FirstPacks
  <2>4. LifeTypes' /\ OnTheWay' /\ Drained'
    BY <1>2, <1>3, <1>4, <1>5 DEF LifeInv, LifeTypes, OnTheWay, Drained
  <2>5. QED
    BY <2>3, <2>4 DEF LifeInv
<1>6. CASE /\ stage' = "stop" /\ deadline' \in {"none", "over"} /\ failure' = "pack"
           /\ UNCHANGED <<packsOn, working>>
  BY <1>2, <1>3, <1>4, <1>6 DEF LifeInv, LifeTypes, FirstPacks, OnTheWay, Drained
<1>7. QED
  BY <1>2, <1>5, <1>6

LEMMA OnStartHolds == ASSUME LifeInv, Life!OnStart PROVE LifeInv'
<1>1. /\ stage = "boot" /\ packsOn = Life!Packs
      /\ UNCHANGED <<packsOn, around, working, listening, busy, hooks, failure>>
      /\ \/ stage' = "listen" /\ deadline' = deadline
         \/ stage' = "onShutdown" /\ deadline' \in {"none", "over"}
  BY DEF Life!OnStart, Life!FailsBefore
<1>2. deadline = "none" /\ failure = ""
  BY <1>1 DEF LifeInv, OnTheWay
<1>3. QED
  BY <1>1, <1>2 DEF LifeInv, LifeTypes, FirstPacks, OnTheWay, Drained, Life!InTime

LEMMA ListenHolds == ASSUME LifeInv, Life!Listen PROVE LifeInv'
<1>1. /\ stage = "listen"
      /\ UNCHANGED <<packsOn, around, working, busy, hooks, failure>>
      /\ \/ stage' = "serve" /\ listening' = Life!ServerSet /\ deadline' = deadline
         \/ stage' = "onShutdown" /\ deadline' \in {"none", "over"} /\ listening' = listening
  BY DEF Life!Listen, Life!FailsBefore
<1>2. deadline = "none" /\ failure = ""
  BY <1>1 DEF LifeInv, OnTheWay
<1>3. QED
  BY <1>1, <1>2 DEF LifeInv, LifeTypes, FirstPacks, OnTheWay, Drained, Life!InTime

LEMMA ServerFailsHolds == ASSUME LifeInv, Life!ServerFails PROVE LifeInv'
<1>1. /\ stage = "serve" /\ listening' = {} /\ failure' = "server" /\ stage' = "onShutdown"
      /\ UNCHANGED <<packsOn, around, working, busy, deadline, hooks>>
  BY DEF Life!ServerFails
<1>2. QED
  BY <1>1 DEF LifeInv, LifeTypes, FirstPacks, OnTheWay, Drained, Life!InTime

LEMMA SignalledHolds == ASSUME LifeInv, Life!Signalled PROVE LifeInv'
<1>1. /\ stage = "serve" /\ deadline' = "run" /\ listening' = listening \ {Life!First}
      /\ stage' = "shutdown first"
      /\ UNCHANGED <<packsOn, around, working, busy, hooks, failure>>
  BY DEF Life!Signalled
<1>2. deadline = "none" /\ failure = ""
  BY <1>1 DEF LifeInv, OnTheWay
<1>3. QED
  BY <1>1, <1>2 DEF LifeInv, LifeTypes, FirstPacks, OnTheWay, Drained, Life!InTime

LEMMA FirstShutdownHolds == ASSUME LifeInv, Life!FirstShutdown PROVE LifeInv'
<1>1. /\ stage = "shutdown first" /\ listening' = {} /\ stage' = "shutdown last"
      /\ busy[Life!First] = 0 \/ deadline = "over"
      /\ UNCHANGED <<packsOn, around, working, busy, deadline, hooks, failure>>
  BY DEF Life!FirstShutdown, Life!Drained
<1>2. QED
  BY <1>1 DEF LifeInv, LifeTypes, FirstPacks, OnTheWay, Drained, Life!InTime

LEMMA LastShutdownHolds == ASSUME LifeInv, Life!LastShutdown PROVE LifeInv'
<1>1. /\ stage = "shutdown last" /\ stage' = "onShutdown"
      /\ busy[Life!Last] = 0 \/ deadline = "over"
      /\ UNCHANGED <<packsOn, around, working, listening, busy, deadline, hooks, failure>>
  BY DEF Life!LastShutdown, Life!Drained
<1>2. Life!InTime => \A s \in Life!ServerSet : busy[s] = 0
  BY <1>1, TwoServers DEF LifeInv, Drained, Life!InTime
<1>3. QED
  BY <1>1, <1>2 DEF LifeInv, LifeTypes, FirstPacks, OnTheWay, Drained, Life!InTime

LEMMA OnShutdownHolds == ASSUME LifeInv, Life!OnShutdown PROVE LifeInv'
<1>1. /\ stage = "onShutdown" /\ hooks' = hooks + 1 /\ stage' = "stop"
      /\ UNCHANGED <<packsOn, around, working, listening, busy, deadline, failure>>
  BY DEF Life!OnShutdown
<1>2. hooks' = 1
  BY <1>1 DEF LifeInv, OnTheWay
<1>3. QED
  BY <1>1, <1>2 DEF LifeInv, LifeTypes, FirstPacks, OnTheWay, Drained, Life!InTime

LEMMA StopPackHolds == ASSUME LifeInv, Life!StopPack PROVE LifeInv'
<1>1. PICK n \in 0..PacksListed : packsOn = 1..n
  BY DEF LifeInv, FirstPacks
<1>2. /\ stage = "stop" /\ packsOn # {}
      /\ Life!ToStop \in working => deadline = "over"
      /\ packsOn' = packsOn \ {Life!ToStop}
      /\ UNCHANGED <<stage, around, working, listening, busy, deadline, hooks, failure>>
  BY DEF Life!StopPack
<1>3. n \in Nat \ {0} /\ n - 1 \in 0..PacksListed
  BY <1>1, <1>2, TwoServers
<1>4. Life!ToStop = n
  <2>1. n \in packsOn /\ \A q \in packsOn : q <= n
    BY <1>1, <1>3
  <2>2. \A p \in packsOn : (\A q \in packsOn : q <= p) => p = n
    BY <1>1, <1>3, <2>1
  <2>3. QED
    BY <2>1, <2>2 DEF Life!ToStop
<1>5. packsOn' = 1..(n - 1)
  BY <1>1, <1>2, <1>3, <1>4
<1>6. FirstPacks'
  BY <1>3, <1>5 DEF FirstPacks
<1>7. Drained'
  BY <1>2, <1>4 DEF LifeInv, Drained, Life!InTime
<1>8. LifeTypes' /\ OnTheWay'
  BY <1>2 DEF LifeInv, LifeTypes, OnTheWay
<1>9. QED
  BY <1>6, <1>7, <1>8 DEF LifeInv

LEMMA StopRestHolds == ASSUME LifeInv, Life!StopRest PROVE LifeInv'
<1>1. /\ stage = "stop" /\ packsOn = {} /\ around' = {} /\ stage' = "returned"
      /\ UNCHANGED <<packsOn, working, listening, busy, deadline, hooks, failure>>
  BY DEF Life!StopRest
<1>2. QED
  BY <1>1 DEF LifeInv, LifeTypes, FirstPacks, OnTheWay, Drained, Life!InTime

LEMMA LifeAlone == part = "lifecycle" /\ [Next]_vars => [Life!Next]_lifeVars
<1>1. ASSUME part = "lifecycle", Next PROVE [Life!Next]_lifeVars
  BY <1>1 DEF Next, RenewalStep, FactorStep, ConnectedStep, PoolStep, CacheStep, SavedStep,
     OutboxStep, StripeStep, SchemaStep, PolicyStep, CalendarStep, GeneratedStep,
     MergeStep, DevStep, ModelStep, UploadStep, LifeStep, DecimalStep
<1>2. ASSUME UNCHANGED vars PROVE UNCHANGED lifeVars
  BY <1>2 DEF vars, state, lifeVars
<1>3. QED
  BY <1>1, <1>2

LifeRuns == part = "lifecycle" => LifeInv

LEMMA LifeHolds == LifeRuns /\ [Next]_vars => LifeRuns'
<1>1. ASSUME LifeInv, UNCHANGED lifeVars PROVE LifeInv'
  BY <1>1 DEF lifeVars, LifeInv, LifeTypes, FirstPacks, OnTheWay, Drained, Life!InTime
<1>2. ASSUME LifeInv, Life!Next PROVE LifeInv'
  BY <1>2, ArrivesHolds, LifeAnsweredHolds, SocketEndsHolds, WorkEndsHolds, TimePassesHolds, BootBeginsHolds,
     StartPackHolds, OnStartHolds, ListenHolds, ServerFailsHolds, SignalledHolds,
     FirstShutdownHolds, LastShutdownHolds, OnShutdownHolds, StopPackHolds, StopRestHolds
     DEF Life!Next
<1>3. QED
  BY <1>1, <1>2, LifeAlone, OnePart DEF LifeRuns

\* The requests a server waits for have all packs and a pack's work those before it as long as
\* the shutdown is in time, and no pack and no server is left on when Serve has returned: for
\* any number of packs and requests, wherever the start, a server or the signal breaks in, and
\* whichever requests take their connection over (those are not waited for, lidza.go:399).
THEOREM LifecycleHolds == Spec => []LifecycleKept
<1>1. Init => LifeRuns
  BY LifeBegins DEF Init, LifeRuns
<1>2. LifeRuns => LifecycleKept
  <2> SUFFICES ASSUME LifeInv PROVE Life!LifecycleKept
    BY DEF LifecycleKept, LifeRuns
  <2>1. PICK n \in 0..PacksListed : packsOn = 1..n
    BY DEF LifeInv, FirstPacks
  <2>2. ASSUME Life!InTime
        PROVE  /\ (\E s \in Life!ServerSet : busy[s] > 0) => packsOn = Life!Packs
               /\ \A p \in working : 1..p \subseteq packsOn
    <3>1. working \subseteq packsOn
      BY <2>2 DEF LifeInv, Drained
    <3>2. \A p \in working : 1..p \subseteq packsOn
      BY <2>1, <3>1
    <3>3. (\E s \in Life!ServerSet : busy[s] > 0) => stage \in {"serve", "shutdown first", "shutdown last"}
      <4>1. ASSUME NEW s \in Life!ServerSet, busy[s] > 0,
                   stage \notin {"serve", "shutdown first", "shutdown last"}
            PROVE  FALSE
        <5>1. busy[s] = 0
          BY <2>2, <4>1 DEF LifeInv, Drained
        <5>2. ~(busy[s] > 0)
          <6>1. ~(0 > 0)
            OBVIOUS
          <6>2. QED
            BY ONLY <5>1, <6>1
        <5>3. QED
          BY ONLY <4>1, <5>2
      <4>2. QED
        BY <4>1
    <3>4. QED
      BY <3>2, <3>3 DEF LifeInv, OnTheWay
  <2>3. Life!PacksOutlast
    BY <2>2 DEF Life!PacksOutlast
  <2>4. Life!NothingLeft
    BY DEF LifeInv, OnTheWay, Life!NothingLeft
  <2>5. QED
    BY <2>3, <2>4 DEF Life!LifecycleKept
<1>3. QED
  BY <1>1, <1>2, LifeHolds, PTL DEF Spec
=============================================================================
