-------------------------- MODULE OutboundHooksProofs --------------------------
(***************************************************************************)
(* That the chain of a delivery's attempts is kept and that a delivery is  *)
(* counted once against its endpoint, for any number of endpoints,         *)
(* workers, deliveries, attempts, errors and lost workers.                 *)
(*                                                                         *)
(* The argument counts what may still act on a delivery: a job that is     *)
(* queued or whose run is not over, and a run whose job was taken from its *)
(* worker.  An attempt that ends hands its place to the next one; only an  *)
(* error, a lost answer or a lost worker makes a second place.             *)
(***************************************************************************)
EXTENDS OutboundHooks, FiniteSetTheorems, TLAPS

Active(w) == run[w].pc \notin {"idle", "ok", "error"}

\* What may still act, and the deliveries it may act on.
OpenJobs == {j \in JobIds : Live(j) /\ ~Through(j)}
Astray == {w \in Workers : Active(w) /\ jobOwner[run[w].job] # w}
Underway == {work[j] : j \in OpenJobs} \cup {Of(w) : w \in Astray}

\* A run has an attempt left when it starts, and so has a delivery that is pending.
Attempts ==
    /\ \A w \in Workers : run[w].attempts \in 0..Waits
    /\ \A d \in Deliveries : delivery[d].status = "pending" => delivery[d].attempts \in 0..Waits

\* Deliveries and jobs are inserted in order.
Prefixes ==
    /\ \E n \in 0..MaxDeliveries : Used = 1..n
    /\ \E m \in 0..MaxJobs : Submitted = 1..m

\* Jobs, counts and senders refer to rows that were inserted.
RowsFit ==
    /\ \A e \in Endpoints : missed[e] \subseteq Used
    /\ \A j \in JobIds : IF jobStatus[j] = "none" THEN work[j] = 0 ELSE work[j] \in Used
    /\ \A d \in Used : delivery[d].to \in Endpoints /\ endpoint[delivery[d].to].state # "new"
    /\ \A d \in Deliveries \ Used : delivery[d].to = NoEndpoint
    /\ \A e \in targets : endpoint[e].state # "new"
    /\ \A e \in Endpoints : endpoint[e].state = "new" => endpoint[e].failures = 0

\* A job's worker runs it.
Owned ==
    \A j \in JobIds : jobOwner[j] # Nobody =>
        jobStatus[j] = "running" /\ run[jobOwner[j]].pc # "idle" /\ run[jobOwner[j]].job = j
RunsJobs == \A w \in Workers : run[w].pc # "idle" => run[w].job \in Submitted

\* A run that recorded the end of its delivery finds it ended.
Passed == \A w \in Workers : run[w].pc \in {"clear", "count"} => delivery[Of(w)].status # "pending"

\* A pending delivery of an endpoint that is there has a job that may still act, or one
\* that failed on errors.
Chains ==
    \A d \in Deliveries :
        delivery[d].status = "pending" /\ endpoint[delivery[d].to].state # "gone" =>
            \E j \in JobIds : work[j] = d /\ (j \in OpenJobs \/ jobStatus[j] = "failed")

Fits == TypeOK /\ Attempts /\ Prefixes /\ RowsFit /\ Owned /\ RunsJobs /\ Passed /\ Chains

\* There are as many places as deliveries under way, and one more for each upset; with
\* what was counted against an endpoint, as many as deliveries counted or under way.
Balanced(M, f) ==
    f + Cardinality(OpenJobs) + Cardinality(Astray) <= Cardinality(M \cup Underway) + upsets
Books ==
    /\ Balanced({}, 0)
    /\ \A e \in Endpoints : endpoint[e].state # "gone" => Balanced(missed[e], endpoint[e].failures)

HooksInv == Fits /\ Books

-----------------------------------------------------------------------------
(* Sets and rows.                                                          *)

LEMMA Bounds ==
    /\ Waits \in Nat /\ MaxDeliveries \in Nat /\ MaxJobs \in Nat /\ MaxUpsets \in Nat
    /\ Deliveries = 1..MaxDeliveries /\ JobIds = 1..MaxJobs
    /\ Deliveries \subseteq Nat /\ JobIds \subseteq Nat /\ 0 \notin JobIds /\ 0 \notin Deliveries
    /\ IsFiniteSet(Endpoints) /\ IsFiniteSet(Workers) /\ IsFiniteSet(Deliveries) /\ IsFiniteSet(JobIds)
    /\ Nobody \notin Workers /\ NoEndpoint \notin Endpoints
<1>1. /\ Waits \in Nat /\ MaxDeliveries \in Nat /\ MaxJobs \in Nat /\ MaxUpsets \in Nat
      /\ IsFiniteSet(Endpoints) /\ IsFiniteSet(Workers)
      /\ Nobody \notin Workers /\ NoEndpoint \notin Endpoints
  BY BoundAssumption, NullAssumption
<1>2. Deliveries = 1..MaxDeliveries /\ JobIds = 1..MaxJobs
  BY DEF Deliveries, JobIds
<1>3. IsFiniteSet(1..MaxDeliveries) /\ IsFiniteSet(1..MaxJobs)
  BY <1>1, FS_Interval
<1>4. QED
  BY <1>1, <1>2, <1>3

\* The places and what they are for are finite sets.
LEMMA Finite ==
    ASSUME TypeOK, RowsFit, RunsJobs
    PROVE  /\ IsFiniteSet(OpenJobs) /\ IsFiniteSet(Astray) /\ IsFiniteSet(Underway)
           /\ OpenJobs \subseteq JobIds /\ Astray \subseteq Workers /\ Underway \subseteq Used
           /\ \A M \in SUBSET Used : IsFiniteSet(M \cup Underway)
           /\ Used \subseteq Deliveries /\ upsets \in Nat
<1>1. OpenJobs \subseteq JobIds /\ Astray \subseteq Workers /\ Used \subseteq Deliveries
  BY DEF OpenJobs, Astray, Used
<1>2. \A j \in OpenJobs : work[j] \in Used
  BY DEF OpenJobs, Live, RowsFit
<1>3. \A w \in Astray : Of(w) \in Used
  <2>1. \A w \in Astray : run[w].job \in Submitted
    BY DEF Astray, Active, RunsJobs
  <2>2. QED
    BY <2>1 DEF Submitted, RowsFit, Of
<1>4. Underway \subseteq Used
  BY <1>2, <1>3 DEF Underway
<1>5. IsFiniteSet(OpenJobs) /\ IsFiniteSet(Astray)
  BY <1>1, Bounds, FS_Subset
<1>6. \A M \in SUBSET Used : IsFiniteSet(M \cup Underway)
  BY <1>1, <1>4, Bounds, FS_Subset
<1>7. IsFiniteSet(Underway)
  BY <1>1, <1>4, Bounds, FS_Subset
<1>8. upsets \in Nat
  BY Bounds DEF TypeOK
<1>9. QED
  BY <1>1, <1>4, <1>5, <1>6, <1>7, <1>8

LEMMA HooksBegin == Init => HooksInv
<1> SUFFICES ASSUME Init PROVE HooksInv
  OBVIOUS
<1>1. /\ endpoint = [e \in Endpoints |-> Fresh] /\ targets = {} /\ upsets = 0
      /\ delivery = [d \in Deliveries |-> [status |-> "new", to |-> NoEndpoint, attempts |-> 0]]
      /\ jobStatus = [j \in JobIds |-> "none"] /\ jobOwner = [j \in JobIds |-> Nobody]
      /\ work = [j \in JobIds |-> 0] /\ tries = [j \in JobIds |-> 0]
      /\ run = [w \in Workers |-> Idle] /\ missed = [e \in Endpoints |-> {}]
  BY DEF Init, Queue!Init
<1>2. Fresh \in Endpoint /\ Fresh.state = "new" /\ Fresh.failures = 0
  BY DEF Fresh, Endpoint
<1>3. [status |-> "new", to |-> NoEndpoint, attempts |-> 0] \in Delivery
  BY Bounds DEF Delivery
<1>4. Idle \in Run /\ Idle.pc = "idle" /\ Idle.attempts = 0 /\ Idle.job = 0
  BY Bounds DEF Idle, Run, PCs
<1>5. TypeOK
  <2>1. 0 \in Nat /\ 0 \in 0..MaxUpsets
    BY BoundAssumption
  <2>2. endpoint \in [Endpoints -> Endpoint] /\ delivery \in [Deliveries -> Delivery]
        /\ run \in [Workers -> Run]
    BY <1>1, <1>2, <1>3, <1>4
  <2>3. QED
    BY <1>1, <2>1, <2>2 DEF TypeOK
<1>6. Attempts
  BY <1>1, <1>4, Bounds DEF Attempts
<1>7. Used = {} /\ Submitted = {}
  BY <1>1 DEF Used, Submitted
<1>8. 1..0 = {} /\ 0 \in 0..MaxDeliveries /\ 0 \in 0..MaxJobs
  BY Bounds
<1>9. Prefixes
  BY <1>7, <1>8 DEF Prefixes
<1>10. RowsFit /\ Owned /\ RunsJobs /\ Passed /\ Chains
  BY <1>1, <1>2, <1>4, <1>7 DEF RowsFit, Owned, RunsJobs, Passed, Chains
<1>11. OpenJobs = {} /\ Astray = {}
  BY <1>1, <1>4 DEF OpenJobs, Astray, Live, Active
<1>12. Underway = {}
  BY <1>11 DEF Underway
<1>13. Cardinality({}) = 0 /\ {} \cup {} = {}
  BY FS_EmptySet
<1>14. Balanced({}, 0)
  BY <1>1, <1>11, <1>12, <1>13 DEF Balanced
<1>15. Books
  BY <1>1, <1>2, <1>14 DEF Books
<1>16. QED
  BY <1>5, <1>6, <1>9, <1>10, <1>15 DEF HooksInv, Fits

-----------------------------------------------------------------------------
(* Steps of the rows alone.                                                *)

LEMMA SamePlaces ==
    ASSUME UNCHANGED <<jobStatus, jobOwner, work, run>>
    PROVE  /\ OpenJobs' = OpenJobs /\ Astray' = Astray /\ Underway' = Underway
           /\ Submitted' = Submitted
  BY DEF OpenJobs, Astray, Underway, Live, Through, Active, Of, Submitted

\* What does not depend on the rows stays.
LEMMA QueueStays ==
    ASSUME HooksInv, UNCHANGED <<jobStatus, jobOwner, work, tries, run, upsets>>, Used' = Used,
           endpoint' \in [Endpoints -> Endpoint], delivery' \in [Deliveries -> Delivery],
           targets' \in SUBSET Endpoints, missed' \in [Endpoints -> SUBSET Deliveries],
           \A d \in Deliveries : delivery'[d].status = "pending" => delivery'[d] = delivery[d]
    PROVE  TypeOK' /\ Attempts' /\ Prefixes' /\ Owned' /\ RunsJobs' /\ Passed'
<1>1. Submitted' = Submitted
  BY SamePlaces
<1>2. TypeOK'
  BY DEF HooksInv, Fits, TypeOK
<1>3. Attempts'
  BY DEF HooksInv, Fits, Attempts
<1>4. Prefixes' /\ Owned' /\ RunsJobs'
  BY <1>1 DEF HooksInv, Fits, Prefixes, Owned, RunsJobs
<1>5. Passed'
  <2> SUFFICES ASSUME NEW w \in Workers, run[w].pc \in {"clear", "count"}
               PROVE  (delivery[Of(w)].status # "pending")'
    BY DEF Passed
  <2>1. Of(w) \in Deliveries /\ Of(w)' = Of(w)
    BY DEF Of, HooksInv, Fits, RunsJobs, RowsFit, Submitted, Used
  <2>2. delivery[Of(w)].status # "pending"
    BY DEF HooksInv, Fits, Passed
  <2>3. QED
    BY <2>1, <2>2
<1>6. QED
  BY <1>2, <1>3, <1>4, <1>5

\* A step of one endpoint's row and count.
LEMMA EndpointChanges ==
    ASSUME HooksInv, NEW e \in Endpoints, NEW r \in Endpoint, NEW M \in SUBSET Used,
           endpoint' = [endpoint EXCEPT ![e] = r], missed' = [missed EXCEPT ![e] = M],
           UNCHANGED <<delivery, targets, queue, run, upsets>>,
           r.state # "new", r.state = "gone" \/ endpoint[e].state # "gone",
           r.state # "gone" => Balanced(M, r.failures)
    PROVE  HooksInv'
<1>1. UNCHANGED <<jobStatus, jobOwner, work, tries, run, upsets>> /\ Used' = Used
  BY DEF queue, Used
<1>2. /\ endpoint' \in [Endpoints -> Endpoint] /\ missed' \in [Endpoints -> SUBSET Deliveries]
      /\ endpoint'[e] = r /\ missed'[e] = M
      /\ \A o \in Endpoints : o # e => endpoint'[o] = endpoint[o] /\ missed'[o] = missed[o]
  BY DEF HooksInv, Fits, TypeOK, Used
<1>3. TypeOK' /\ Attempts' /\ Prefixes' /\ Owned' /\ RunsJobs' /\ Passed'
  BY <1>1, <1>2, QueueStays DEF HooksInv, Fits, TypeOK
<1>4. RowsFit'
  BY <1>1, <1>2 DEF HooksInv, Fits, RowsFit
<1>5. OpenJobs' = OpenJobs /\ Astray' = Astray /\ Underway' = Underway
  BY <1>1, SamePlaces
<1>6. Chains'
  <2>1. \A d \in Deliveries : delivery[d].status = "pending" => delivery[d].to \in Endpoints
    BY DEF HooksInv, Fits, RowsFit, Used
  <2>2. \A o \in Endpoints : endpoint'[o].state # "gone" => endpoint[o].state # "gone"
    BY <1>2
  <2>3. QED
    BY <1>1, <1>5, <2>1, <2>2 DEF HooksInv, Fits, Chains
<1>7. Books'
  BY <1>1, <1>2, <1>5 DEF HooksInv, Books, Balanced
<1>8. QED
  BY <1>3, <1>4, <1>6, <1>7 DEF HooksInv, Fits

LEMMA CreateHolds == ASSUME HooksInv, NEW e \in Endpoints, Create(e) PROVE HooksInv'
<1> DEFINE r == [endpoint[e] EXCEPT !.state = "open"]
<1>1. /\ endpoint[e].state = "new" /\ endpoint' = [endpoint EXCEPT ![e] = r]
      /\ UNCHANGED <<delivery, targets, missed, queue, run, upsets>>
  BY DEF Create
<1>2. r \in Endpoint /\ r.state = "open" /\ r.failures = endpoint[e].failures
  BY DEF HooksInv, Fits, TypeOK, Endpoint
<1>3. missed[e] \in SUBSET Used /\ missed' = [missed EXCEPT ![e] = missed[e]]
  BY <1>1 DEF HooksInv, Fits, TypeOK, RowsFit
<1>4. Balanced(missed[e], endpoint[e].failures)
  BY <1>1 DEF HooksInv, Books
<1> HIDE DEF r
<1>5. QED
  BY <1>1, <1>2, <1>3, <1>4, EndpointChanges

LEMMA EnableHolds == ASSUME HooksInv, NEW e \in Endpoints, Enable(e) PROVE HooksInv'
<1> DEFINE r == Counted(0, FALSE)
<1>1. /\ endpoint[e].state = "open" /\ endpoint' = [endpoint EXCEPT ![e] = r]
      /\ missed' = [missed EXCEPT ![e] = {}]
      /\ UNCHANGED <<delivery, targets, queue, run, upsets>>
  BY DEF Enable, Open
<1>2. r \in Endpoint /\ r.state = "open" /\ r.failures = 0
  BY DEF Counted, Endpoint
<1>3. Balanced({}, 0) /\ {} \in SUBSET Used
  BY DEF HooksInv, Books
<1> HIDE DEF r
<1>4. QED
  BY <1>1, <1>2, <1>3, EndpointChanges

LEMMA DeleteHolds == ASSUME HooksInv, NEW e \in Endpoints, Delete(e) PROVE HooksInv'
<1> DEFINE r == [endpoint[e] EXCEPT !.state = "gone"]
<1>1. /\ endpoint' = [endpoint EXCEPT ![e] = r]
      /\ UNCHANGED <<delivery, targets, missed, queue, run, upsets>>
  BY DEF Delete
<1>2. r \in Endpoint /\ r.state = "gone"
  BY DEF HooksInv, Fits, TypeOK, Endpoint
<1>3. missed[e] \in SUBSET Used /\ missed' = [missed EXCEPT ![e] = missed[e]]
  BY <1>1 DEF HooksInv, Fits, TypeOK, RowsFit
<1> HIDE DEF r
<1>4. QED
  BY <1>1, <1>2, <1>3, EndpointChanges

\* Deliveries that end or go, the places being the same.
LEMMA DeliveriesGo ==
    ASSUME HooksInv, UNCHANGED <<endpoint, targets, missed, queue, run, upsets>>,
           delivery' \in [Deliveries -> Delivery],
           \A d \in Deliveries :
               \/ delivery'[d] = delivery[d]
               \/ /\ delivery[d].status # "new" /\ delivery'[d].to = delivery[d].to
                  /\ delivery'[d].status = "gone"
    PROVE  HooksInv'
<1>1. UNCHANGED <<jobStatus, jobOwner, work, tries, run, upsets>> /\ Used' = Used
  BY DEF queue, Used
<1>2. \A d \in Deliveries : delivery'[d].status = "pending" => delivery'[d] = delivery[d]
  OBVIOUS
<1>3. TypeOK' /\ Attempts' /\ Prefixes' /\ Owned' /\ RunsJobs' /\ Passed'
  BY <1>1, <1>2, QueueStays DEF HooksInv, Fits, TypeOK
<1>4. \A d \in Deliveries : delivery'[d].to = delivery[d].to
  OBVIOUS
<1>5. RowsFit'
  BY <1>1, <1>4 DEF HooksInv, Fits, RowsFit, Used
<1>6. OpenJobs' = OpenJobs /\ Astray' = Astray /\ Underway' = Underway
  BY <1>1, SamePlaces
<1>7. Chains'
  BY <1>1, <1>2, <1>6 DEF HooksInv, Fits, Chains
<1>8. Books'
  BY <1>1, <1>6 DEF HooksInv, Books, Balanced
<1>9. QED
  BY <1>3, <1>5, <1>7, <1>8 DEF HooksInv, Fits

LEMMA DeleteRowsHolds == ASSUME HooksInv, NEW e \in Endpoints, DeleteRows(e) PROVE HooksInv'
<1>1. /\ delivery' = [d \in Deliveries |->
             IF delivery[d].to = e THEN [delivery[d] EXCEPT !.status = "gone"] ELSE delivery[d]]
      /\ UNCHANGED <<endpoint, targets, missed, queue, run, upsets>>
  BY DEF DeleteRows
<1>2. \A d \in Deliveries : delivery[d].status = "new" => delivery[d].to # e
  BY Bounds DEF HooksInv, Fits, RowsFit, Used
<1>3. \A d \in Deliveries : [delivery[d] EXCEPT !.status = "gone"] \in Delivery
  BY DEF HooksInv, Fits, TypeOK, Delivery
<1>4. QED
  BY <1>1, <1>2, <1>3, DeliveriesGo DEF HooksInv, Fits, TypeOK, Delivery

LEMMA PruneHolds == ASSUME HooksInv, NEW d \in Deliveries, Prune(d) PROVE HooksInv'
<1> DEFINE r == [delivery[d] EXCEPT !.status = "gone"]
<1>1. /\ delivery[d].status \in {"delivered", "failed"} /\ delivery' = [delivery EXCEPT ![d] = r]
      /\ UNCHANGED <<endpoint, targets, missed, queue, run, upsets>>
  BY DEF Prune
<1>2. r \in Delivery /\ r.status = "gone" /\ r.to = delivery[d].to
  BY DEF HooksInv, Fits, TypeOK, Delivery
<1> HIDE DEF r
<1>3. QED
  BY <1>1, <1>2, DeliveriesGo DEF HooksInv, Fits, TypeOK

LEMMA SendersHold == ASSUME HooksInv, SendRead \/ SendRollback PROVE HooksInv'
<1>1. UNCHANGED <<endpoint, delivery, missed, queue, run, upsets>>
  BY DEF SendRead, SendRollback
<1>2. UNCHANGED <<jobStatus, jobOwner, work, tries, run, upsets>> /\ Used' = Used
  BY <1>1 DEF queue, Used
<1>3. targets' \in SUBSET Endpoints /\ \A e \in targets' : endpoint[e].state # "new"
  BY DEF SendRead, SendRollback, Open
<1>4. TypeOK' /\ Attempts' /\ Prefixes' /\ Owned' /\ RunsJobs' /\ Passed'
  BY <1>1, <1>2, <1>3, QueueStays DEF HooksInv, Fits, TypeOK
<1>5. RowsFit'
  BY <1>1, <1>2, <1>3 DEF HooksInv, Fits, RowsFit
<1>6. OpenJobs' = OpenJobs /\ Astray' = Astray /\ Underway' = Underway
  BY <1>2, SamePlaces
<1>7. Chains' /\ Books'
  BY <1>1, <1>2, <1>6 DEF HooksInv, Fits, Chains, Books, Balanced
<1>8. QED
  BY <1>4, <1>5, <1>7 DEF HooksInv, Fits

-----------------------------------------------------------------------------
(* A sender, a ping or a replay inserts deliveries and their jobs.         *)

\* Sets that have no element in common.
LEMMA BothCounted ==
    ASSUME NEW S, NEW T, IsFiniteSet(S), IsFiniteSet(T), S \cap T = {}
    PROVE  /\ IsFiniteSet(S \cup T) /\ Cardinality(S \cup T) = Cardinality(S) + Cardinality(T)
           /\ Cardinality(S) \in Nat /\ Cardinality(T) \in Nat
<1>1. /\ IsFiniteSet(S \cup T)
      /\ Cardinality(S \cup T) = Cardinality(S) + Cardinality(T) - Cardinality({})
  BY FS_Union
<1>2. Cardinality({}) = 0
  BY FS_EmptySet
<1>3. Cardinality(S) \in Nat /\ Cardinality(T) \in Nat
  BY FS_CardinalityType
<1>4. QED
  BY <1>1, <1>2, <1>3

\* The rows that Insert adds for S, after n deliveries and m jobs.
Adds(S, n, m, k) ==
    /\ k = Cardinality(S) /\ n + k <= MaxDeliveries /\ m + k <= MaxJobs
    /\ Used = 1..n /\ Submitted = 1..m
    /\ \E to \in [n + 1..n + k -> S] :
          delivery' = [d \in Deliveries |->
              IF d \in n + 1..n + k
              THEN [status |-> "pending", to |-> to[d], attempts |-> 0] ELSE delivery[d]]
    /\ jobStatus' = [j \in JobIds |-> IF j \in m + 1..m + k THEN "pending" ELSE jobStatus[j]]
    /\ work' = [j \in JobIds |-> IF j \in m + 1..m + k THEN n + j - m ELSE work[j]]
    /\ jobOwner' = jobOwner /\ tries' = tries

LEMMA Inserted ==
    ASSUME HooksInv, NEW S \in SUBSET Endpoints, Insert(S)
    PROVE  \E n, m, k \in Nat : Adds(S, n, m, k)
<1>1. PICK n \in 0..MaxDeliveries, m \in 0..MaxJobs : Used = 1..n /\ Submitted = 1..m
  BY DEF HooksInv, Fits, Prefixes
<1>2. n \in Nat /\ m \in Nat
  BY <1>1, Bounds
<1>3. Cardinality(Used) = n /\ Cardinality(Submitted) = m
  BY <1>1, <1>2, FS_Interval
<1>4. IsFiniteSet(S)
  BY Bounds, FS_Subset
<1> DEFINE k == Cardinality(S)
<1>5. k \in Nat
  BY <1>4, FS_CardinalityType
<1> HIDE DEF k
<1>6. NextDelivery = n + 1 /\ NextJob = m + 1
  BY <1>3 DEF NextDelivery, NextJob
<1>7. NextDelivery + k - 1 = n + k /\ NextJob + k - 1 = m + k
  BY <1>2, <1>5, <1>6
<1>8. n + k <= MaxDeliveries /\ m + k <= MaxJobs /\ jobOwner' = jobOwner /\ tries' = tries
  BY <1>7 DEF Insert, k
<1>9. PICK to \in [n + 1..n + k -> S] :
          delivery' = [d \in Deliveries |->
              IF d \in DOMAIN to
              THEN [status |-> "pending", to |-> to[d], attempts |-> 0] ELSE delivery[d]]
  BY <1>6, <1>7 DEF Insert, k
<1>10. /\ jobStatus' = [j \in JobIds |-> IF j \in m + 1..m + k THEN "pending" ELSE jobStatus[j]]
       /\ work' = [j \in JobIds |-> IF j \in m + 1..m + k THEN n + 1 + j - (m + 1) ELSE work[j]]
  BY <1>6, <1>7 DEF Insert, k
<1>11. \A j \in JobIds : n + 1 + j - (m + 1) = n + j - m
  BY <1>2, Bounds
<1>12. work' = [j \in JobIds |-> IF j \in m + 1..m + k THEN n + j - m ELSE work[j]]
  BY <1>10, <1>11
<1>13. DOMAIN to = n + 1..n + k
  BY <1>9
<1>14. delivery' = [d \in Deliveries |->
           IF d \in n + 1..n + k
           THEN [status |-> "pending", to |-> to[d], attempts |-> 0] ELSE delivery[d]]
  BY <1>9, <1>13
<1>15. Adds(S, n, m, k)
  <2>1. k = Cardinality(S)
    BY DEF k
  <2>2. QED
    BY <1>1, <1>8, <1>9, <1>10, <1>12, <1>14, <2>1 DEF Adds
<1>16. QED
  BY <1>2, <1>5, <1>15

LEMMA InsertHolds ==
    ASSUME HooksInv, NEW S \in SUBSET Endpoints, Insert(S),
           \A e \in S : endpoint[e].state # "new", targets' \in {targets, {}},
           UNCHANGED <<endpoint, missed, run, upsets>>
    PROVE  HooksInv'
<1>1. PICK n \in Nat, m \in Nat, k \in Nat : Adds(S, n, m, k)
  BY Inserted
<1> DEFINE New == n + 1..n + k
           Added == m + 1..m + k
<1>2. PICK to \in [New -> S] :
          delivery' = [d \in Deliveries |->
              IF d \in New
              THEN [status |-> "pending", to |-> to[d], attempts |-> 0] ELSE delivery[d]]
  BY <1>1 DEF Adds
<1>3. /\ New \subseteq Deliveries /\ Added \subseteq JobIds
      /\ New \cap Used = {} /\ Added \cap Submitted = {}
      /\ 1..(n + k) = Used \cup New /\ 1..(m + k) = Submitted \cup Added
      /\ IsFiniteSet(New) /\ Cardinality(New) = k /\ IsFiniteSet(Added) /\ Cardinality(Added) = k
  <2>1. IsFiniteSet(New) /\ Cardinality(New) = k /\ IsFiniteSet(Added) /\ Cardinality(Added) = k
    <3>1. ASSUME NEW i \in Nat
          PROVE  IsFiniteSet(i + 1..i + k) /\ Cardinality(i + 1..i + k) = k
      <4>1. i + 1 \in Int /\ i + k \in Int
        BY <1>1
      <4>2. (IF i + 1 > i + k THEN 0 ELSE i + k - (i + 1) + 1) = k
        BY <1>1
      <4>3. /\ IsFiniteSet(i + 1..i + k)
            /\ Cardinality(i + 1..i + k)
                 = (IF i + 1 > i + k THEN 0 ELSE i + k - (i + 1) + 1)
        BY <4>1, FS_Interval
      <4>4. QED
        BY <4>2, <4>3
    <3>2. QED
      BY <1>1, <3>1
  <2>2. QED
    BY <1>1, <2>1, Bounds DEF Adds
<1>4. \A j \in Added : n + j - m \in New
  BY <1>1
<1>5. \A d \in New : m + d - n \in Added /\ n + (m + d - n) - m = d
  BY <1>1
<1>6. /\ jobStatus' = [j \in JobIds |-> IF j \in Added THEN "pending" ELSE jobStatus[j]]
      /\ work' = [j \in JobIds |-> IF j \in Added THEN n + j - m ELSE work[j]]
      /\ jobOwner' = jobOwner /\ tries' = tries
      /\ UNCHANGED <<endpoint, missed, run, upsets>>
  BY <1>1 DEF Adds
<1>7. n + k \in 0..MaxDeliveries /\ m + k \in 0..MaxJobs
  BY <1>1, Bounds DEF Adds
<1>8. Used \subseteq Deliveries /\ Submitted \subseteq JobIds
  BY DEF Used, Submitted
<1> HIDE DEF New, Added
<1>9. \A d \in New : delivery[d].status = "new"
  BY <1>3 DEF Used
<1>10. \A j \in Added : jobStatus[j] = "none" /\ jobOwner[j] = Nobody
  BY <1>3 DEF Submitted, HooksInv, Fits, Owned
<1>11. Used' = Used \cup New
  BY <1>2, <1>3 DEF Used
<1>12. Submitted' = Submitted \cup Added
  BY <1>3, <1>6 DEF Submitted
<1>13. \A d \in New : delivery'[d].status = "pending" /\ delivery'[d].to \in S
                      /\ delivery'[d].attempts = 0 /\ delivery'[d] \in Delivery
  <2>1. \A e \in S : [status |-> "pending", to |-> e, attempts |-> 0] \in Delivery
    BY Bounds DEF Delivery
  <2>2. QED
    BY <1>2, <1>3, <2>1
<1>14. \A d \in Deliveries \ New : delivery'[d] = delivery[d]
  BY <1>2
<1>15. TypeOK'
  <2>1. delivery' \in [Deliveries -> Delivery]
    BY <1>2, <1>13, <1>14 DEF HooksInv, Fits, TypeOK
  <2>2. work' \in [JobIds -> Deliveries \cup {0}]
    BY <1>3, <1>4, <1>6 DEF HooksInv, Fits, TypeOK
  <2>3. jobStatus' \in [JobIds -> {"none", "pending", "running", "done", "failed"}]
    BY <1>6 DEF HooksInv, Fits, TypeOK
  <2>4. QED
    BY <1>6, <2>1, <2>2, <2>3 DEF HooksInv, Fits, TypeOK
<1>16. Attempts'
  BY <1>6, <1>13, <1>14, Bounds DEF HooksInv, Fits, Attempts
<1>17. Prefixes'
  BY <1>1, <1>3, <1>7, <1>11, <1>12 DEF Prefixes, Adds
<1>18. RowsFit'
  <2>1. \A e \in Endpoints : missed'[e] \subseteq Used'
    BY <1>6, <1>11 DEF HooksInv, Fits, RowsFit
  <2>2. \A j \in JobIds : IF jobStatus'[j] = "none" THEN work'[j] = 0 ELSE work'[j] \in Used'
    BY <1>4, <1>6, <1>11 DEF HooksInv, Fits, RowsFit
  <2>3. \A d \in Used' : delivery'[d].to \in Endpoints /\ endpoint'[delivery'[d].to].state # "new"
    BY <1>3, <1>6, <1>8, <1>11, <1>13, <1>14 DEF HooksInv, Fits, RowsFit
  <2>4. \A d \in Deliveries \ Used' : delivery'[d].to = NoEndpoint
    BY <1>11, <1>14 DEF HooksInv, Fits, RowsFit
  <2>5. \A e \in targets' : endpoint'[e].state # "new"
    BY <1>6 DEF HooksInv, Fits, RowsFit
  <2>6. \A e \in Endpoints : endpoint'[e].state = "new" => endpoint'[e].failures = 0
    BY <1>6 DEF HooksInv, Fits, RowsFit
  <2>7. QED
    BY <2>1, <2>2, <2>3, <2>4, <2>5, <2>6 DEF RowsFit
<1>19. Owned' /\ RunsJobs'
  BY <1>6, <1>10, <1>12 DEF HooksInv, Fits, Owned, RunsJobs
<1>20. \A w \in Workers : run[w].pc # "idle" => /\ run[w].job \in Submitted /\ Of(w)' = Of(w)
                                                /\ Of(w) \in Used
  <2>1. \A w \in Workers : run[w].pc # "idle" => run[w].job \in Submitted
    BY DEF HooksInv, Fits, RunsJobs
  <2>2. QED
    BY <1>3, <1>6, <1>8, <2>1 DEF Of, HooksInv, Fits, RowsFit, Submitted
<1>21. Passed'
  <2> SUFFICES ASSUME NEW w \in Workers, run[w].pc \in {"clear", "count"}
               PROVE  delivery'[Of(w)'].status # "pending"
    BY <1>6 DEF Passed
  <2>1. Of(w)' = Of(w) /\ Of(w) \in Used
    BY <1>20
  <2>2. delivery'[Of(w)] = delivery[Of(w)]
    BY <1>3, <1>8, <1>14, <2>1
  <2>3. QED
    BY <2>1, <2>2 DEF HooksInv, Fits, Passed
<1>22. OpenJobs' = OpenJobs \cup Added /\ OpenJobs \cap Added = {} /\ Astray' = Astray
  <2>1. \A j \in JobIds \ Added : Live(j)' = Live(j) /\ Through(j)' = Through(j)
    BY <1>6 DEF Live, Through
  <2>2. \A j \in Added : Live(j)' /\ ~Through(j)' /\ ~Live(j)
    BY <1>3, <1>6, <1>10 DEF Live, Through
  <2>3. OpenJobs' = OpenJobs \cup Added /\ OpenJobs \cap Added = {}
    BY <1>3, <2>1, <2>2 DEF OpenJobs
  <2>4. Astray' = Astray
    BY <1>6 DEF Astray, Active
  <2>5. QED
    BY <2>3, <2>4
<1>23. Chains'
  <2> SUFFICES ASSUME NEW d \in Deliveries, delivery'[d].status = "pending",
                      endpoint'[delivery'[d].to].state # "gone"
               PROVE  \E j \in JobIds : work'[j] = d /\ (j \in OpenJobs' \/ jobStatus'[j] = "failed")
    BY DEF Chains
  <2>1. CASE d \in New
    <3>1. m + d - n \in Added /\ work'[m + d - n] = d
      BY <1>3, <1>5, <1>6, <2>1
    <3>2. QED
      BY <1>3, <1>22, <3>1
  <2>2. CASE d \notin New
    <3>1. PICK j \in JobIds : work[j] = d /\ (j \in OpenJobs \/ jobStatus[j] = "failed")
      BY <1>6, <1>14, <2>2 DEF HooksInv, Fits, Chains
    <3>2. j \notin Added
      BY <1>10, <1>22, <3>1
    <3>3. QED
      BY <1>6, <1>22, <3>1, <3>2
  <2>3. QED
    BY <2>1, <2>2
<1>24. Underway' = Underway \cup New
  <2>1. \A j \in OpenJobs : work'[j] = work[j]
    BY <1>6, <1>22 DEF OpenJobs
  <2>2. \A w \in Astray : Of(w)' = Of(w)
    BY <1>20 DEF Astray, Active
  <2>3. {work'[j] : j \in Added} = New
    <3>1. \A j \in Added : work'[j] = n + j - m
      BY <1>3, <1>6
    <3>2. QED
      BY <1>4, <1>5, <3>1
  <2>4. Underway' = {work'[j] : j \in OpenJobs'} \cup {Of(w)' : w \in Astray'}
    BY DEF Underway
  <2>5. QED
    BY <1>22, <2>1, <2>2, <2>3, <2>4 DEF Underway
<1>25. ASSUME NEW M \in SUBSET Used, NEW f \in Nat, Balanced(M, f)
       PROVE  f + Cardinality(OpenJobs') + Cardinality(Astray') <= Cardinality(M \cup Underway') + upsets'
  <2>1. /\ IsFiniteSet(OpenJobs) /\ IsFiniteSet(Astray) /\ IsFiniteSet(M \cup Underway)
        /\ Underway \subseteq Used /\ upsets \in Nat
    BY Finite DEF HooksInv, Fits
  <2>2. Cardinality(OpenJobs') = Cardinality(OpenJobs) + k
    BY <1>3, <1>22, <2>1, BothCounted
  <2>3. Cardinality(M \cup Underway') = Cardinality(M \cup Underway) + k
    <3>1. (M \cup Underway) \cap New = {} /\ M \cup Underway' = (M \cup Underway) \cup New
      BY <1>3, <1>24, <2>1
    <3>2. Cardinality((M \cup Underway) \cup New) = Cardinality(M \cup Underway) + k
      BY <1>3, <2>1, <3>1, BothCounted
    <3>3. QED
      BY <3>1, <3>2
  <2>4. /\ Cardinality(OpenJobs) \in Nat /\ Cardinality(Astray) \in Nat
        /\ Cardinality(M \cup Underway) \in Nat
    BY <2>1, FS_CardinalityType
  <2>5. QED
    BY <1>6, <1>22, <1>25, <2>1, <2>2, <2>3, <2>4 DEF Balanced
<1>26. Books'
  <2>1. \A e \in Endpoints : missed[e] \in SUBSET Used /\ endpoint[e].failures \in Nat
    BY DEF HooksInv, Fits, RowsFit, TypeOK, Endpoint
  <2>2. {} \in SUBSET Used /\ 0 \in Nat
    OBVIOUS
  <2>3. 0 + Cardinality(OpenJobs') + Cardinality(Astray') <= Cardinality({} \cup Underway') + upsets'
    BY <1>25, <2>2 DEF HooksInv, Books
  <2>4. \A e \in Endpoints : endpoint[e].state # "gone" =>
            endpoint[e].failures + Cardinality(OpenJobs') + Cardinality(Astray')
                <= Cardinality(missed[e] \cup Underway') + upsets'
    BY <1>25, <2>1 DEF HooksInv, Books
  <2>5. QED
    BY <1>6, <2>3, <2>4 DEF Books, Balanced
<1>27. QED
  BY <1>15, <1>16, <1>17, <1>18, <1>19, <1>21, <1>23, <1>26 DEF HooksInv, Fits

LEMMA SendCommitHolds == ASSUME HooksInv, SendCommit PROVE HooksInv'
<1>1. /\ Insert(targets) /\ targets' = {} /\ UNCHANGED <<endpoint, missed, run, upsets>>
  BY DEF SendCommit
<1>2. targets \in SUBSET Endpoints /\ \A e \in targets : endpoint[e].state # "new"
  BY DEF HooksInv, Fits, TypeOK, RowsFit
<1>3. QED
  BY <1>1, <1>2, InsertHolds

LEMMA PingHolds == ASSUME HooksInv, NEW e \in Endpoints, Ping(e) PROVE HooksInv'
<1>1. /\ Insert({e}) /\ endpoint[e].state # "new"
      /\ UNCHANGED <<endpoint, targets, missed, run, upsets>>
  BY DEF Ping
<1>2. {e} \in SUBSET Endpoints /\ \A o \in {e} : endpoint[o].state # "new"
  BY <1>1
<1>3. QED
  BY <1>1, <1>2, InsertHolds

LEMMA ReplayHolds == ASSUME HooksInv, NEW d \in Deliveries, Replay(d) PROVE HooksInv'
<1> DEFINE e == delivery[d].to
<1>1. /\ Insert({e}) /\ delivery[d].status \in {"delivered", "failed"}
      /\ UNCHANGED <<endpoint, targets, missed, run, upsets>>
  BY DEF Replay
<1>2. e \in Endpoints /\ endpoint[e].state # "new"
  BY <1>1 DEF HooksInv, Fits, RowsFit, Used
<1>3. {e} \in SUBSET Endpoints /\ \A o \in {e} : endpoint[o].state # "new"
  BY <1>2
<1> HIDE DEF e
<1>4. QED
  BY <1>1, <1>3, InsertHolds

-----------------------------------------------------------------------------
(* A statement of a handler.                                               *)

\* A run goes on with r; A is the job it enqueued, if any.
Moves(w, r, A) ==
    /\ Active(w) /\ r \in Run /\ r.job = run[w].job /\ r.pc # "idle" /\ r.attempts \in 0..Waits
    /\ A \subseteq {NextJob} \cap JobIds
    /\ run' = [run EXCEPT ![w] = r]
    /\ jobStatus' = [j \in JobIds |-> IF j \in A THEN "pending" ELSE jobStatus[j]]
    /\ work' = [j \in JobIds |-> IF j \in A THEN Of(w) ELSE work[j]]
    /\ UNCHANGED <<jobOwner, tries>>

Places == Cardinality(OpenJobs) + Cardinality(Astray)

\* The next job is the one after those inserted.
LEMMA NextIsNew ==
    ASSUME HooksInv, NextJob \in JobIds
    PROVE  /\ NextJob \notin Submitted /\ jobStatus[NextJob] = "none" /\ jobOwner[NextJob] = Nobody
           /\ \E m \in 0..MaxJobs : Submitted \cup {NextJob} = 1..m
<1>1. PICK m \in 0..MaxJobs : Submitted = 1..m
  BY DEF HooksInv, Fits, Prefixes
<1>2. m \in Nat
  BY <1>1, Bounds
<1>3. Cardinality(Submitted) = m
  BY <1>1, <1>2, FS_Interval
<1>4. NextJob = m + 1
  BY <1>3 DEF NextJob
<1>5. NextJob \notin Submitted /\ Submitted \cup {NextJob} = 1..(m + 1)
  BY <1>1, <1>2, <1>4
<1>6. m + 1 \in 0..MaxJobs
  BY <1>2, <1>4, Bounds
<1>7. jobStatus[NextJob] = "none"
  BY <1>5 DEF Submitted
<1>8. QED
  BY <1>5, <1>6, <1>7 DEF HooksInv, Fits, Owned, TypeOK

LEMMA MoveRefers ==
    ASSUME HooksInv, NEW w \in Workers, NEW r, NEW A, Moves(w, r, A)
    PROVE  /\ \A v \in Workers : run[v].pc # "idle" =>
                 run[v].job \in Submitted /\ Of(v) \in Used /\ Of(v)' = Of(v)
           /\ run[w].pc # "idle" /\ run[w].job \in Submitted /\ Of(w) \in Used
           /\ A \cap Submitted = {} /\ Submitted' = Submitted \cup A
           /\ run' \in [Workers -> Run] /\ run'[w] = r
           /\ \A v \in Workers : v # w => run'[v] = run[v]
           /\ \A v \in Workers : run'[v].job = run[v].job
                                 /\ (run'[v].pc = "idle" <=> run[v].pc = "idle")
           /\ \A j \in A : jobStatus[j] = "none" /\ jobOwner[j] = Nobody
<1>1. run[w].pc # "idle" /\ r.job = run[w].job /\ r.pc # "idle"
  BY DEF Moves, Active
<1>2. A \cap Submitted = {} /\ \A j \in A : jobStatus[j] = "none" /\ jobOwner[j] = Nobody
  BY NextIsNew DEF Moves
<1>3. Submitted' = Submitted \cup A
  BY DEF Moves, Submitted
<1>4. run' \in [Workers -> Run] /\ run'[w] = r /\ \A v \in Workers : v # w => run'[v] = run[v]
  BY DEF Moves, HooksInv, Fits, TypeOK
<1>5. \A v \in Workers : run'[v].job = run[v].job /\ (run'[v].pc = "idle" <=> run[v].pc = "idle")
  BY <1>1, <1>4
<1>6. \A v \in Workers : run[v].pc # "idle" => run[v].job \in Submitted
  BY DEF HooksInv, Fits, RunsJobs
<1>7. \A j \in Submitted : j \in JobIds /\ work[j] \in Used /\ work'[j] = work[j]
  BY <1>2 DEF Submitted, HooksInv, Fits, RowsFit, Moves
<1>8. \A v \in Workers : run[v].pc # "idle" => Of(v) \in Used /\ Of(v)' = Of(v)
  BY <1>5, <1>6, <1>7 DEF Of
<1>9. QED
  BY <1>1, <1>2, <1>3, <1>4, <1>5, <1>6, <1>8

\* The jobs that may act after the step.
LEMMA MoveJobs ==
    ASSUME HooksInv, NEW w \in Workers, NEW r, NEW A, Moves(w, r, A)
    PROVE  /\ OpenJobs' = (IF r.pc = "ok" /\ jobOwner[run[w].job] = w
                           THEN OpenJobs \ {run[w].job} ELSE OpenJobs) \cup A
           /\ jobOwner[run[w].job] = w => run[w].job \in OpenJobs
           /\ OpenJobs \cap A = {}
           /\ Astray' = IF r.pc \in {"ok", "error"} THEN Astray \ {w} ELSE Astray
           /\ jobOwner[run[w].job] # w <=> w \in Astray
<1> DEFINE k == run[w].job
<1>1. /\ jobOwner' = jobOwner
      /\ \A j \in JobIds : jobStatus'[j] = IF j \in A THEN "pending" ELSE jobStatus[j]
      /\ A \subseteq JobIds
  BY DEF Moves
<1>2. /\ \A v \in Workers : v # w => run'[v] = run[v]
      /\ run'[w] = r /\ k \in Submitted /\ \A j \in A : jobStatus[j] = "none" /\ jobOwner[j] = Nobody
      /\ r.job = k /\ r.pc # "idle"
  BY MoveRefers DEF Moves
<1>3. Active(w) /\ run[w].pc # "ok"
  BY DEF Moves, Active
<1>4. \A j \in JobIds : jobOwner[j] \in Workers \cup {Nobody}
  BY DEF HooksInv, Fits, TypeOK
<1>5. \A j \in JobIds : jobOwner[j] = w => j = k /\ jobStatus[j] = "running"
  BY Bounds DEF HooksInv, Fits, Owned
<1>6. \A j \in A : Live(j)' /\ ~Through(j)' /\ ~Live(j)
  BY <1>1, <1>2 DEF Live, Through
<1>7. \A j \in JobIds \ A : Live(j)' = Live(j)
  BY <1>1 DEF Live
<1>8. \A j \in JobIds : jobOwner[j] # w => Through(j)' = Through(j)
  BY <1>1, <1>2, <1>4 DEF Through
<1>9. \A j \in JobIds : jobOwner[j] = w => ~Through(j) /\ Live(j) /\ (Through(j)' <=> r.pc = "ok")
  BY <1>1, <1>2, <1>3, <1>5, Bounds DEF Through, Live
<1>10. k \in JobIds
  BY <1>2 DEF Submitted
<1>11. OpenJobs \cap A = {} /\ (jobOwner[k] = w => k \in OpenJobs)
  BY <1>6, <1>9, <1>10 DEF OpenJobs
<1>12. ASSUME NEW j \in JobIds \ A
       PROVE  j \in OpenJobs' <=> j \in OpenJobs /\ ~(r.pc = "ok" /\ jobOwner[k] = w /\ j = k)
  <2>1. CASE jobOwner[j] = w
    <3>1. j = k
      BY <1>5, <2>1
    <3>2. j \in OpenJobs
      BY <1>9, <2>1 DEF OpenJobs
    <3>3. Live(j)' /\ (Through(j)' <=> r.pc = "ok")
      BY <1>7, <1>9, <2>1
    <3>4. j \in OpenJobs' <=> r.pc # "ok"
      BY <3>3 DEF OpenJobs
    <3>5. QED
      BY <2>1, <3>1, <3>2, <3>4
  <2>2. CASE jobOwner[j] # w
    <3>1. j \in OpenJobs' <=> j \in OpenJobs
      BY <1>7, <1>8, <2>2 DEF OpenJobs
    <3>2. ~(jobOwner[k] = w /\ j = k)
      BY <2>2
    <3>3. QED
      BY <3>1, <3>2
  <2>3. QED
    BY <2>1, <2>2
<1>13. \A j \in A : j \in OpenJobs' /\ j \notin OpenJobs
  BY <1>1, <1>6 DEF OpenJobs
<1>14. OpenJobs' \subseteq JobIds /\ OpenJobs \subseteq JobIds
  BY DEF OpenJobs
<1>15. OpenJobs' = (IF r.pc = "ok" /\ jobOwner[k] = w THEN OpenJobs \ {k} ELSE OpenJobs) \cup A
  BY <1>12, <1>13, <1>14
<1>16. \A v \in Workers : v # w => (v \in Astray' <=> v \in Astray)
  BY <1>1, <1>2 DEF Astray, Active
<1>17. w \in Astray <=> jobOwner[k] # w
  BY <1>3 DEF Astray
<1>18. w \in Astray' <=> r.pc \notin {"ok", "error"} /\ jobOwner[k] # w
  BY <1>1, <1>2 DEF Astray, Active
<1>19. Astray' \subseteq Workers /\ Astray \subseteq Workers
  BY DEF Astray
<1>20. Astray' = IF r.pc \in {"ok", "error"} THEN Astray \ {w} ELSE Astray
  BY <1>16, <1>17, <1>18, <1>19
<1>21. QED
  BY <1>11, <1>15, <1>17, <1>20

\* The deliveries under way after the step, and the number of places.
LEMMA MovePlaces ==
    ASSUME HooksInv, NEW w \in Workers, NEW r, NEW A, Moves(w, r, A)
    PROVE  /\ Underway \subseteq Underway' \cup {Of(w)}
           /\ A # {} => Of(w) \in Underway'
           /\ Of(w) \in Underway
           /\ r.pc = "ok" => Places' + 1 = Places + Cardinality(A)
           /\ r.pc = "error" => \/ Places' + 1 = Places + Cardinality(A)
                                \/ Places' = Places + Cardinality(A) /\ Underway \subseteq Underway'
           /\ r.pc \notin {"ok", "error"} => Places' = Places + Cardinality(A)
                                             /\ Underway \subseteq Underway'
           /\ Places \in Nat /\ Places' \in Nat /\ Cardinality(A) \in {0, 1}
           /\ A = {} => Cardinality(A) = 0
<1> DEFINE k == run[w].job
           Kept == IF r.pc = "ok" /\ jobOwner[k] = w THEN OpenJobs \ {k} ELSE OpenJobs
<1>1. /\ OpenJobs' = Kept \cup A /\ (jobOwner[k] = w => k \in OpenJobs) /\ OpenJobs \cap A = {}
      /\ Astray' = (IF r.pc \in {"ok", "error"} THEN Astray \ {w} ELSE Astray)
      /\ (jobOwner[k] # w <=> w \in Astray)
  BY MoveJobs
<1>2. /\ \A v \in Workers : run[v].pc # "idle" => Of(v)' = Of(v)
      /\ run[w].pc # "idle" /\ \A j \in A : jobStatus[j] = "none"
  BY MoveRefers
<1>3. IsFiniteSet(OpenJobs) /\ IsFiniteSet(Astray)
  BY Finite DEF HooksInv, Fits
<1>4. \A j \in OpenJobs : work'[j] = work[j]
  BY <1>1 DEF OpenJobs, Moves
<1>5. \A j \in A : work'[j] = Of(w)
  BY DEF Moves
<1>6. \A v \in Astray : v \in Workers /\ run[v].pc # "idle" /\ Of(v)' = Of(v)
  BY <1>2 DEF Astray, Active
<1>7. work[k] = Of(w)
  BY DEF Of
<1>8. Of(w) \in Underway
  BY <1>1, <1>7 DEF Underway
<1>9. Underway' = {work'[j] : j \in OpenJobs'} \cup {Of(v)' : v \in Astray'}
  BY DEF Underway
<1>10. A # {} => Of(w) \in Underway'
  BY <1>1, <1>5, <1>9
<1>11. \A j \in Kept : work[j] \in Underway'
  BY <1>1, <1>4, <1>9
<1>12. \A v \in Astray' : Of(v) \in Underway'
  BY <1>1, <1>6, <1>9
<1>13. Underway \subseteq Underway' \cup {Of(w)}
  BY <1>1, <1>7, <1>11, <1>12 DEF Underway
<1>14. r.pc # "ok" /\ (r.pc = "error" => jobOwner[k] = w) => Underway \subseteq Underway'
  BY <1>1, <1>11, <1>12 DEF Underway
<1>15. IsFiniteSet(A) /\ Cardinality(A) \in {0, 1} /\ (A = {} => Cardinality(A) = 0)
  <2>1. A = {} \/ A = {NextJob}
    BY DEF Moves
  <2>2. QED
    BY <2>1, FS_EmptySet, FS_Singleton
<1>16. Kept \cap A = {} /\ IsFiniteSet(Kept)
  BY <1>1, <1>3, FS_Subset
<1>17. /\ Cardinality(OpenJobs') = Cardinality(Kept) + Cardinality(A)
       /\ Cardinality(Kept) \in Nat
  <2>1. Cardinality(Kept \cup A) = Cardinality(Kept) + Cardinality(A) /\ Cardinality(Kept) \in Nat
    BY <1>15, <1>16, BothCounted
  <2>2. QED
    BY <1>1, <2>1
<1>18. Cardinality(OpenJobs) \in Nat /\ Cardinality(Astray) \in Nat
  BY <1>3, FS_CardinalityType
<1>19. Cardinality(Kept) = IF r.pc = "ok" /\ jobOwner[k] = w THEN Cardinality(OpenJobs) - 1
                           ELSE Cardinality(OpenJobs)
  <2>1. k \in OpenJobs => Cardinality(OpenJobs \ {k}) = Cardinality(OpenJobs) - 1
    BY <1>3, FS_RemoveElement
  <2>2. QED
    BY <1>1, <2>1
<1>20. /\ Cardinality(Astray') = (IF r.pc \in {"ok", "error"} /\ jobOwner[k] # w
                                  THEN Cardinality(Astray) - 1 ELSE Cardinality(Astray))
       /\ Cardinality(Astray') \in Nat
  <2>1. /\ w \in Astray => Cardinality(Astray \ {w}) = Cardinality(Astray) - 1
        /\ w \notin Astray => Astray \ {w} = Astray
        /\ Cardinality(Astray \ {w}) \in Nat
    BY <1>3, FS_RemoveElement, FS_Subset, FS_CardinalityType
  <2>2. QED
    BY <1>1, <1>18, <2>1
<1> HIDE DEF Kept
<1>21. Places' = Cardinality(OpenJobs') + Cardinality(Astray')
  BY DEF Places
<1>22. Places = Cardinality(OpenJobs) + Cardinality(Astray) /\ Places \in Nat
  BY <1>18 DEF Places
<1>23. r.pc = "ok" => Places' + 1 = Places + Cardinality(A)
  BY <1>15, <1>17, <1>18, <1>19, <1>20, <1>21, <1>22
<1>24. r.pc = "error" /\ jobOwner[k] # w => Places' + 1 = Places + Cardinality(A)
  BY <1>15, <1>17, <1>18, <1>19, <1>20, <1>21, <1>22
<1>25. r.pc # "ok" /\ (r.pc = "error" => jobOwner[k] = w) => Places' = Places + Cardinality(A)
  BY <1>15, <1>17, <1>18, <1>19, <1>20, <1>21, <1>22
<1>26. Places' \in Nat
  BY <1>15, <1>17, <1>20, <1>21
<1>27. QED
  BY <1>8, <1>10, <1>13, <1>14, <1>15, <1>22, <1>23, <1>24, <1>25, <1>26

\* What a statement leaves of the rows.
RowsMove(w, r, A) ==
    /\ UNCHANGED targets
    /\ delivery' \in [Deliveries -> Delivery]
    /\ \A d \in Deliveries :
          /\ delivery'[d].to = delivery[d].to
          /\ delivery'[d].status = "new" <=> delivery[d].status = "new"
          /\ delivery'[d].status = "pending" =>
                delivery[d].status = "pending" /\ delivery'[d].attempts \in 0..Waits
    /\ endpoint' \in [Endpoints -> Endpoint]
    /\ \A e \in Endpoints :
          /\ endpoint'[e].state = endpoint[e].state
          /\ endpoint'[e].state = "new" => endpoint'[e].failures = 0
    /\ missed' \in [Endpoints -> SUBSET Used]
    /\ upsets' \in 0..MaxUpsets
    /\ r.pc \in {"clear", "count"} => delivery'[Of(w)].status # "pending"
    /\ r.pc = "ok" => \/ A # {} \/ delivery'[Of(w)].status # "pending"
                      \/ endpoint[delivery[Of(w)].to].state = "gone"

LEMMA MoveFits ==
    ASSUME HooksInv, NEW w \in Workers, NEW r, NEW A, Moves(w, r, A), RowsMove(w, r, A)
    PROVE  Fits'
<1>1. /\ \A v \in Workers : run[v].pc # "idle" =>
            run[v].job \in Submitted /\ Of(v) \in Used /\ Of(v)' = Of(v)
      /\ run[w].pc # "idle" /\ Of(w) \in Used
      /\ A \cap Submitted = {} /\ Submitted' = Submitted \cup A
      /\ run' \in [Workers -> Run] /\ run'[w] = r
      /\ \A v \in Workers : v # w => run'[v] = run[v]
      /\ \A v \in Workers : run'[v].job = run[v].job
                            /\ (run'[v].pc = "idle" <=> run[v].pc = "idle")
      /\ \A j \in A : jobStatus[j] = "none" /\ jobOwner[j] = Nobody
  BY MoveRefers
<1>2. /\ A \subseteq JobIds /\ jobOwner' = jobOwner /\ tries' = tries
      /\ jobStatus' = [j \in JobIds |-> IF j \in A THEN "pending" ELSE jobStatus[j]]
      /\ work' = [j \in JobIds |-> IF j \in A THEN Of(w) ELSE work[j]]
      /\ r.attempts \in 0..Waits
  BY DEF Moves
<1>3. /\ targets' = targets /\ delivery' \in [Deliveries -> Delivery]
      /\ \A d \in Deliveries :
          /\ delivery'[d].to = delivery[d].to
          /\ delivery'[d].status = "new" <=> delivery[d].status = "new"
          /\ delivery'[d].status = "pending" =>
                delivery[d].status = "pending" /\ delivery'[d].attempts \in 0..Waits
      /\ endpoint' \in [Endpoints -> Endpoint]
      /\ \A e \in Endpoints :
          /\ endpoint'[e].state = endpoint[e].state
          /\ endpoint'[e].state = "new" => endpoint'[e].failures = 0
      /\ missed' \in [Endpoints -> SUBSET Used]
      /\ upsets' \in 0..MaxUpsets
  BY DEF RowsMove
<1>4. Used' = Used /\ Used \subseteq Deliveries
  BY <1>3 DEF Used
<1>5. TypeOK'
  <2>1. work' \in [JobIds -> Deliveries \cup {0}]
    BY <1>1, <1>2, <1>4 DEF HooksInv, Fits, TypeOK
  <2>2. jobStatus' \in [JobIds -> {"none", "pending", "running", "done", "failed"}]
    BY <1>2 DEF HooksInv, Fits, TypeOK
  <2>3. missed' \in [Endpoints -> SUBSET Deliveries]
    BY <1>3, <1>4
  <2>4. QED
    BY <1>1, <1>2, <1>3, <2>1, <2>2, <2>3 DEF HooksInv, Fits, TypeOK
<1>6. Attempts'
  <2>1. \A v \in Workers : run'[v].attempts \in 0..Waits
    BY <1>1, <1>2 DEF HooksInv, Fits, Attempts
  <2>2. QED
    BY <1>3, <2>1 DEF Attempts
<1>7. Prefixes'
  <2>1. \E m \in 0..MaxJobs : Submitted' = 1..m
    <3>1. CASE A = {}
      BY <1>1, <3>1 DEF HooksInv, Fits, Prefixes
    <3>2. CASE A # {}
      <4>1. A = {NextJob} /\ NextJob \in JobIds
        BY <3>2 DEF Moves
      <4>2. QED
        BY <1>1, <4>1, NextIsNew
    <3>3. QED
      BY <3>1, <3>2
  <2>2. QED
    BY <1>4, <2>1 DEF Prefixes, HooksInv, Fits
<1>8. RowsFit'
  <2>1. \A e \in Endpoints : missed'[e] \subseteq Used'
    BY <1>3, <1>4
  <2>2. \A j \in JobIds : IF jobStatus'[j] = "none" THEN work'[j] = 0 ELSE work'[j] \in Used'
    BY <1>1, <1>2, <1>4 DEF HooksInv, Fits, RowsFit
  <2>3. \A d \in Used' : delivery'[d].to \in Endpoints /\ endpoint'[delivery'[d].to].state # "new"
    BY <1>3, <1>4 DEF HooksInv, Fits, RowsFit
  <2>4. \A d \in Deliveries \ Used' : delivery'[d].to = NoEndpoint
    BY <1>3, <1>4 DEF HooksInv, Fits, RowsFit
  <2>5. \A e \in targets' : endpoint'[e].state # "new"
    BY <1>3 DEF HooksInv, Fits, RowsFit, TypeOK
  <2>6. QED
    BY <1>3, <2>1, <2>2, <2>3, <2>4, <2>5 DEF RowsFit
<1>9. Owned'
  BY <1>1, <1>2 DEF HooksInv, Fits, Owned, TypeOK
<1>10. RunsJobs'
  BY <1>1 DEF HooksInv, Fits, RunsJobs
<1>11. Passed'
  <2> SUFFICES ASSUME NEW v \in Workers, run'[v].pc \in {"clear", "count"}
               PROVE  delivery'[Of(v)'].status # "pending"
    BY DEF Passed
  <2>1. Of(v)' = Of(v) /\ Of(v) \in Deliveries
    BY <1>1, <1>4
  <2>2. CASE v = w
    BY <1>1, <2>1, <2>2 DEF RowsMove
  <2>3. CASE v # w
    <3>1. delivery[Of(v)].status # "pending"
      BY <1>1, <2>3 DEF HooksInv, Fits, Passed
    <3>2. QED
      BY <1>3, <2>1, <3>1
  <2>4. QED
    BY <2>2, <2>3
<1>12. Chains'
  <2> SUFFICES ASSUME NEW d \in Deliveries, delivery'[d].status = "pending",
                      endpoint'[delivery'[d].to].state # "gone"
               PROVE  \E j \in JobIds : work'[j] = d /\ (j \in OpenJobs' \/ jobStatus'[j] = "failed")
    BY DEF Chains
  <2>1. OpenJobs' = (IF r.pc = "ok" /\ jobOwner[run[w].job] = w
                     THEN OpenJobs \ {run[w].job} ELSE OpenJobs) \cup A
    BY MoveJobs
  <2>2. CASE d = Of(w) /\ A # {}
    <3>1. PICK j \in A : TRUE
      BY <2>2
    <3>2. j \in JobIds /\ work'[j] = d /\ j \in OpenJobs'
      BY <1>2, <2>1, <2>2
    <3>3. QED
      BY <3>2
  <2>3. CASE d # Of(w) \/ A = {}
    <3>1. delivery[d].status = "pending" /\ delivery[d].to \in Endpoints
      BY <1>3 DEF HooksInv, Fits, RowsFit, Used
    <3>2. endpoint[delivery[d].to].state # "gone"
      BY <1>3, <3>1
    <3>3. PICK j \in JobIds : work[j] = d /\ (j \in OpenJobs \/ jobStatus[j] = "failed")
      BY <3>1, <3>2 DEF HooksInv, Fits, Chains
    <3>4. j \notin A
      BY <1>1, <3>3 DEF OpenJobs, Live
    <3>5. r.pc = "ok" => d # Of(w)
      BY <2>3, <3>2 DEF RowsMove
    <3>6. j = run[w].job => d = Of(w)
      BY <3>3 DEF Of
    <3>7. work'[j] = d /\ jobStatus'[j] = jobStatus[j]
      BY <1>2, <3>3, <3>4
    <3>8. j \in OpenJobs => j \in OpenJobs'
      BY <2>1, <3>5, <3>6
    <3>9. QED
      BY <3>3, <3>7, <3>8
  <2>4. QED
    BY <2>2, <2>3
<1>13. QED
  BY <1>5, <1>6, <1>7, <1>8, <1>9, <1>10, <1>11, <1>12 DEF Fits

LEMMA FiniteNext ==
    ASSUME Fits', Used' = Used
    PROVE  /\ IsFiniteSet(OpenJobs') /\ IsFiniteSet(Astray') /\ upsets' \in Nat
           /\ \A M \in SUBSET Used : IsFiniteSet(M \cup Underway')
<1>1. TypeOK' /\ RowsFit' /\ RunsJobs'
  BY DEF Fits
<1>2. (TypeOK /\ RowsFit /\ RunsJobs => /\ IsFiniteSet(OpenJobs) /\ IsFiniteSet(Astray)
        /\ upsets \in Nat /\ \A M \in SUBSET Used : IsFiniteSet(M \cup Underway))'
  BY Finite, PTL
<1>3. QED
  BY <1>1, <1>2

\* A place more for each upset, and no delivery less without a place less.
LEMMA Weigh ==
    ASSUME HooksInv, Fits', Used' = Used, NEW M \in SUBSET Used, NEW f \in Nat, Balanced(M, f),
           \/ Underway \subseteq Underway' /\ Places' <= Places + (upsets' - upsets)
           \/ \E d \in Used : Underway \subseteq Underway' \cup {d}
                              /\ Places' + 1 <= Places + (upsets' - upsets)
    PROVE  f + Cardinality(OpenJobs') + Cardinality(Astray') <= Cardinality(M \cup Underway') + upsets'
<1>1. /\ IsFiniteSet(M \cup Underway) /\ upsets \in Nat
      /\ IsFiniteSet(OpenJobs) /\ IsFiniteSet(Astray)
  BY Finite DEF HooksInv, Fits
<1>2. /\ IsFiniteSet(M \cup Underway') /\ upsets' \in Nat
      /\ IsFiniteSet(OpenJobs') /\ IsFiniteSet(Astray')
  BY FiniteNext
<1>3. /\ Cardinality(OpenJobs) \in Nat /\ Cardinality(Astray) \in Nat
      /\ Cardinality(OpenJobs') \in Nat /\ Cardinality(Astray') \in Nat
      /\ Cardinality(M \cup Underway) \in Nat /\ Cardinality(M \cup Underway') \in Nat
  BY <1>1, <1>2, FS_CardinalityType
<1>4. /\ Places = Cardinality(OpenJobs) + Cardinality(Astray)
      /\ Places' = Cardinality(OpenJobs') + Cardinality(Astray')
  BY DEF Places
<1>5. f + Cardinality(OpenJobs) + Cardinality(Astray) <= Cardinality(M \cup Underway) + upsets
  BY DEF Balanced
<1>6. CASE Underway \subseteq Underway' /\ Places' <= Places + (upsets' - upsets)
  <2>1. Cardinality(M \cup Underway) <= Cardinality(M \cup Underway')
    <3>1. M \cup Underway \subseteq M \cup Underway'
      BY <1>6
    <3>2. QED
      BY <1>2, <3>1, FS_Subset
  <2>2. QED
    BY <1>1, <1>2, <1>3, <1>4, <1>5, <1>6, <2>1
<1>7. ASSUME NEW d \in Used, Underway \subseteq Underway' \cup {d},
             Places' + 1 <= Places + (upsets' - upsets)
      PROVE  f + Cardinality(OpenJobs') + Cardinality(Astray') <= Cardinality(M \cup Underway') + upsets'
  <2>1. Cardinality(M \cup Underway) <= Cardinality(M \cup Underway') + 1
    <3>1. M \cup Underway \subseteq (M \cup Underway') \cup {d}
      BY <1>7
    <3>2. /\ IsFiniteSet((M \cup Underway') \cup {d})
          /\ Cardinality((M \cup Underway') \cup {d}) <= Cardinality(M \cup Underway') + 1
      <4>1. /\ IsFiniteSet((M \cup Underway') \cup {d})
            /\ Cardinality((M \cup Underway') \cup {d})
                 = IF d \in M \cup Underway' THEN Cardinality(M \cup Underway')
                   ELSE Cardinality(M \cup Underway') + 1
        BY <1>2, FS_AddElement
      <4>2. QED
        BY <1>3, <4>1
    <3>3. Cardinality(M \cup Underway) <= Cardinality((M \cup Underway') \cup {d})
      BY <3>1, <3>2, FS_Subset
    <3>4. Cardinality((M \cup Underway') \cup {d}) \in Nat
      BY <3>2, FS_CardinalityType
    <3>5. QED
      BY <1>3, <3>2, <3>3, <3>4
  <2>2. QED
    BY <1>1, <1>2, <1>3, <1>4, <1>5, <1>7, <2>1
<1>8. QED
  BY <1>6, <1>7

LEMMA PlacesCount == ASSUME HooksInv PROVE Places \in Nat /\ upsets \in Nat
<1>1. IsFiniteSet(OpenJobs) /\ IsFiniteSet(Astray) /\ upsets \in Nat
  BY Finite DEF HooksInv, Fits
<1>2. Cardinality(OpenJobs) \in Nat /\ Cardinality(Astray) \in Nat
  BY <1>1, FS_CardinalityType
<1>3. QED
  BY <1>1, <1>2 DEF Places

\* Nothing was counted or cleared.
LEMMA BooksKept ==
    ASSUME HooksInv, Fits', UNCHANGED <<endpoint, missed>>, Used' = Used,
           \/ Underway \subseteq Underway' /\ Places' <= Places + (upsets' - upsets)
           \/ \E d \in Used : Underway \subseteq Underway' \cup {d}
                              /\ Places' + 1 <= Places + (upsets' - upsets)
    PROVE  HooksInv'
<1>1. \A M \in SUBSET Used : \A f \in Nat : Balanced(M, f) =>
          f + Cardinality(OpenJobs') + Cardinality(Astray') <= Cardinality(M \cup Underway') + upsets'
  BY Weigh
<1>2. \A e \in Endpoints : missed[e] \in SUBSET Used /\ endpoint[e].failures \in Nat
  BY DEF HooksInv, Fits, RowsFit, TypeOK, Endpoint
<1>3. {} \in SUBSET Used /\ 0 \in Nat
  OBVIOUS
<1>4. 0 + Cardinality(OpenJobs') + Cardinality(Astray') <= Cardinality({} \cup Underway') + upsets'
  BY <1>1, <1>3 DEF HooksInv, Books
<1>5. \A e \in Endpoints : endpoint[e].state # "gone" =>
          endpoint[e].failures + Cardinality(OpenJobs') + Cardinality(Astray')
              <= Cardinality(missed[e] \cup Underway') + upsets'
  BY <1>1, <1>2 DEF HooksInv, Books
<1>6. Books'
  BY <1>4, <1>5 DEF Books, Balanced
<1>7. QED
  BY <1>6 DEF HooksInv

\* A statement that leaves the endpoints and their counts alone.
LEMMA StatementHolds ==
    ASSUME HooksInv, NEW w \in Workers, NEW r, NEW A, Moves(w, r, A), RowsMove(w, r, A),
           UNCHANGED <<endpoint, missed>>,
           \/ upsets' = upsets /\ r.pc \notin {"ok", "error"} /\ A = {}
           \/ upsets' = upsets /\ r.pc = "ok"
           \/ upsets' = upsets + 1 /\ r.pc = "error"
    PROVE  HooksInv'
<1>1. Fits'
  BY MoveFits
<1>2. /\ Underway \subseteq Underway' \cup {Of(w)}
      /\ A # {} => Of(w) \in Underway'
      /\ r.pc = "ok" => Places' + 1 = Places + Cardinality(A)
      /\ r.pc = "error" => \/ Places' + 1 = Places + Cardinality(A)
                           \/ Places' = Places + Cardinality(A) /\ Underway \subseteq Underway'
      /\ r.pc \notin {"ok", "error"} => Places' = Places + Cardinality(A)
                                        /\ Underway \subseteq Underway'
      /\ Places \in Nat /\ Places' \in Nat /\ Cardinality(A) \in {0, 1}
      /\ A = {} => Cardinality(A) = 0
  BY MovePlaces
<1>3. upsets \in Nat
  BY PlacesCount
<1>4. Used' = Used
  BY DEF RowsMove, Used
<1>5. Of(w) \in Used
  BY MoveRefers
<1>6. \/ Underway \subseteq Underway' /\ Places' <= Places + (upsets' - upsets)
      \/ Underway \subseteq Underway' \cup {Of(w)} /\ Places' + 1 <= Places + (upsets' - upsets)
  <2>1. \/ Cardinality(A) = 0
        \/ Underway \subseteq Underway' /\ Cardinality(A) \in {0, 1}
    BY <1>2
  <2>2. CASE r.pc \notin {"ok", "error"}
    BY <1>2, <1>3, <2>2
  <2>3. CASE r.pc = "ok"
    <3>1. Places' + 1 = Places + Cardinality(A) /\ upsets' - upsets = 0
      BY <1>2, <1>3, <2>3
    <3>2. \/ Places' + 1 <= Places + (upsets' - upsets)
          \/ Underway \subseteq Underway' /\ Places' <= Places + (upsets' - upsets)
      BY <1>2, <2>1, <3>1
    <3>3. QED
      BY <1>2, <3>2
  <2>4. CASE r.pc = "error"
    <3>1. upsets' - upsets = 1
      BY <1>3, <2>4
    <3>2. CASE Places' + 1 = Places + Cardinality(A)
      <4>1. \/ Places' + 1 <= Places + (upsets' - upsets)
            \/ Underway \subseteq Underway' /\ Places' <= Places + (upsets' - upsets)
        BY <1>2, <2>1, <3>1, <3>2
      <4>2. QED
        BY <1>2, <4>1
    <3>3. CASE Places' = Places + Cardinality(A) /\ Underway \subseteq Underway'
      <4>1. Places' <= Places + (upsets' - upsets)
        BY <1>2, <3>1, <3>3
      <4>2. QED
        BY <3>3, <4>1
    <3>4. QED
      BY <1>2, <2>4, <3>2, <3>3
  <2>5. QED
    BY <2>2, <2>3, <2>4
<1>7. QED
  BY <1>1, <1>4, <1>5, <1>6, BooksKept

\* A statement that goes on at pc and enqueues nothing.
LEMMA GoesOn ==
    ASSUME HooksInv, NEW w \in Workers, Active(w), NEW pc \in PCs, pc # "idle",
           To(w, pc), UNCHANGED queue
    PROVE  \E r \in Run : r.pc = pc /\ Moves(w, r, {})
<1> DEFINE r == [run[w] EXCEPT !.pc = pc]
<1>1. run[w] \in Run /\ run' = [run EXCEPT ![w] = r] /\ run[w].attempts \in 0..Waits
  BY DEF HooksInv, Fits, TypeOK, Attempts, To
<1>2. r \in Run /\ r.pc = pc /\ r.job = run[w].job /\ r.attempts = run[w].attempts
  BY <1>1 DEF Run
<1>3. UNCHANGED <<jobStatus, jobOwner, work, tries>>
  BY DEF queue
<1>4. /\ jobStatus' = [j \in JobIds |-> IF j \in {} THEN "pending" ELSE jobStatus[j]]
      /\ work' = [j \in JobIds |-> IF j \in {} THEN Of(w) ELSE work[j]]
  BY <1>3 DEF HooksInv, Fits, TypeOK
<1> HIDE DEF r
<1>5. Moves(w, r, {})
  BY <1>1, <1>2, <1>3, <1>4 DEF Moves
<1>6. QED
  BY <1>2, <1>5

\* What holds of the rows when a statement leaves them.
LEMMA RowsStay ==
    ASSUME HooksInv
    PROVE  /\ delivery \in [Deliveries -> Delivery] /\ endpoint \in [Endpoints -> Endpoint]
           /\ missed \in [Endpoints -> SUBSET Used] /\ upsets \in 0..MaxUpsets
           /\ Used \subseteq Deliveries
           /\ \A d \in Deliveries : delivery[d].status = "pending" => delivery[d].attempts \in 0..Waits
           /\ \A e \in Endpoints : endpoint[e].state = "new" => endpoint[e].failures = 0
           /\ \A d \in Used : delivery[d].to \in Endpoints /\ endpoint[delivery[d].to].state # "new"
           /\ \A e \in Endpoints : endpoint[e].state \in {"new", "open", "gone"}
  BY DEF HooksInv, Fits, TypeOK, RowsFit, Attempts, Used, Endpoint

LEMMA RowsMoveNot ==
    ASSUME HooksInv, NEW w, NEW r, NEW A, UNCHANGED rows, upsets' \in 0..MaxUpsets,
           r.pc \in {"clear", "count"} => delivery[Of(w)].status # "pending",
           r.pc = "ok" => \/ A # {} \/ delivery[Of(w)].status # "pending"
                          \/ endpoint[delivery[Of(w)].to].state = "gone"
    PROVE  RowsMove(w, r, A) /\ UNCHANGED <<endpoint, missed>>
  BY RowsStay DEF RowsMove, rows

LEMMA ReadHolds == ASSUME HooksInv, NEW w \in Workers, Read(w) PROVE HooksInv'
<1> DEFINE d == Of(w)
<1>1. run[w].pc = "read" /\ UNCHANGED rows /\ UNCHANGED queue /\ upsets' = upsets
  BY DEF Read
<1>2. Active(w)
  BY <1>1 DEF Active
<1>3. d \in Used /\ delivery[d].to \in Endpoints /\ endpoint[delivery[d].to].state # "new"
      /\ endpoint[delivery[d].to].state \in {"new", "open", "gone"} /\ upsets \in 0..MaxUpsets
  <2>1. d \in Used
    BY <1>1 DEF Of, HooksInv, Fits, RunsJobs, RowsFit, Submitted
  <2>2. QED
    BY <2>1, RowsStay
<1>4. \E r \in Run : /\ Moves(w, r, {})
                     /\ \/ r.pc = "ok" /\ (delivery[d].status # "pending"
                                           \/ endpoint[delivery[d].to].state = "gone")
                        \/ r.pc \in {"drop", "post"}
  <2>1. CASE /\ ~(delivery[d].status # "gone" /\ Open(delivery[d].to)) \/ delivery[d].status # "pending"
             /\ To(w, "ok")
    <3>1. PICK r \in Run : r.pc = "ok" /\ Moves(w, r, {})
      BY <1>1, <1>2, <2>1, GoesOn DEF PCs
    <3>2. delivery[d].status # "pending" \/ endpoint[delivery[d].to].state = "gone"
      BY <1>3, <2>1 DEF Open
    <3>3. QED
      BY <3>1, <3>2
  <2>2. CASE To(w, "drop")
    <3>1. PICK r \in Run : r.pc = "drop" /\ Moves(w, r, {})
      BY <1>1, <1>2, <2>2, GoesOn DEF PCs
    <3>2. QED
      BY <3>1
  <2>3. CASE /\ delivery[d].status = "pending"
             /\ run' = [run EXCEPT ![w] = [pc |-> "post", job |-> run[w].job,
                                           attempts |-> delivery[d].attempts]]
    <3> DEFINE r == [pc |-> "post", job |-> run[w].job, attempts |-> delivery[d].attempts]
    <3>1. delivery[d].attempts \in 0..Waits
      BY <1>3, <2>3, RowsStay
    <3>2. run[w].job \in JobIds \cup {0} /\ run[w] \in Run
      BY DEF HooksInv, Fits, TypeOK, Run
    <3>3. r \in Run /\ r.pc = "post" /\ r.job = run[w].job /\ r.attempts \in 0..Waits
      BY <3>1, <3>2, Bounds DEF Run, PCs
    <3>4. UNCHANGED <<jobStatus, jobOwner, work, tries>>
      BY <1>1 DEF queue
    <3>5. /\ jobStatus' = [j \in JobIds |-> IF j \in {} THEN "pending" ELSE jobStatus[j]]
          /\ work' = [j \in JobIds |-> IF j \in {} THEN Of(w) ELSE work[j]]
      BY <3>4 DEF HooksInv, Fits, TypeOK
    <3>6. run' = [run EXCEPT ![w] = r]
      BY <2>3
    <3> HIDE DEF r
    <3>7. Moves(w, r, {})
      BY <1>2, <3>3, <3>4, <3>5, <3>6 DEF Moves
    <3>8. QED
      BY <3>3, <3>7
  <2>4. QED
    BY <2>1, <2>2, <2>3 DEF Read
<1>5. PICK r \in Run : /\ Moves(w, r, {})
                       /\ \/ r.pc = "ok" /\ (delivery[d].status # "pending"
                                             \/ endpoint[delivery[d].to].state = "gone")
                          \/ r.pc \in {"drop", "post"}
  BY <1>4
<1>6. RowsMove(w, r, {}) /\ UNCHANGED <<endpoint, missed>>
  BY <1>1, <1>3, <1>5, RowsMoveNot
<1>7. QED
  BY <1>1, <1>5, <1>6, StatementHolds

LEMMA PostHolds == ASSUME HooksInv, NEW w \in Workers, Post(w) PROVE HooksInv'
<1>1. run[w].pc = "post" /\ UNCHANGED rows /\ UNCHANGED queue /\ upsets' = upsets
  BY DEF Post
<1>2. Active(w)
  BY <1>1 DEF Active
<1>3. PICK pc \in {"accepted", "refused"} : To(w, pc)
  BY DEF Post
<1>4. PICK r \in Run : r.pc = pc /\ Moves(w, r, {})
  BY <1>1, <1>2, <1>3, GoesOn DEF PCs
<1>5. RowsMove(w, r, {}) /\ UNCHANGED <<endpoint, missed>>
  BY <1>1, <1>3, <1>4, RowsStay, RowsMoveNot
<1>6. QED
  BY <1>1, <1>3, <1>4, <1>5, StatementHolds

\* A statement that writes the delivery.
LEMMA Written ==
    ASSUME HooksInv, NEW w \in Workers, Active(w), NEW s, NEW n \in 0..Waits + 1, NEW r,
           Write(w, s, n), UNCHANGED <<endpoint, missed, targets, upsets>>,
           \/ s \in {"delivered", "failed"}
           \/ s = delivery[Of(w)].status /\ n \in 0..Waits,
           r.pc \in {"clear", "count", "ok"} => s \in {"delivered", "failed"}
    PROVE  RowsMove(w, r, {})
<1> DEFINE d == Of(w)
           row == [status |-> s, to |-> delivery[d].to, attempts |-> n]
<1>1. d \in Used /\ d \in Deliveries /\ delivery[d] \in Delivery /\ delivery[d].status # "new"
  <2>1. d \in Used
    BY DEF Active, Of, HooksInv, Fits, RunsJobs, RowsFit, Submitted
  <2>2. QED
    BY <2>1, RowsStay DEF Used
<1>2. row \in Delivery /\ row.status = s /\ row.to = delivery[d].to /\ row.attempts = n
  BY <1>1 DEF Delivery
<1>3. delivery' = IF delivery[d].status = "gone" THEN delivery ELSE [delivery EXCEPT ![d] = row]
  BY DEF Write, ToEndpoint
<1> HIDE DEF row
<1>4. \A o \in Deliveries : o # d => delivery'[o] = delivery[o]
  BY <1>3, RowsStay
<1>5. IF delivery[d].status = "gone" THEN delivery'[d] = delivery[d] ELSE delivery'[d] = row
  BY <1>1, <1>3, RowsStay
<1>6. delivery' \in [Deliveries -> Delivery]
  BY <1>1, <1>2, <1>3, RowsStay
<1>7. \A o \in Deliveries :
          /\ delivery'[o].to = delivery[o].to
          /\ delivery'[o].status = "new" <=> delivery[o].status = "new"
          /\ delivery'[o].status = "pending" =>
                delivery[o].status = "pending" /\ delivery'[o].attempts \in 0..Waits
  BY <1>1, <1>2, <1>4, <1>5, RowsStay
<1>8. r.pc \in {"clear", "count", "ok"} => delivery'[d].status # "pending"
  BY <1>2, <1>5
<1>9. QED
  BY <1>6, <1>7, <1>8, RowsStay DEF RowsMove

LEMMA DropHolds ==
    ASSUME HooksInv, NEW w \in Workers, Drop(w), UNCHANGED <<targets, upsets>>
    PROVE  HooksInv'
<1>1. /\ run[w].pc = "drop" /\ Write(w, "failed", delivery[Of(w)].attempts) /\ To(w, "ok")
      /\ UNCHANGED <<endpoint, missed>> /\ UNCHANGED queue
  BY DEF Drop
<1>2. Active(w)
  BY <1>1 DEF Active
<1>3. delivery[Of(w)].attempts \in 0..Waits + 1
  <2>1. Of(w) \in Used
    BY <1>1 DEF Of, HooksInv, Fits, RunsJobs, RowsFit, Submitted
  <2>2. QED
    BY <2>1, RowsStay DEF Delivery
<1>4. PICK r \in Run : r.pc = "ok" /\ Moves(w, r, {})
  BY <1>1, <1>2, GoesOn DEF PCs
<1>5. RowsMove(w, r, {})
  BY <1>1, <1>2, <1>3, <1>4, Written
<1>6. QED
  BY <1>1, <1>4, <1>5, StatementHolds

\* A worker's attempts, one more.
LEMMA OneMore ==
    ASSUME HooksInv, NEW w \in Workers
    PROVE  /\ run[w].attempts + 1 \in 0..Waits + 1
           /\ Retriable(w) => run[w].attempts + 1 \in 0..Waits
<1>1. run[w].attempts \in 0..Waits
  BY DEF HooksInv, Fits, Attempts
<1>2. QED
  BY <1>1, Bounds DEF Retriable

LEMMA MarkDeliveredHolds ==
    ASSUME HooksInv, NEW w \in Workers, MarkDelivered(w), UNCHANGED <<targets, upsets>>
    PROVE  HooksInv'
<1>1. /\ run[w].pc = "accepted" /\ Write(w, "delivered", run[w].attempts + 1) /\ To(w, "clear")
      /\ UNCHANGED <<endpoint, missed>> /\ UNCHANGED queue
  BY DEF MarkDelivered
<1>2. Active(w)
  BY <1>1 DEF Active
<1>3. run[w].attempts + 1 \in 0..Waits + 1
  BY OneMore
<1>4. PICK r \in Run : r.pc = "clear" /\ Moves(w, r, {})
  BY <1>1, <1>2, GoesOn DEF PCs
<1>5. RowsMove(w, r, {})
  BY <1>1, <1>2, <1>3, <1>4, Written
<1>6. QED
  BY <1>1, <1>4, <1>5, StatementHolds

LEMMA RecordAttemptHolds ==
    ASSUME HooksInv, NEW w \in Workers, RecordAttempt(w), UNCHANGED <<targets, upsets>>
    PROVE  HooksInv'
<1>1. /\ run[w].pc = "refused" /\ Retriable(w) /\ To(w, "again")
      /\ Write(w, delivery[Of(w)].status, run[w].attempts + 1)
      /\ UNCHANGED <<endpoint, missed>> /\ UNCHANGED queue
  BY DEF RecordAttempt
<1>2. Active(w)
  BY <1>1 DEF Active
<1>3. run[w].attempts + 1 \in 0..Waits + 1 /\ run[w].attempts + 1 \in 0..Waits
  BY <1>1, OneMore
<1>4. PICK r \in Run : r.pc = "again" /\ Moves(w, r, {})
  BY <1>1, <1>2, GoesOn DEF PCs
<1>5. RowsMove(w, r, {})
  BY <1>1, <1>2, <1>3, <1>4, Written
<1>6. QED
  BY <1>1, <1>4, <1>5, StatementHolds

LEMMA MarkFailedHolds ==
    ASSUME HooksInv, NEW w \in Workers, MarkFailed(w), UNCHANGED <<targets, upsets>>
    PROVE  HooksInv'
<1>1. /\ run[w].pc = "refused" /\ Write(w, "failed", run[w].attempts + 1) /\ To(w, "count")
      /\ UNCHANGED <<endpoint, missed>> /\ UNCHANGED queue
  BY DEF MarkFailed
<1>2. Active(w)
  BY <1>1 DEF Active
<1>3. run[w].attempts + 1 \in 0..Waits + 1
  BY OneMore
<1>4. PICK r \in Run : r.pc = "count" /\ Moves(w, r, {})
  BY <1>1, <1>2, GoesOn DEF PCs
<1>5. RowsMove(w, r, {})
  BY <1>1, <1>2, <1>3, <1>4, Written
<1>6. QED
  BY <1>1, <1>4, <1>5, StatementHolds

\* A run that ends with the next job submitted, or with an error.
LEMMA Enqueues ==
    ASSUME HooksInv, NEW w \in Workers, Active(w), NEW pc \in {"ok", "error"}, To(w, pc),
           NextJob \in JobIds, Queue!Submit(NextJob), work' = [work EXCEPT ![NextJob] = Of(w)],
           UNCHANGED tries
    PROVE  \E r \in Run : r.pc = pc /\ Moves(w, r, {NextJob})
<1> DEFINE r == [run[w] EXCEPT !.pc = pc]
<1>1. run[w] \in Run /\ run' = [run EXCEPT ![w] = r] /\ run[w].attempts \in 0..Waits
  BY DEF HooksInv, Fits, TypeOK, Attempts, To
<1>2. r \in Run /\ r.pc = pc /\ r.job = run[w].job /\ r.attempts = run[w].attempts
  BY <1>1 DEF Run, PCs
<1>3. /\ jobStatus' = [jobStatus EXCEPT ![NextJob] = "pending"] /\ jobOwner' = jobOwner
      /\ jobStatus \in [JobIds -> {"none", "pending", "running", "done", "failed"}]
      /\ work \in [JobIds -> Deliveries \cup {0}]
  BY DEF Queue!Submit, HooksInv, Fits, TypeOK
<1>4. /\ jobStatus' = [j \in JobIds |-> IF j \in {NextJob} THEN "pending" ELSE jobStatus[j]]
      /\ work' = [j \in JobIds |-> IF j \in {NextJob} THEN Of(w) ELSE work[j]]
  BY <1>3
<1> HIDE DEF r
<1>5. Moves(w, r, {NextJob})
  BY <1>1, <1>2, <1>3, <1>4 DEF Moves
<1>6. QED
  BY <1>2, <1>5

LEMMA EnqueueNextHolds ==
    ASSUME HooksInv, NEW w \in Workers, EnqueueNext(w), UNCHANGED <<targets, upsets>>
    PROVE  HooksInv'
<1>1. /\ run[w].pc = "again" /\ NextJob \in JobIds /\ Queue!Submit(NextJob) /\ To(w, "ok")
      /\ work' = [work EXCEPT ![NextJob] = Of(w)]
      /\ UNCHANGED <<endpoint, delivery, missed, tries>>
  BY DEF EnqueueNext
<1>2. Active(w)
  BY <1>1 DEF Active
<1>3. PICK r \in Run : r.pc = "ok" /\ Moves(w, r, {NextJob})
  BY <1>1, <1>2, Enqueues
<1>4. UNCHANGED rows /\ upsets' \in 0..MaxUpsets
  BY <1>1, RowsStay DEF rows
<1>5. RowsMove(w, r, {NextJob})
  BY <1>3, <1>4, RowsMoveNot
<1>6. QED
  BY <1>1, <1>3, <1>5, StatementHolds

LEMMA ErrorHolds == ASSUME HooksInv, NEW w \in Workers, Error(w) PROVE HooksInv'
<1>1. /\ run[w].pc \in PCs \ {"idle", "post", "ok", "error"} /\ To(w, "error")
      /\ upsets < MaxUpsets /\ upsets' = upsets + 1 /\ UNCHANGED rows /\ UNCHANGED tries
  BY DEF Error, Upset, To
<1>2. Active(w) /\ upsets' \in 0..MaxUpsets /\ UNCHANGED <<endpoint, missed>>
  BY <1>1, RowsStay, Bounds DEF Active, rows
<1>3. \E r \in Run : r.pc = "error" /\ \E A \in SUBSET JobIds : Moves(w, r, A)
  <2>1. CASE UNCHANGED <<jobStatus, jobOwner, work>>
    <3>1. UNCHANGED queue
      BY <1>1, <2>1 DEF queue
    <3>2. PICK r \in Run : r.pc = "error" /\ Moves(w, r, {})
      BY <1>1, <1>2, <3>1, GoesOn DEF PCs
    <3>3. QED
      BY <3>2
  <2>2. CASE /\ NextJob \in JobIds /\ Queue!Submit(NextJob)
             /\ work' = [work EXCEPT ![NextJob] = Of(w)]
    <3>1. PICK r \in Run : r.pc = "error" /\ Moves(w, r, {NextJob})
      BY <1>1, <1>2, <2>2, Enqueues
    <3>2. {NextJob} \in SUBSET JobIds
      BY <2>2
    <3>3. QED
      BY <3>1, <3>2
  <2>3. QED
    BY <2>1, <2>2 DEF Error
<1>4. PICK r \in Run, A \in SUBSET JobIds : r.pc = "error" /\ Moves(w, r, A)
  BY <1>3
<1>5. RowsMove(w, r, A)
  BY <1>1, <1>2, <1>4, RowsMoveNot
<1>6. QED
  BY <1>1, <1>2, <1>4, <1>5, StatementHolds

\* A run that counts or clears knows an endpoint that was there, and ends.
LEMMA Ends ==
    ASSUME HooksInv, NEW w \in Workers, run[w].pc \in {"clear", "count"}, To(w, "ok"),
           UNCHANGED <<delivery, targets, upsets>>, UNCHANGED queue,
           endpoint' \in [Endpoints -> Endpoint],
           \A e \in Endpoints : endpoint'[e].state = endpoint[e].state,
           \A e \in Endpoints : endpoint[e].state = "new" => endpoint'[e] = endpoint[e],
           missed' \in [Endpoints -> SUBSET Used]
    PROVE  /\ Fits' /\ Used' = Used /\ Of(w) \in Used /\ ToEndpoint(w) \in Endpoints
           /\ endpoint[ToEndpoint(w)].state \in {"open", "gone"}
           /\ Underway \subseteq Underway' \cup {Of(w)} /\ Places' + 1 = Places
           /\ Places \in Nat /\ Places' \in Nat
<1>1. Active(w)
  BY DEF Active
<1>2. PICK r \in Run : r.pc = "ok" /\ Moves(w, r, {})
  BY <1>1, GoesOn DEF PCs
<1>3. delivery[Of(w)].status # "pending"
  BY DEF HooksInv, Fits, Passed
<1>4. RowsMove(w, r, {})
  BY <1>2, <1>3, RowsStay DEF RowsMove
<1>5. Fits' /\ Used' = Used
  BY <1>2, <1>4, MoveFits DEF Used
<1>6. Of(w) \in Used
  BY <1>2, MoveRefers
<1>7. ToEndpoint(w) \in Endpoints /\ endpoint[ToEndpoint(w)].state \in {"open", "gone"}
  BY <1>6, RowsStay DEF ToEndpoint
<1>8. /\ Underway \subseteq Underway' \cup {Of(w)} /\ Places' + 1 = Places + Cardinality({})
      /\ Places \in Nat /\ Places' \in Nat /\ Cardinality({}) = 0
  BY <1>2, MovePlaces
<1>9. PICK before \in Nat : before = Places
  BY <1>8
<1>10. Places' + 1 = Places
  <2>1. Places' + 1 = before + 0
    BY <1>8, <1>9
  <2>2. QED
    BY <1>9, <2>1
<1>11. QED
  BY <1>5, <1>6, <1>7, <1>8, <1>10

LEMMA ClearFailuresHolds ==
    ASSUME HooksInv, NEW w \in Workers, ClearFailures(w), UNCHANGED <<targets, upsets>>
    PROVE  HooksInv'
<1> DEFINE e == ToEndpoint(w)
<1>1. /\ run[w].pc = "clear" /\ To(w, "ok") /\ UNCHANGED delivery /\ UNCHANGED queue
      /\ endpoint' = (IF ~Open(e) THEN endpoint
                      ELSE [endpoint EXCEPT ![e] = Counted(0, endpoint[e].disabled)])
      /\ missed' = [missed EXCEPT ![e] = {}]
  BY DEF ClearFailures
<1>2. \A o \in Endpoints : endpoint[o].disabled \in BOOLEAN
  BY RowsStay DEF Endpoint
<1>3. e \in Endpoints => /\ Counted(0, endpoint[e].disabled) \in Endpoint
                         /\ Counted(0, endpoint[e].disabled).state = "open"
                         /\ Counted(0, endpoint[e].disabled).failures = 0
  BY <1>2 DEF Counted, Endpoint
<1>4. /\ endpoint' \in [Endpoints -> Endpoint] /\ missed' \in [Endpoints -> SUBSET Used]
      /\ \A o \in Endpoints : o # e => endpoint'[o] = endpoint[o] /\ missed'[o] = missed[o]
      /\ e \in Endpoints => missed'[e] = {}
      /\ e \in Endpoints => IF endpoint[e].state = "open"
                            THEN endpoint'[e].failures = 0 /\ endpoint'[e].state = "open"
                            ELSE endpoint'[e] = endpoint[e]
  <2>1. e \in Endpoints => (Open(e) <=> endpoint[e].state = "open")
    BY DEF Open
  <2> HIDE DEF e
  <2>2. QED
    BY <1>1, <1>3, <2>1, RowsStay
<1>5. /\ \A o \in Endpoints : endpoint'[o].state = endpoint[o].state
      /\ \A o \in Endpoints : endpoint[o].state = "new" => endpoint'[o] = endpoint[o]
  BY <1>4
<1>6. /\ Fits' /\ Used' = Used /\ Of(w) \in Used /\ e \in Endpoints
      /\ endpoint[e].state \in {"open", "gone"}
      /\ Underway \subseteq Underway' \cup {Of(w)} /\ Places' + 1 = Places
      /\ Places \in Nat /\ Places' \in Nat
  BY <1>1, <1>4, <1>5, Ends
<1>7. \E d \in Used : Underway \subseteq Underway' \cup {d}
                      /\ Places' + 1 <= Places + (upsets' - upsets)
  <2>1. upsets' - upsets = 0
    BY PlacesCount
  <2>2. Places' + 1 <= Places + (upsets' - upsets)
    <3>1. Places' + 1 = Places /\ Places \in Nat
      BY <1>6
    <3>2. QED
      BY <2>1, <3>1
  <2>3. QED
    BY <1>6, <2>2
<1>8. \A M \in SUBSET Used : \A f \in Nat : Balanced(M, f) =>
          f + Cardinality(OpenJobs') + Cardinality(Astray') <= Cardinality(M \cup Underway') + upsets'
  BY <1>6, <1>7, Weigh
<1> HIDE DEF e
<1>9. 0 + Cardinality(OpenJobs') + Cardinality(Astray') <= Cardinality({} \cup Underway') + upsets'
  <2>1. {} \in SUBSET Used /\ 0 \in Nat
    OBVIOUS
  <2>2. QED
    BY <1>8, <2>1 DEF HooksInv, Books
<1>10. ASSUME NEW o \in Endpoints, endpoint'[o].state # "gone"
       PROVE  endpoint'[o].failures + Cardinality(OpenJobs') + Cardinality(Astray')
                  <= Cardinality(missed'[o] \cup Underway') + upsets'
  <2>1. CASE o = e
    <3>1. endpoint'[o].failures = 0 /\ missed'[o] = {}
      BY <1>4, <1>6, <1>10, <2>1
    <3>2. QED
      BY <1>9, <3>1
  <2>2. CASE o # e
    <3>1. missed[o] \in SUBSET Used /\ endpoint[o].failures \in Nat
      BY RowsStay DEF Endpoint
    <3>2. endpoint'[o] = endpoint[o] /\ missed'[o] = missed[o]
      BY <1>4, <2>2
    <3>3. Balanced(missed[o], endpoint[o].failures)
      BY <1>10, <3>2 DEF HooksInv, Books
    <3>4. QED
      BY <1>8, <3>1, <3>2, <3>3
  <2>3. QED
    BY <2>1, <2>2
<1>11. Books'
  BY <1>9, <1>10 DEF Books, Balanced
<1>12. QED
  BY <1>6, <1>11 DEF HooksInv

LEMMA CountFailureHolds ==
    ASSUME HooksInv, NEW w \in Workers, CountFailure(w), UNCHANGED <<targets, upsets>>
    PROVE  HooksInv'
<1> DEFINE e == ToEndpoint(w)
           d == Of(w)
           more == Counted(endpoint[e].failures + 1,
                           endpoint[e].disabled \/ endpoint[e].failures + 1 >= DisableAfter)
<1>1. /\ run[w].pc = "count" /\ To(w, "ok") /\ UNCHANGED delivery /\ UNCHANGED queue
      /\ endpoint' = (IF ~Open(e) THEN endpoint ELSE [endpoint EXCEPT ![e] = more])
      /\ missed' = [missed EXCEPT ![e] = @ \cup {d}]
  BY DEF CountFailure
<1>2. \A o \in Endpoints : endpoint[o].disabled \in BOOLEAN /\ endpoint[o].failures \in Nat
  BY RowsStay DEF Endpoint
<1>3. e \in Endpoints => /\ more \in Endpoint /\ more.state = "open"
                         /\ more.failures = endpoint[e].failures + 1
  <2>1. (endpoint[e].disabled \/ endpoint[e].failures + 1 >= DisableAfter) \in BOOLEAN
    OBVIOUS
  <2>2. e \in Endpoints => endpoint[e].failures + 1 \in Nat
    BY <1>2
  <2>3. \A n \in Nat : \A b \in BOOLEAN :
            Counted(n, b) \in Endpoint /\ Counted(n, b).state = "open" /\ Counted(n, b).failures = n
    BY DEF Counted, Endpoint
  <2>4. QED
    BY <2>1, <2>2, <2>3
<1> HIDE DEF more
<1>4. d \in Used
  BY <1>1 DEF Of, HooksInv, Fits, RunsJobs, RowsFit, Submitted
<1>5. /\ endpoint' \in [Endpoints -> Endpoint] /\ missed' \in [Endpoints -> SUBSET Used]
      /\ \A o \in Endpoints : o # e => endpoint'[o] = endpoint[o] /\ missed'[o] = missed[o]
      /\ e \in Endpoints => missed'[e] = missed[e] \cup {d}
      /\ e \in Endpoints => IF endpoint[e].state = "open"
                            THEN /\ endpoint'[e].failures = endpoint[e].failures + 1
                                 /\ endpoint'[e].state = "open"
                            ELSE endpoint'[e] = endpoint[e]
  <2>1. e \in Endpoints => (Open(e) <=> endpoint[e].state = "open")
    BY DEF Open
  <2> HIDE DEF e, d
  <2>2. QED
    BY <1>1, <1>3, <1>4, <2>1, RowsStay
<1>6. /\ \A o \in Endpoints : endpoint'[o].state = endpoint[o].state
      /\ \A o \in Endpoints : endpoint[o].state = "new" => endpoint'[o] = endpoint[o]
  BY <1>5
<1>7. /\ Fits' /\ Used' = Used /\ e \in Endpoints
      /\ endpoint[e].state \in {"open", "gone"}
      /\ Underway \subseteq Underway' \cup {d} /\ Places' + 1 = Places
      /\ Places \in Nat /\ Places' \in Nat
  BY <1>1, <1>5, <1>6, Ends
<1>8. \E o \in Used : Underway \subseteq Underway' \cup {o}
                      /\ Places' + 1 <= Places + (upsets' - upsets)
  <2>1. upsets' - upsets = 0
    BY PlacesCount
  <2>2. Places' + 1 <= Places + (upsets' - upsets)
    <3>1. Places' + 1 = Places /\ Places \in Nat
      BY <1>7
    <3>2. QED
      BY <2>1, <3>1
  <2>3. QED
    BY <1>4, <1>7, <2>2
<1>9. \A M \in SUBSET Used : \A f \in Nat : Balanced(M, f) =>
          f + Cardinality(OpenJobs') + Cardinality(Astray') <= Cardinality(M \cup Underway') + upsets'
  BY <1>7, <1>8, Weigh
<1> HIDE DEF e, d
<1>10. 0 + Cardinality(OpenJobs') + Cardinality(Astray') <= Cardinality({} \cup Underway') + upsets'
  <2>1. {} \in SUBSET Used /\ 0 \in Nat
    OBVIOUS
  <2>2. QED
    BY <1>9, <2>1 DEF HooksInv, Books
<1>11. ASSUME NEW o \in Endpoints, endpoint'[o].state # "gone"
       PROVE  endpoint'[o].failures + Cardinality(OpenJobs') + Cardinality(Astray')
                  <= Cardinality(missed'[o] \cup Underway') + upsets'
  <2>1. /\ missed[o] \in SUBSET Used /\ endpoint[o].failures \in Nat
        /\ Balanced(missed[o], endpoint[o].failures)
    BY <1>2, <1>6, <1>11, RowsStay DEF HooksInv, Books
  <2>2. CASE o = e
    <3>1. endpoint'[o].failures = endpoint[o].failures + 1 /\ missed'[o] = missed[o] \cup {d}
      BY <1>5, <1>7, <1>11, <2>2
    <3>2. missed[o] \cup Underway \subseteq missed'[o] \cup Underway'
      BY <1>7, <3>1
    <3>3. missed'[o] \in SUBSET Used
      BY <1>4, <2>1, <3>1
    <3>4. /\ IsFiniteSet(missed'[o] \cup Underway')
          /\ IsFiniteSet(OpenJobs') /\ IsFiniteSet(Astray') /\ IsFiniteSet(missed[o] \cup Underway)
          /\ IsFiniteSet(OpenJobs) /\ IsFiniteSet(Astray) /\ upsets \in Nat
      BY <1>7, <2>1, <3>3, Finite, FiniteNext DEF HooksInv, Fits
    <3>5. Cardinality(missed[o] \cup Underway) <= Cardinality(missed'[o] \cup Underway')
      BY <3>2, <3>4, FS_Subset
    <3>6. /\ Cardinality(OpenJobs) \in Nat /\ Cardinality(Astray) \in Nat
          /\ Cardinality(OpenJobs') \in Nat /\ Cardinality(Astray') \in Nat
          /\ Cardinality(missed[o] \cup Underway) \in Nat
          /\ Cardinality(missed'[o] \cup Underway') \in Nat
      BY <3>4, FS_CardinalityType
    <3>7. /\ Places = Cardinality(OpenJobs) + Cardinality(Astray)
          /\ Places' = Cardinality(OpenJobs') + Cardinality(Astray')
      BY DEF Places
    <3>8. endpoint[o].failures + Cardinality(OpenJobs) + Cardinality(Astray)
              <= Cardinality(missed[o] \cup Underway) + upsets
      BY <2>1 DEF Balanced
    <3>9. QED
      BY <1>7, <2>1, <3>1, <3>4, <3>5, <3>6, <3>7, <3>8
  <2>3. CASE o # e
    <3>1. endpoint'[o] = endpoint[o] /\ missed'[o] = missed[o]
      BY <1>5, <2>3
    <3>2. QED
      BY <1>9, <2>1, <3>1
  <2>4. QED
    BY <2>2, <2>3
<1>12. Books'
  BY <1>10, <1>11 DEF Books, Balanced
<1>13. QED
  BY <1>7, <1>12 DEF HooksInv

-----------------------------------------------------------------------------
(* Steps of the queue.                                                     *)

\* A step of the queue that keeps the jobs of pending deliveries.
LEMMA QueueMoves ==
    ASSUME HooksInv, UNCHANGED rows, UNCHANGED work, Submitted' = Submitted,
           jobStatus' \in [JobIds -> {"none", "pending", "running", "done", "failed"}],
           jobOwner' \in [JobIds -> Workers \cup {Nobody}], tries' \in [JobIds -> Nat],
           run' \in [Workers -> Run], upsets' \in 0..MaxUpsets, Owned', RunsJobs',
           \A v \in Workers : \/ run'[v] = run[v]
                              \/ run'[v].pc \in {"idle", "read"} /\ run'[v].attempts = 0,
           \A j \in OpenJobs : j \in OpenJobs' \/ jobStatus'[j] = "failed",
           \A j \in JobIds : jobStatus[j] = "failed" => jobStatus'[j] = "failed",
           \/ Underway \subseteq Underway' /\ Places' <= Places + (upsets' - upsets)
           \/ \E d \in Used : Underway \subseteq Underway' \cup {d}
                              /\ Places' + 1 <= Places + (upsets' - upsets)
    PROVE  HooksInv'
<1>1. UNCHANGED <<endpoint, delivery, targets, missed>> /\ Used' = Used /\ Used \subseteq Deliveries
  BY DEF rows, Used
<1>2. TypeOK'
  BY <1>1 DEF HooksInv, Fits, TypeOK
<1>3. Attempts'
  <2>1. 0 \in 0..Waits
    BY Bounds
  <2>2. \A v \in Workers : run'[v].attempts \in 0..Waits
    BY <2>1 DEF HooksInv, Fits, Attempts
  <2>3. QED
    BY <1>1, <2>2 DEF HooksInv, Fits, Attempts
<1>4. Prefixes'
  BY <1>1 DEF HooksInv, Fits, Prefixes
<1>5. RowsFit'
  <2>1. \A j \in JobIds : jobStatus'[j] = "none" <=> jobStatus[j] = "none"
    BY DEF Submitted
  <2>2. QED
    BY <1>1, <2>1 DEF HooksInv, Fits, RowsFit
<1>6. Passed'
  <2> SUFFICES ASSUME NEW v \in Workers, run'[v].pc \in {"clear", "count"}
               PROVE  delivery'[Of(v)'].status # "pending"
    BY DEF Passed
  <2>1. run'[v] = run[v]
    OBVIOUS
  <2>2. Of(v)' = Of(v) /\ delivery[Of(v)].status # "pending"
    BY <2>1 DEF Of, HooksInv, Fits, Passed
  <2>3. QED
    BY <1>1, <2>2
<1>7. Chains'
  <2> SUFFICES ASSUME NEW d \in Deliveries, delivery[d].status = "pending",
                      endpoint[delivery[d].to].state # "gone"
               PROVE  \E j \in JobIds : work[j] = d /\ (j \in OpenJobs' \/ jobStatus'[j] = "failed")
    BY <1>1 DEF Chains
  <2>1. PICK j \in JobIds : work[j] = d /\ (j \in OpenJobs \/ jobStatus[j] = "failed")
    BY DEF HooksInv, Fits, Chains
  <2>2. j \in OpenJobs' \/ jobStatus'[j] = "failed"
    BY <2>1
  <2>3. QED
    BY <2>1, <2>2
<1>8. Fits'
  BY <1>2, <1>3, <1>4, <1>5, <1>6, <1>7 DEF Fits
<1>9. QED
  BY <1>1, <1>8, BooksKept

\* The same places.
LEMMA SameCount ==
    ASSUME HooksInv, UNCHANGED work, OpenJobs' = OpenJobs, Astray' = Astray,
           \A v \in Astray : run'[v] = run[v], upsets' \in {upsets, upsets + 1}
    PROVE  Underway \subseteq Underway' /\ Places' <= Places + (upsets' - upsets)
<1>1. Underway' = {work'[j] : j \in OpenJobs'} \cup {Of(v)' : v \in Astray'}
  BY DEF Underway
<1>2. \A v \in Astray : Of(v)' = Of(v)
  BY DEF Of
<1>3. Underway \subseteq Underway'
  BY <1>1, <1>2 DEF Underway
<1>4. Places' = Places
  BY DEF Places
<1>5. QED
  BY <1>3, <1>4, PlacesCount

\* What the queue's rows and the runs look like.
LEMMA QueueRows ==
    ASSUME HooksInv
    PROVE  /\ jobStatus \in [JobIds -> {"none", "pending", "running", "done", "failed"}]
           /\ jobOwner \in [JobIds -> Workers \cup {Nobody}] /\ tries \in [JobIds -> Nat]
           /\ run \in [Workers -> Run] /\ upsets \in 0..MaxUpsets
           /\ \A j \in JobIds : jobOwner[j] # Nobody => /\ jobStatus[j] = "running"
                                                        /\ run[jobOwner[j]].pc # "idle"
                                                        /\ run[jobOwner[j]].job = j
           /\ \A w \in Workers : run[w].pc # "idle" => /\ run[w].job \in JobIds
                                                       /\ jobStatus[run[w].job] # "none"
  BY DEF HooksInv, Fits, TypeOK, Owned, RunsJobs, Submitted

LEMMA StartHolds ==
    ASSUME HooksInv, NEW w \in Workers, NEW j \in JobIds, Start(w, j) PROVE HooksInv'
<1> DEFINE r == [pc |-> "read", job |-> j, attempts |-> 0]
<1>1. /\ run[w].pc = "idle" /\ jobStatus[j] = "pending" /\ jobOwner[j] = Nobody
      /\ jobStatus' = [jobStatus EXCEPT ![j] = "running"]
      /\ run' = [run EXCEPT ![w] = r] /\ UNCHANGED <<rows, work, upsets>>
      /\ tries' = [tries EXCEPT ![j] = @ + 1]
  BY QueueRows DEF Start, Counts, Queue!Give
<1>2. jobOwner' = [jobOwner EXCEPT ![j] = w]
  <2>1. PICK o \in Workers \cup {Nobody} : jobOwner' = [jobOwner EXCEPT ![j] = o]
    BY DEF Start, Queue!Give
  <2>2. jobOwner'[j] = w
    BY DEF Start
  <2>3. o = w
    BY <2>1, <2>2, QueueRows
  <2>4. QED
    BY <2>1, <2>3
<1>3. r \in Run /\ r.pc = "read" /\ r.attempts = 0 /\ r.job = j
  BY Bounds DEF Run, PCs
<1> HIDE DEF r
<1>4. \A k \in JobIds : jobOwner[k] # w
  BY <1>1, Bounds, QueueRows
<1>5. \A k \in JobIds \ {j} : jobStatus'[k] = jobStatus[k] /\ jobOwner'[k] = jobOwner[k]
  BY <1>1, <1>2
<1>6. \A v \in Workers \ {w} : run'[v] = run[v]
  BY <1>1, QueueRows
<1>7. jobStatus'[j] = "running" /\ jobOwner'[j] = w /\ run'[w] = r
  BY <1>1, <1>2, QueueRows
<1>8. Submitted' = Submitted
  BY <1>1, <1>5, <1>7 DEF Submitted
<1>9. OpenJobs' = OpenJobs
  <2>1. \A k \in JobIds \ {j} : Live(k)' = Live(k) /\ Through(k)' = Through(k)
    BY <1>4, <1>5, <1>6, QueueRows DEF Live, Through
  <2>2. Live(j)' /\ Live(j) /\ ~Through(j)' /\ ~Through(j)
    BY <1>1, <1>3, <1>7 DEF Live, Through
  <2>3. QED
    BY <2>1, <2>2 DEF OpenJobs
<1>10. Astray' = Astray
  <2>1. \A v \in Workers \ {w} : v \in Astray' <=> v \in Astray
    <3> SUFFICES ASSUME NEW v \in Workers \ {w} PROVE v \in Astray' <=> v \in Astray
      OBVIOUS
    <3>1. run[v].pc # "idle" => (jobOwner'[run[v].job] # v <=> jobOwner[run[v].job] # v)
      BY <1>1, <1>5, <1>7, Bounds, QueueRows
    <3>2. QED
      BY <1>6, <3>1 DEF Astray, Active
  <2>2. w \notin Astray' /\ w \notin Astray
    BY <1>1, <1>3, <1>7 DEF Astray, Active
  <2>3. QED
    BY <2>1, <2>2 DEF Astray
<1>11. Owned'
  BY <1>3, <1>4, <1>5, <1>6, <1>7, QueueRows DEF Owned
<1>12. RunsJobs'
  <2>1. j \in Submitted
    BY <1>1 DEF Submitted
  <2>2. QED
    BY <1>3, <1>6, <1>7, <1>8, <2>1 DEF RunsJobs, HooksInv, Fits
<1>13. \A v \in Astray : run'[v] = run[v]
  BY <1>1, <1>6 DEF Astray, Active
<1>14. Underway \subseteq Underway' /\ Places' <= Places + (upsets' - upsets)
  BY <1>1, <1>9, <1>10, <1>13, SameCount
<1>15. /\ jobStatus' \in [JobIds -> {"none", "pending", "running", "done", "failed"}]
       /\ jobOwner' \in [JobIds -> Workers \cup {Nobody}] /\ tries' \in [JobIds -> Nat]
       /\ run' \in [Workers -> Run] /\ upsets' \in 0..MaxUpsets
  BY <1>1, <1>2, <1>3, QueueRows
<1>16. \A v \in Workers : \/ run'[v] = run[v]
                          \/ run'[v].pc \in {"idle", "read"} /\ run'[v].attempts = 0
  <2>1. run'[w].pc \in {"idle", "read"} /\ run'[w].attempts = 0
    BY <1>3, <1>7
  <2>2. QED
    BY <1>6, <2>1
<1>17. \A k \in JobIds : jobStatus[k] = "failed" => jobStatus'[k] = "failed"
  BY <1>1, <1>5
<1>18. UNCHANGED rows /\ UNCHANGED work
  BY <1>1
<1>19. QED
  BY <1>8, <1>9, <1>11, <1>12, <1>14, <1>15, <1>16, <1>17, <1>18, QueueMoves

\* The claim's answer is lost, or another node takes the job over: nobody has it.
LEMMA NobodysHolds ==
    ASSUME HooksInv, NEW j \in JobIds, LoseClaim(j) \/ Takeover(j) PROVE HooksInv'
<1>1. /\ jobOwner[j] = Nobody /\ jobStatus[j] \in {"pending", "running"}
      /\ jobStatus' \in [JobIds -> {"none", "pending", "running", "done", "failed"}]
      /\ jobStatus'[j] \in {"pending", "running"}
      /\ \A k \in JobIds \ {j} : jobStatus'[k] = jobStatus[k]
      /\ jobOwner' = jobOwner /\ run' = run /\ UNCHANGED rows /\ UNCHANGED work
      /\ tries' \in [JobIds -> Nat] /\ upsets' \in 0..MaxUpsets /\ upsets' \in {upsets, upsets + 1}
  <2>1. CASE LoseClaim(j)
    <3>1. /\ jobStatus[j] = "pending" /\ jobStatus' = [jobStatus EXCEPT ![j] = "running"]
          /\ upsets < MaxUpsets /\ upsets' = upsets + 1 /\ UNCHANGED <<rows, work, run>>
          /\ tries' = [tries EXCEPT ![j] = @ + 1]
      BY <2>1 DEF LoseClaim, Counts, Queue!Give, Upset
    <3>2. PICK o \in Workers \cup {Nobody} : jobOwner' = [jobOwner EXCEPT ![j] = o]
      BY <2>1 DEF LoseClaim, Queue!Give
    <3>3. jobOwner[j] = Nobody /\ jobOwner'[j] = Nobody
      BY <2>1, <3>1, QueueRows DEF LoseClaim
    <3>4. jobOwner' = jobOwner
      BY <3>2, <3>3, QueueRows
    <3>5. upsets' \in 0..MaxUpsets
      BY <3>1, Bounds, QueueRows
    <3>6. QED
      BY <3>1, <3>3, <3>4, <3>5, QueueRows
  <2>2. CASE Takeover(j)
    <3>1. /\ jobOwner[j] = Nobody /\ jobStatus[j] = "running"
          /\ jobStatus' = [k \in JobIds |-> IF k \in {j} THEN "pending" ELSE jobStatus[k]]
          /\ jobOwner' = [k \in JobIds |-> IF k \in {j} THEN Nobody ELSE jobOwner[k]]
          /\ UNCHANGED <<rows, work, tries, run, upsets>>
      BY <2>2 DEF Takeover, Queue!Requeue
    <3>2. jobOwner' = jobOwner
      BY <3>1, QueueRows
    <3>3. QED
      BY <3>1, <3>2, QueueRows
  <2>3. QED
    BY <2>1, <2>2
<1>2. Submitted' = Submitted
  BY <1>1 DEF Submitted
<1>3. OpenJobs' = OpenJobs /\ Astray' = Astray
  <2>1. \A k \in JobIds : Live(k)' = Live(k)
    BY <1>1 DEF Live
  <2>2. \A k \in JobIds : Through(k)' = Through(k)
    BY <1>1 DEF Through
  <2>3. QED
    BY <1>1, <2>1, <2>2 DEF OpenJobs, Astray, Active
<1>4. Owned' /\ RunsJobs'
  BY <1>1, <1>2, QueueRows DEF Owned, RunsJobs, HooksInv, Fits
<1>5. Underway \subseteq Underway' /\ Places' <= Places + (upsets' - upsets)
  BY <1>1, <1>3, SameCount
<1>6. \A k \in JobIds : jobStatus[k] = "failed" => jobStatus'[k] = "failed"
  BY <1>1
<1>7. /\ \A v \in Workers : run'[v] = run[v]
      /\ run' \in [Workers -> Run] /\ jobOwner' \in [JobIds -> Workers \cup {Nobody}]
      /\ tries' \in [JobIds -> Nat] /\ \A k \in OpenJobs : k \in OpenJobs'
  BY <1>1, <1>3, QueueRows
<1>8. QED
  BY <1>1, <1>2, <1>4, <1>5, <1>6, <1>7, QueueMoves

\* The worker loses its job, to nobody or back to the queue.
LEMMA LosesHolds ==
    ASSUME HooksInv, NEW w \in Workers, LoseWorker(w) \/ GiveBack(w) PROVE HooksInv'
<1>0. PICK j : j = run[w].job
  OBVIOUS
<1>1. /\ run[w].pc # "idle" /\ jobOwner[j] = w /\ upsets < MaxUpsets /\ upsets' = upsets + 1
      /\ UNCHANGED rows /\ UNCHANGED work
      /\ jobOwner' = [k \in JobIds |-> IF k \in {j} THEN Nobody ELSE jobOwner[k]]
  BY <1>0 DEF LoseWorker, GiveBack, Queue!Vanish, Queue!Requeue, Upset
<1>2. PICK r \in {Idle, run[w]} : run' = [run EXCEPT ![w] = r]
  BY DEF LoseWorker, GiveBack
<1>3. Idle \in Run /\ Idle.pc = "idle" /\ Idle.attempts = 0
  BY Bounds DEF Idle, Run, PCs
<1>4. j \in JobIds /\ jobStatus[j] = "running" /\ run[w] \in Run
  BY <1>0, <1>1, Bounds, QueueRows
<1>19. /\ jobStatus' \in [JobIds -> {"none", "pending", "running", "done", "failed"}]
       /\ jobStatus'[j] \in {"pending", "running"}
       /\ \A k \in JobIds \ {j} : jobStatus'[k] = jobStatus[k]
       /\ tries' \in [JobIds -> Nat]
  <2>1. CASE LoseWorker(w)
    BY <1>4, <2>1, QueueRows DEF LoseWorker, Queue!Vanish
  <2>2. CASE GiveBack(w)
    <3>1. /\ jobStatus' = [k \in JobIds |-> IF k \in {j} THEN "pending" ELSE jobStatus[k]]
          /\ tries' = [tries EXCEPT ![j] = IF @ > 0 THEN @ - 1 ELSE 0]
      BY <1>0, <2>2 DEF GiveBack, Queue!Requeue
    <3>2. tries' \in [JobIds -> Nat]
      <4> DEFINE left == IF tries[j] > 0 THEN tries[j] - 1 ELSE 0
      <4>1. tries \in [JobIds -> Nat] /\ tries[j] \in Nat
        BY <1>4, QueueRows
      <4>2. left \in Nat /\ tries' = [tries EXCEPT ![j] = left]
        BY <3>1, <4>1
      <4> HIDE DEF left
      <4>3. QED
        BY <4>1, <4>2
    <3>3. QED
      BY <1>4, <3>1, <3>2, QueueRows
  <2>3. QED
    BY <2>1, <2>2
<1>5. run' \in [Workers -> Run] /\ run'[w] = r /\ \A v \in Workers \ {w} : run'[v] = run[v]
  BY <1>2, <1>3, <1>4, QueueRows
<1>6. jobOwner'[j] = Nobody /\ \A k \in JobIds \ {j} : jobOwner'[k] = jobOwner[k] /\ jobOwner[k] # w
  BY <1>0, <1>1, <1>4, Bounds, QueueRows
<1>7. Submitted' = Submitted
  BY <1>4, <1>19 DEF Submitted
<1>8. OpenJobs' = OpenJobs \cup {j} /\ (Active(w) => j \in OpenJobs)
  <2>1. \A k \in JobIds \ {j} : Live(k)' = Live(k) /\ Through(k)' = Through(k)
    BY <1>1, <1>5, <1>6, <1>19, QueueRows DEF Live, Through
  <2>2. Live(j)' /\ Live(j) /\ ~Through(j)'
    BY <1>1, <1>4, <1>6, <1>19 DEF Live, Through
  <2>3. Active(w) => ~Through(j)
    BY <1>0, <1>1 DEF Active, Through
  <2>4. QED
    BY <1>4, <2>1, <2>2, <2>3 DEF OpenJobs
<1>9. /\ w \notin Astray /\ (w \in Astray' => Active(w))
      /\ \A v \in Workers \ {w} : v \in Astray' <=> v \in Astray
  <2>1. w \notin Astray
    BY <1>0, <1>1 DEF Astray
  <2>2. w \in Astray' => Active(w)
    BY <1>2, <1>3, <1>5 DEF Astray, Active
  <2>3. \A v \in Workers \ {w} : v \in Astray' <=> v \in Astray
    <3> SUFFICES ASSUME NEW v \in Workers \ {w} PROVE v \in Astray' <=> v \in Astray
      OBVIOUS
    <3>1. run[v].pc # "idle" => (jobOwner'[run[v].job] # v <=> jobOwner[run[v].job] # v)
      BY <1>1, <1>6, Bounds, QueueRows
    <3>2. QED
      BY <1>5, <3>1 DEF Astray, Active
  <2>4. QED
    BY <2>1, <2>2, <2>3
<1>10. \/ OpenJobs' = OpenJobs /\ (Astray' = Astray \/ Astray' = Astray \cup {w})
       \/ OpenJobs' = OpenJobs \cup {j} /\ Astray' = Astray
  <2>1. Astray' \subseteq Workers /\ Astray \subseteq Workers
    BY DEF Astray
  <2>2. Astray' = Astray \/ Astray' = Astray \cup {w}
    BY <1>9, <2>1
  <2>3. CASE Active(w)
    BY <1>8, <2>2, <2>3
  <2>4. CASE ~Active(w)
    BY <1>8, <1>9, <2>2, <2>4
  <2>5. QED
    BY <2>3, <2>4
<1>11. Underway \subseteq Underway'
  <2>1. Underway' = {work'[k] : k \in OpenJobs'} \cup {Of(v)' : v \in Astray'}
    BY DEF Underway
  <2>2. \A v \in Astray : Of(v)' = Of(v) /\ v \in Astray'
    BY <1>1, <1>5, <1>9, <1>10 DEF Of, Astray
  <2>3. QED
    BY <1>1, <1>8, <2>1, <2>2 DEF Underway
<1>12. Places' <= Places + (upsets' - upsets)
  <2>1. IsFiniteSet(OpenJobs) /\ IsFiniteSet(Astray)
    BY Finite DEF HooksInv, Fits
  <2>2. Cardinality(OpenJobs) \in Nat /\ Cardinality(Astray) \in Nat
    BY <2>1, FS_CardinalityType
  <2>3. /\ Cardinality(OpenJobs \cup {j}) \in {Cardinality(OpenJobs), Cardinality(OpenJobs) + 1}
        /\ Cardinality(Astray \cup {w}) \in {Cardinality(Astray), Cardinality(Astray) + 1}
    BY <2>1, FS_AddElement
  <2>4. /\ Places = Cardinality(OpenJobs) + Cardinality(Astray)
        /\ Places' = Cardinality(OpenJobs') + Cardinality(Astray')
    BY DEF Places
  <2>5. \/ /\ Cardinality(OpenJobs') = Cardinality(OpenJobs)
           /\ Cardinality(Astray') \in {Cardinality(Astray), Cardinality(Astray) + 1}
        \/ /\ Cardinality(OpenJobs') \in {Cardinality(OpenJobs), Cardinality(OpenJobs) + 1}
           /\ Cardinality(Astray') = Cardinality(Astray)
    BY <1>10, <2>3
  <2>6. upsets' - upsets = 1
    BY <1>1, PlacesCount
  <2>7. QED
    BY <2>2, <2>4, <2>5, <2>6
<1>13. Owned'
  BY <1>1, <1>5, <1>6, <1>19, QueueRows DEF Owned
<1>14. RunsJobs'
  BY <1>2, <1>3, <1>5, <1>7 DEF RunsJobs, HooksInv, Fits
<1>15. jobOwner' \in [JobIds -> Workers \cup {Nobody}] /\ upsets' \in 0..MaxUpsets
  BY <1>1, Bounds, QueueRows
<1>16. \A v \in Workers : \/ run'[v] = run[v]
                          \/ run'[v].pc \in {"idle", "read"} /\ run'[v].attempts = 0
  <2>1. run'[w] = run[w] \/ (run'[w].pc \in {"idle", "read"} /\ run'[w].attempts = 0)
    BY <1>2, <1>3, <1>5
  <2>2. QED
    BY <1>5, <2>1
<1>17. /\ \A k \in OpenJobs : k \in OpenJobs' \/ jobStatus'[k] = "failed"
       /\ \A k \in JobIds : jobStatus[k] = "failed" => jobStatus'[k] = "failed"
  BY <1>4, <1>8, <1>19
<1>18. QED
  BY <1>1, <1>19, <1>5, <1>7, <1>11, <1>12, <1>13, <1>14, <1>15, <1>16, <1>17, QueueMoves

LEMMA SettleHolds == ASSUME HooksInv, NEW w \in Workers, Settle(w) PROVE HooksInv'
<1>1. PICK j : j = run[w].job
  OBVIOUS
<1>2. /\ run[w].pc \in {"ok", "error"} /\ run' = [run EXCEPT ![w] = Idle]
      /\ UNCHANGED rows /\ UNCHANGED work /\ upsets' = upsets
  BY DEF Settle
<1>3. Idle \in Run /\ Idle.pc = "idle" /\ Idle.attempts = 0
  BY Bounds DEF Idle, Run, PCs
<1>4. j \in JobIds
  BY <1>1, <1>2, QueueRows
<1>5. run' \in [Workers -> Run] /\ run'[w] = Idle /\ \A v \in Workers \ {w} : run'[v] = run[v]
  BY <1>2, <1>3, QueueRows
\* The job is requeued, has ended, or is no longer the worker's.
<1>6. \/ /\ jobOwner[j] = w /\ run[w].pc = "error"
         /\ jobStatus' = [k \in JobIds |-> IF k \in {j} THEN "pending" ELSE jobStatus[k]]
         /\ jobOwner' = [k \in JobIds |-> IF k \in {j} THEN Nobody ELSE jobOwner[k]]
      \/ /\ jobOwner[j] = w
         /\ jobStatus' = [jobStatus EXCEPT ![j] = IF run[w].pc = "error" THEN "failed" ELSE "done"]
         /\ jobOwner' = [jobOwner EXCEPT ![j] = Nobody]
      \/ jobOwner[j] # w /\ jobStatus' = jobStatus /\ jobOwner' = jobOwner
  <2>1. CASE jobOwner[j] = w /\ run[w].pc = "error" /\ Queue!Requeue({j})
    BY <2>1 DEF Queue!Requeue
  <2>2. CASE /\ jobOwner[j] = w /\ Queue!End(j)
             /\ jobStatus'[j] = IF run[w].pc = "error" THEN "failed" ELSE "done"
    <3>1. PICK s \in {"done", "failed"} : jobStatus' = [jobStatus EXCEPT ![j] = s]
      BY <2>2 DEF Queue!End
    <3>2. s = IF run[w].pc = "error" THEN "failed" ELSE "done"
      BY <1>4, <2>2, <3>1, QueueRows
    <3>3. QED
      BY <2>2, <3>1, <3>2 DEF Queue!End
  <2>3. CASE jobOwner[j] # w /\ UNCHANGED <<jobStatus, jobOwner>>
    BY <2>3
  <2>4. QED
    BY <1>1, <2>1, <2>2, <2>3 DEF Settle
<1>7. tries' \in [JobIds -> Nat]
  BY QueueRows DEF Settle
<1>8. /\ \A k \in JobIds \ {j} : /\ jobStatus'[k] = jobStatus[k] /\ jobOwner'[k] = jobOwner[k]
                                 /\ jobOwner[k] # w
      /\ jobStatus' \in [JobIds -> {"none", "pending", "running", "done", "failed"}]
      /\ jobOwner' \in [JobIds -> Workers \cup {Nobody}]
      /\ jobStatus'[j] = "none" <=> jobStatus[j] = "none"
      /\ jobOwner'[j] # w /\ (jobOwner'[j] # Nobody => jobOwner'[j] = jobOwner[j] /\ jobStatus'[j] = jobStatus[j])
      /\ jobStatus[j] = "failed" => jobStatus'[j] = "failed"
  <2>1. \A k \in JobIds \ {j} : jobOwner[k] # w
    BY <1>1, Bounds, QueueRows
  <2>2. jobOwner[j] = w => jobStatus[j] = "running"
    BY <1>4, Bounds, QueueRows
  <2>3. CASE /\ jobOwner[j] = w
             /\ jobStatus' = [k \in JobIds |-> IF k \in {j} THEN "pending" ELSE jobStatus[k]]
             /\ jobOwner' = [k \in JobIds |-> IF k \in {j} THEN Nobody ELSE jobOwner[k]]
    BY <1>4, <2>1, <2>2, <2>3, Bounds, QueueRows
  <2>4. CASE /\ jobOwner[j] = w
             /\ jobStatus' = [jobStatus EXCEPT ![j] = IF run[w].pc = "error" THEN "failed" ELSE "done"]
             /\ jobOwner' = [jobOwner EXCEPT ![j] = Nobody]
    <3>1. /\ jobStatus'[j] \in {"done", "failed"} /\ jobOwner'[j] = Nobody
          /\ \A k \in JobIds \ {j} : jobStatus'[k] = jobStatus[k] /\ jobOwner'[k] = jobOwner[k]
          /\ jobStatus' \in [JobIds -> {"none", "pending", "running", "done", "failed"}]
          /\ jobOwner' \in [JobIds -> Workers \cup {Nobody}]
      BY <1>4, <2>4, QueueRows
    <3>2. QED
      BY <2>1, <2>2, <2>4, <3>1, Bounds
  <2>5. CASE jobOwner[j] # w /\ jobStatus' = jobStatus /\ jobOwner' = jobOwner
    BY <2>1, <2>5, QueueRows
  <2>6. QED
    BY <1>6, <2>3, <2>4, <2>5
<1>9. Submitted' = Submitted
  BY <1>4, <1>8 DEF Submitted
<1>10. Astray' = Astray
  <2>1. w \notin Astray /\ w \notin Astray'
    BY <1>2, <1>3, <1>5 DEF Astray, Active
  <2>2. \A v \in Workers \ {w} : v \in Astray' <=> v \in Astray
    <3> SUFFICES ASSUME NEW v \in Workers \ {w} PROVE v \in Astray' <=> v \in Astray
      OBVIOUS
    <3>1. run[v].pc # "idle" => (jobOwner'[run[v].job] # v <=> jobOwner[run[v].job] # v)
      BY <1>4, <1>6, <1>8, Bounds, QueueRows
    <3>2. QED
      BY <1>5, <3>1 DEF Astray, Active
  <2>3. QED
    BY <2>1, <2>2 DEF Astray
<1>11. \A k \in JobIds \ {j} : k \in OpenJobs' <=> k \in OpenJobs
  <2>1. \A k \in JobIds \ {j} : Live(k)' = Live(k) /\ Through(k)' = Through(k)
    BY <1>5, <1>8, QueueRows DEF Live, Through
  <2>2. QED
    BY <2>1 DEF OpenJobs
<1>12. \/ OpenJobs' = OpenJobs
       \/ j \in OpenJobs /\ OpenJobs' = OpenJobs \ {j} /\ jobStatus'[j] = "failed"
  <2>1. CASE /\ jobOwner[j] = w /\ run[w].pc = "error" /\ jobOwner'[j] = Nobody
             /\ jobStatus'[j] = "pending"
    <3>1. j \in OpenJobs /\ j \in OpenJobs'
      BY <1>4, <2>1, Bounds, QueueRows DEF OpenJobs, Live, Through
    <3>2. QED
      BY <1>11, <3>1 DEF OpenJobs
  <2>2. CASE jobOwner[j] = w /\ run[w].pc = "error" /\ jobStatus'[j] = "failed"
    <3>1. j \in OpenJobs /\ j \notin OpenJobs'
      BY <1>4, <2>2, Bounds, QueueRows DEF OpenJobs, Live, Through
    <3>2. QED
      BY <1>11, <2>2, <3>1 DEF OpenJobs
  <2>3. CASE jobOwner[j] = w /\ run[w].pc = "ok" /\ jobStatus'[j] = "done"
    <3>1. j \notin OpenJobs /\ j \notin OpenJobs'
      BY <1>4, <2>3, Bounds, QueueRows DEF OpenJobs, Live, Through
    <3>2. QED
      BY <1>11, <3>1 DEF OpenJobs
  <2>4. CASE jobOwner[j] # w /\ jobStatus' = jobStatus /\ jobOwner' = jobOwner
    <3>1. Live(j)' = Live(j)
      BY <2>4 DEF Live
    <3>2. Through(j)' = Through(j)
      BY <1>4, <1>5, <2>4, QueueRows DEF Through
    <3>3. j \in OpenJobs <=> j \in OpenJobs'
      BY <3>1, <3>2 DEF OpenJobs
    <3>4. QED
      BY <1>11, <3>3 DEF OpenJobs
  <2>5. QED
    BY <1>2, <1>4, <1>6, <2>1, <2>2, <2>3, <2>4, QueueRows
<1>13. \A v \in Astray : run'[v] = run[v]
  BY <1>2, <1>5 DEF Astray, Active
<1>14. \/ Underway \subseteq Underway' /\ Places' <= Places + (upsets' - upsets)
       \/ \E d \in Used : Underway \subseteq Underway' \cup {d}
                          /\ Places' + 1 <= Places + (upsets' - upsets)
  <2>1. CASE OpenJobs' = OpenJobs
    BY <1>2, <1>10, <1>13, <2>1, SameCount
  <2>2. CASE j \in OpenJobs /\ OpenJobs' = OpenJobs \ {j}
    <3>1. work[j] \in Used
      BY <1>4, <2>2 DEF OpenJobs, Live, HooksInv, Fits, RowsFit
    <3>2. Underway' = {work'[k] : k \in OpenJobs'} \cup {Of(v)' : v \in Astray'}
      BY DEF Underway
    <3>3. \A v \in Astray : Of(v)' = Of(v)
      BY <1>2, <1>13 DEF Of
    <3>4. Underway \subseteq Underway' \cup {work[j]}
      BY <1>2, <1>10, <2>2, <3>2, <3>3 DEF Underway
    <3>5. IsFiniteSet(OpenJobs) /\ IsFiniteSet(Astray)
      BY Finite DEF HooksInv, Fits
    <3>6. /\ Cardinality(OpenJobs \ {j}) = Cardinality(OpenJobs) - 1
          /\ Cardinality(OpenJobs) \in Nat /\ Cardinality(Astray) \in Nat
      BY <2>2, <3>5, FS_RemoveElement, FS_CardinalityType
    <3>7. /\ Places = Cardinality(OpenJobs) + Cardinality(Astray)
          /\ Places' = Cardinality(OpenJobs') + Cardinality(Astray')
      BY DEF Places
    <3>8. upsets' - upsets = 0
      BY <1>2, PlacesCount
    <3>9. Places' + 1 <= Places + (upsets' - upsets)
      BY <1>10, <2>2, <3>6, <3>7, <3>8
    <3>10. QED
      BY <3>1, <3>4, <3>9
  <2>3. QED
    BY <1>12, <2>1, <2>2
<1>15. Owned'
  BY <1>5, <1>8, QueueRows DEF Owned
<1>16. RunsJobs'
  BY <1>3, <1>5, <1>9 DEF RunsJobs, HooksInv, Fits
<1>17. \A v \in Workers : \/ run'[v] = run[v]
                          \/ run'[v].pc \in {"idle", "read"} /\ run'[v].attempts = 0
  BY <1>3, <1>5
<1>18. /\ \A k \in OpenJobs : k \in OpenJobs' \/ jobStatus'[k] = "failed"
       /\ \A k \in JobIds : jobStatus[k] = "failed" => jobStatus'[k] = "failed"
  BY <1>8, <1>12
<1>19. upsets' \in 0..MaxUpsets
  BY <1>2, QueueRows
<1>20. QED
  BY <1>2, <1>5, <1>7, <1>8, <1>9, <1>14, <1>15, <1>16, <1>17, <1>18, <1>19, QueueMoves

-----------------------------------------------------------------------------
(* The theorems.                                                           *)

LEMMA HooksKeep == HooksInv /\ [Next]_vars => HooksInv'
<1> SUFFICES ASSUME HooksInv, [Next]_vars PROVE HooksInv'
  OBVIOUS
<1>1. ASSUME NEW e \in Endpoints,
             Create(e) \/ Enable(e) \/ Delete(e) \/ DeleteRows(e) \/ Ping(e)
      PROVE  HooksInv'
  BY <1>1, CreateHolds, EnableHolds, DeleteHolds, DeleteRowsHolds, PingHolds
<1>2. ASSUME NEW d \in Deliveries, Prune(d) \/ Replay(d) PROVE HooksInv'
  BY <1>2, PruneHolds, ReplayHolds
<1>3. CASE SendRead \/ SendCommit \/ SendRollback
  BY <1>3, SendersHold, SendCommitHolds
<1>4. ASSUME NEW j \in JobIds, LoseClaim(j) \/ Takeover(j) \/ \E w \in Workers : Start(w, j)
      PROVE  HooksInv'
  BY <1>4, NobodysHolds, StartHolds
<1>5. ASSUME NEW w \in Workers, Statement(w), UNCHANGED <<targets, upsets>> PROVE HooksInv'
  BY <1>5, DropHolds, MarkDeliveredHolds, ClearFailuresHolds, RecordAttemptHolds,
     EnqueueNextHolds, MarkFailedHolds, CountFailureHolds DEF Statement
<1>6. ASSUME NEW w \in Workers, Handler(w) \/ Error(w) \/ LoseWorker(w) \/ GiveBack(w) PROVE HooksInv'
  BY <1>5, <1>6, ReadHolds, PostHolds, SettleHolds, ErrorHolds, LosesHolds DEF Handler
<1>7. CASE UNCHANGED vars
  <2>1. /\ UNCHANGED rows /\ UNCHANGED work /\ UNCHANGED <<jobStatus, jobOwner, tries, run, upsets>>
        /\ UNCHANGED <<endpoint, delivery, targets, missed>>
    BY <1>7 DEF vars, rows, queue
  <2>2. Used' = Used
    BY <2>1 DEF Used
  <2>3. OpenJobs' = OpenJobs /\ Astray' = Astray /\ Underway' = Underway /\ Submitted' = Submitted
    BY <2>1, SamePlaces
  <2>4. TypeOK' /\ Attempts' /\ Prefixes' /\ Owned' /\ RunsJobs' /\ Passed'
    BY <2>1, <2>2, QueueStays DEF HooksInv, Fits, TypeOK
  <2>5. RowsFit' /\ Chains' /\ Books'
    BY <2>1, <2>2, <2>3 DEF HooksInv, Fits, RowsFit, Chains, Books, Balanced
  <2>6. QED
    BY <2>4, <2>5 DEF HooksInv, Fits
<1>8. QED
  BY <1>1, <1>2, <1>3, <1>4, <1>6, <1>7 DEF Next

LEMMA HooksStay == Spec => []HooksInv
<1>1. QED
  BY HooksBegin, HooksKeep, PTL DEF Spec

\* A delivery's jobs that may act: the other places are at least as many as the other
\* deliveries under way.
LEMMA ForksCounted == HooksInv => ForksExplained
<1> SUFFICES ASSUME HooksInv, NEW d \in Deliveries
             PROVE  Cardinality({j \in JobsOf(d) : Live(j) /\ ~Through(j)}) <= 1 + upsets
  BY DEF ForksExplained
<1> DEFINE T == {j \in JobsOf(d) : Live(j) /\ ~Through(j)}
           Rest == OpenJobs \ T
           Others == Underway \ {d}
           Strays == {Of(w) : w \in Astray}
           Works == {work[j] : j \in Rest}
<1>1. /\ IsFiniteSet(OpenJobs) /\ IsFiniteSet(Astray) /\ IsFiniteSet(Underway)
      /\ Underway \subseteq Used /\ Used \subseteq Deliveries /\ upsets \in Nat
  BY Finite DEF HooksInv, Fits
<1>2. T \subseteq OpenJobs /\ T = {j \in OpenJobs : work[j] = d}
  BY DEF OpenJobs, JobsOf
<1>3. IsFiniteSet(T) /\ IsFiniteSet(Rest)
  BY <1>1, <1>2, FS_Subset
<1>4. Cardinality(OpenJobs) = Cardinality(T) + Cardinality(Rest)
  <2>1. T \cap Rest = {} /\ T \cup Rest = OpenJobs
    BY <1>2
  <2> HIDE DEF T, Rest
  <2>2. Cardinality(T \cup Rest) = Cardinality(T) + Cardinality(Rest)
    BY <1>3, <2>1, BothCounted
  <2>3. QED
    BY <2>1, <2>2
<1>5. Others \subseteq Works \cup Strays
  BY <1>2 DEF Underway
<1>6. IsFiniteSet(Works) /\ Cardinality(Works) <= Cardinality(Rest)
  <2> DEFINE f == [j \in Rest |-> work[j]]
  <2>1. f \in Surjection(Rest, Works)
    BY DEF Surjection
  <2> HIDE DEF f, Rest, Works
  <2>2. QED
    BY <1>3, <2>1, FS_Surjection
<1>7. IsFiniteSet(Strays) /\ Cardinality(Strays) <= Cardinality(Astray)
  <2> DEFINE f == [w \in Astray |-> Of(w)]
  <2>1. f \in Surjection(Astray, Strays)
    BY DEF Surjection
  <2> HIDE DEF f, Strays
  <2>2. QED
    BY <1>1, <2>1, FS_Surjection
<1> HIDE DEF T, Rest, Works, Strays
<1>8. /\ Cardinality(T) \in Nat /\ Cardinality(Rest) \in Nat /\ Cardinality(Astray) \in Nat
      /\ Cardinality(Works) \in Nat /\ Cardinality(Strays) \in Nat
      /\ Cardinality(OpenJobs) \in Nat /\ Cardinality(Underway) \in Nat
  BY <1>1, <1>3, <1>6, <1>7, FS_CardinalityType
<1>9. Cardinality(Works \cup Strays) <= Cardinality(Works) + Cardinality(Strays)
      /\ IsFiniteSet(Works \cup Strays)
  <2>1. /\ IsFiniteSet(Works \cup Strays)
        /\ Cardinality(Works \cup Strays)
             = Cardinality(Works) + Cardinality(Strays) - Cardinality(Works \cap Strays)
        /\ IsFiniteSet(Works \cap Strays)
    BY <1>6, <1>7, FS_Union, FS_Intersection
  <2>2. Cardinality(Works \cap Strays) \in Nat
    BY <2>1, FS_CardinalityType
  <2>3. QED
    BY <1>8, <2>1, <2>2
<1>10. Cardinality(Others) <= Cardinality(Works \cup Strays) /\ IsFiniteSet(Others)
  <2> HIDE DEF Others
  <2>1. QED
    BY <1>5, <1>9, FS_Subset
<1>11. Cardinality(Underway) <= Cardinality(Others) + 1 /\ Cardinality(Others) \in Nat
  <2>1. Cardinality(Others) = IF d \in Underway THEN Cardinality(Underway) - 1
                              ELSE Cardinality(Underway)
    BY <1>1, FS_RemoveElement
  <2> HIDE DEF Others
  <2>2. Cardinality(Others) \in Nat
    BY <1>10, FS_CardinalityType
  <2>3. QED
    BY <1>8, <2>1, <2>2
<1>12. Cardinality(OpenJobs) + Cardinality(Astray) <= Cardinality(Underway) + upsets
  <2>1. {} \cup Underway = Underway
    OBVIOUS
  <2>2. 0 + Cardinality(OpenJobs) + Cardinality(Astray) <= Cardinality(Underway) + upsets
    BY <2>1 DEF HooksInv, Books, Balanced
  <2>3. QED
    BY <1>8, <2>2
<1> HIDE DEF Others
<1>13. Cardinality(Works \cup Strays) \in Nat
  BY <1>9, FS_CardinalityType
<1>14. Cardinality(T) <= 1 + upsets
  BY <1>1, <1>4, <1>6, <1>7, <1>8, <1>9, <1>10, <1>11, <1>12, <1>13
<1>15. QED
  BY <1>14 DEF T

LEMMA JobsFound == HooksInv => PendingHasJob
<1> SUFFICES ASSUME HooksInv, NEW d \in Deliveries, delivery[d].status = "pending",
                    Open(delivery[d].to)
             PROVE  \E j \in JobsOf(d) : Live(j) \/ jobStatus[j] = "failed"
  BY DEF PendingHasJob
<1>1. endpoint[delivery[d].to].state # "gone"
  BY DEF Open
<1>2. PICK j \in JobIds : work[j] = d /\ (j \in OpenJobs \/ jobStatus[j] = "failed")
  BY <1>1 DEF HooksInv, Fits, Chains
<1>3. QED
  BY <1>2 DEF OpenJobs, JobsOf

LEMMA CountsFit == HooksInv => CountedOnce
<1> SUFFICES ASSUME HooksInv, NEW e \in Endpoints, Open(e)
             PROVE  endpoint[e].failures <= Cardinality(missed[e]) + upsets
  BY DEF CountedOnce
<1> DEFINE M == missed[e]
           Works == {work[j] : j \in OpenJobs}
           Strays == {Of(w) : w \in Astray}
<1>1. /\ IsFiniteSet(OpenJobs) /\ IsFiniteSet(Astray) /\ IsFiniteSet(Underway)
      /\ Underway \subseteq Used /\ Used \subseteq Deliveries /\ upsets \in Nat
  BY Finite DEF HooksInv, Fits
<1>2. M \subseteq Used /\ endpoint[e].failures \in Nat
  BY RowsStay DEF Endpoint
<1>3. IsFiniteSet(M)
  BY <1>1, <1>2, Bounds, FS_Subset
<1>4. Balanced(M, endpoint[e].failures)
  BY DEF HooksInv, Books, Open
<1>5. IsFiniteSet(Works) /\ Cardinality(Works) <= Cardinality(OpenJobs)
  <2> DEFINE f == [j \in OpenJobs |-> work[j]]
  <2>1. f \in Surjection(OpenJobs, Works)
    BY DEF Surjection
  <2> HIDE DEF f, Works
  <2>2. QED
    BY <1>1, <2>1, FS_Surjection
<1>6. IsFiniteSet(Strays) /\ Cardinality(Strays) <= Cardinality(Astray)
  <2> DEFINE f == [w \in Astray |-> Of(w)]
  <2>1. f \in Surjection(Astray, Strays)
    BY DEF Surjection
  <2> HIDE DEF f, Strays
  <2>2. QED
    BY <1>1, <2>1, FS_Surjection
<1>7. Underway = Works \cup Strays
  BY DEF Underway
<1> HIDE DEF M, Works, Strays
<1>8. ASSUME NEW S, NEW U, IsFiniteSet(S), IsFiniteSet(U)
      PROVE  /\ Cardinality(S \cup U) <= Cardinality(S) + Cardinality(U)
             /\ Cardinality(S \cup U) \in Nat /\ Cardinality(S) \in Nat /\ Cardinality(U) \in Nat
  <2>1. /\ IsFiniteSet(S \cup U) /\ IsFiniteSet(S \cap U)
        /\ Cardinality(S \cup U) = Cardinality(S) + Cardinality(U) - Cardinality(S \cap U)
    BY <1>8, FS_Union, FS_Intersection
  <2>2. /\ Cardinality(S \cap U) \in Nat /\ Cardinality(S \cup U) \in Nat
        /\ Cardinality(S) \in Nat /\ Cardinality(U) \in Nat
    BY <1>8, <2>1, FS_CardinalityType
  <2>3. QED
    BY <2>1, <2>2
<1>9. /\ Cardinality(M \cup Underway) <= Cardinality(M) + Cardinality(Underway)
      /\ Cardinality(M \cup Underway) \in Nat /\ Cardinality(M) \in Nat
      /\ Cardinality(Underway) \in Nat
  BY <1>1, <1>3, <1>8
<1>10. /\ Cardinality(Underway) <= Cardinality(Works) + Cardinality(Strays)
       /\ Cardinality(Works) \in Nat /\ Cardinality(Strays) \in Nat
  BY <1>5, <1>6, <1>7, <1>8
<1>11. Cardinality(OpenJobs) \in Nat /\ Cardinality(Astray) \in Nat
  BY <1>1, FS_CardinalityType
<1>12. endpoint[e].failures + Cardinality(OpenJobs) + Cardinality(Astray)
           <= Cardinality(M \cup Underway) + upsets
  BY <1>4 DEF Balanced
<1>13. endpoint[e].failures <= Cardinality(M) + upsets
  BY <1>1, <1>2, <1>5, <1>6, <1>9, <1>10, <1>11, <1>12
<1>14. QED
  BY <1>13 DEF M

\* The state of the pack's rows, the queue and its workers is well formed.
THEOREM HooksTypeCorrect == Spec => []TypeOK
<1>1. HooksInv => TypeOK
  BY DEF HooksInv, Fits
<1>2. QED
  BY <1>1, HooksStay, PTL

\* The chain of a delivery's attempts neither ends while it is pending nor forks without an
\* error, a lost answer or a lost worker (deliver, hooks.go:649).
THEOREM ChainStands == Spec => []ChainKept
<1>1. HooksInv => ChainKept
  BY ForksCounted, JobsFound DEF ChainKept
<1>2. QED
  BY <1>1, HooksStay, PTL

\* A delivery counts once against its endpoint, unless two workers had it (hooks.go:53).
THEOREM CountsOnce == Spec => []CountedOnce
<1>1. QED
  BY CountsFit, HooksStay, PTL
====
