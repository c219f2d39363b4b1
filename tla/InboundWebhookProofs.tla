----------------------- MODULE InboundWebhookProofs -----------------------
(***************************************************************************)
(* That a delivery is handled once, for any number of requests, failures   *)
(* and overruns.  Release and Done go by the delivery id and so may touch  *)
(* the claim of another request; the argument counts, beside the handlers  *)
(* that have succeeded, the requests that may yet let one succeed (those   *)
(* in the handler, and those about to release) and the row when it may be  *)
(* claimed or will lapse.  No step raises the sum but by what it adds to   *)
(* lost or to overruns.                                                    *)
(***************************************************************************)
EXTENDS InboundWebhook, FiniteSetTheorems, TLAPS

\* Requests that can still add a success, or free the row for one.
Pending == {r \in Requests : req[r].pc \in {"handle", "release"}}

\* The row can be claimed, now or when it lapses.
Open == IF row.state = "done" \/ (row.state = "claimed" /\ ~row.lapsed /\ row.by \in Holders)
        THEN 0 ELSE 1

Budget == handled + Cardinality(Pending) + Open <= 1 + lost + overruns

\* The handler has succeeded wherever it is told or noted that it has.
Truthful ==
    /\ \A r \in Requests : req[r].pc = "record" \/ req[r].reply = "200" => handled > 0
    /\ acked \/ row.state = "done" => handled > 0

\* Without overruns the row is the claim of whoever works on the delivery.
Owned == overruns = 0 => \A r \in Holders : row = ClaimedBy(r)

IInv == TypeOK /\ Budget /\ Truthful /\ Owned

LEMMA PendingMoves ==
    ASSUME NEW S \in SUBSET Requests, NEW r \in Requests
    PROVE  /\ Cardinality(S) \in Nat
           /\ r \notin S => Cardinality(S \cup {r}) = Cardinality(S) + 1
           /\ r \in S => Cardinality(S \ {r}) = Cardinality(S) - 1
<1>1. IsFiniteSet(S)
  BY RequestsAssumption, FS_Subset
<1>2. Cardinality(S) \in Nat
  BY <1>1, FS_CardinalityType
<1>3. r \notin S => Cardinality(S \cup {r}) = Cardinality(S) + 1
  BY <1>1, FS_AddElement
<1>4. r \in S => Cardinality(S \ {r}) = Cardinality(S) - 1
  BY <1>1, FS_RemoveElement
<1>5. QED
  BY <1>2, <1>3, <1>4

\* What a step of one request does to the two sets.
LEMMA Becomes ==
    ASSUME TypeOK, NEW r \in Requests, NEW state \in Request, Become(r, state)
    PROVE  /\ req' \in [Requests -> Request]
           /\ req'[r] = state /\ \A q \in Requests : q # r => req'[q] = req[q]
           /\ Pending' = IF state.pc \in {"handle", "release"} THEN Pending \cup {r} ELSE Pending \ {r}
           /\ Holders' = IF state.pc \in {"handle", "record", "release"} THEN Holders \cup {r} ELSE Holders \ {r}
           /\ Cardinality(Pending) \in Nat
           /\ Cardinality(Pending') =
                 IF state.pc \in {"handle", "release"}
                 THEN IF req[r].pc \in {"handle", "release"} THEN Cardinality(Pending) ELSE Cardinality(Pending) + 1
                 ELSE IF req[r].pc \in {"handle", "release"} THEN Cardinality(Pending) - 1 ELSE Cardinality(Pending)
<1>1. /\ req' \in [Requests -> Request]
      /\ req'[r] = state /\ \A q \in Requests : q # r => req'[q] = req[q]
  BY DEF Become, TypeOK
<1>2. Pending' = IF state.pc \in {"handle", "release"} THEN Pending \cup {r} ELSE Pending \ {r}
  BY <1>1 DEF Pending
<1>3. Holders' = IF state.pc \in {"handle", "record", "release"} THEN Holders \cup {r} ELSE Holders \ {r}
  BY <1>1 DEF Holders
<1>4. Pending \in SUBSET Requests /\ (r \in Pending <=> req[r].pc \in {"handle", "release"})
  BY DEF Pending
<1>5. /\ Cardinality(Pending) \in Nat
      /\ r \notin Pending => Cardinality(Pending \cup {r}) = Cardinality(Pending) + 1
      /\ r \in Pending => Cardinality(Pending \ {r}) = Cardinality(Pending) - 1
  BY <1>4, PendingMoves
<1>6. (r \in Pending => Pending \cup {r} = Pending) /\ (r \notin Pending => Pending \ {r} = Pending)
  OBVIOUS
<1>7. QED
  BY <1>1, <1>2, <1>3, <1>4, <1>5, <1>6

\* The states a request takes are requests.
LEMMA States ==
    /\ \A pc \in PCs : At(pc) \in Request /\ At(pc).pc = pc /\ At(pc).reply = "none"
    /\ \A reply \in Replies : Answer(reply) \in Request /\ Answer(reply).pc = "answer"
                              /\ Answer(reply).reply = reply
    /\ Absent \in Row /\ IsDone \in Row /\ \A r \in Requests : ClaimedBy(r) \in Row
BY DEF At, Answer, Request, PCs, Replies, Absent, IsDone, ClaimedBy, Row

\* What the arithmetic of a step needs to know of the state before it.
LEMMA Facts ==
    ASSUME IInv
    PROVE  /\ handled \in Nat /\ lost \in Nat /\ overruns \in Nat /\ upsets \in 0..MaxUpsets
           /\ row \in Row /\ row.state \in {"absent", "claimed", "done"} /\ row.lapsed \in BOOLEAN
           /\ acked \in BOOLEAN
           /\ Open \in {0, 1} /\ Cardinality(Pending) \in Nat
           /\ handled + Cardinality(Pending) + Open <= 1 + lost + overruns
<1>1. Pending \in SUBSET Requests
  BY DEF Pending
<1>2. Cardinality(Pending) \in Nat
  <2>1. IsFiniteSet(Pending)
    BY <1>1, RequestsAssumption, FS_Subset
  <2>2. QED
    BY <2>1, FS_CardinalityType
<1>3. Open \in {0, 1}
  BY DEF Open
<1>4. QED
  BY <1>2, <1>3 DEF IInv, TypeOK, Budget, Row

\* A step of a request keeps the strengthening when it keeps each part of it.
LEMMA RequestStep ==
    ASSUME IInv, NEW r \in Requests, NEW state \in Request, Become(r, state),
           row' \in Row, row'.lapsed => row'.state = "claimed", acked' \in BOOLEAN,
           handled' \in Nat, lost' \in Nat, overruns' \in Nat, upsets' \in 0..MaxUpsets,
           handled' >= handled,
           state.pc = "record" \/ state.reply = "200" \/ acked' \/ row'.state = "done" => handled' > 0,
           handled' + Cardinality(Pending') + Open' <= 1 + lost' + overruns',
           overruns' = 0 => \A q \in Holders' : row' = ClaimedBy(q)
    PROVE  IInv'
<1>1. /\ req' \in [Requests -> Request]
      /\ req'[r] = state /\ \A q \in Requests : q # r => req'[q] = req[q]
  BY Becomes DEF IInv
<1>2. TypeOK'
  BY <1>1 DEF TypeOK
<1>3. Truthful'
  <2>1. \A q \in Requests : req'[q].pc = "record" \/ req'[q].reply = "200" => handled' > 0
    <3>1. handled > 0 => handled' > 0
      BY Facts
    <3>2. QED
      BY <1>1, <3>1 DEF IInv, Truthful
  <2>2. QED
    BY <2>1 DEF Truthful
<1>4. QED
  BY <1>2, <1>3 DEF IInv, Budget, Owned

\* A request that has no claim before and after its step, and leaves the row alone.
LEMMA Bystander ==
    ASSUME IInv, NEW r \in Requests, NEW state \in Request, Become(r, state),
           req[r].pc \notin {"handle", "record", "release"},
           state.pc \notin {"handle", "record", "release"},
           row' = row, handled' = handled, lost' = lost, overruns' = overruns,
           upsets' \in 0..MaxUpsets, acked' \in BOOLEAN,
           state.reply = "200" \/ acked' => handled > 0
    PROVE  IInv'
<1>1. /\ Pending' = Pending \ {r}
      /\ Holders' = Holders \ {r}
  BY Becomes DEF IInv
<1>2. r \notin Pending /\ r \notin Holders
  BY DEF Pending, Holders
<1>3. Pending' = Pending /\ Holders' = Holders
  BY <1>1, <1>2
<1>4. Open' = Open
  BY <1>3 DEF Open
<1>5. row \in Row /\ (row.lapsed => row.state = "claimed") /\ (row.state = "done" => handled > 0)
  BY DEF IInv, TypeOK, Truthful
<1>6. overruns = 0 => \A q \in Holders : row = ClaimedBy(q)
  BY DEF IInv, Owned
<1>7. handled' >= handled
  BY Facts
<1>8. handled' + Cardinality(Pending') + Open' <= 1 + lost' + overruns'
  BY <1>3, <1>4, Facts
<1>9. QED
  BY <1>3, <1>5, <1>6, <1>7, <1>8, Facts, RequestStep

\* Whose claim the row is, when there were no overruns.
LEMMA OwnerOf ==
    ASSUME IInv, NEW r \in Requests, r \in Holders, overruns = 0
    PROVE  row = ClaimedBy(r) /\ Holders = {r}
<1>1. \A q \in Holders : row = ClaimedBy(q)
  BY DEF IInv, Owned
<1>2. \A q \in Holders : row.by = q
  BY <1>1 DEF ClaimedBy
<1>3. QED
  BY <1>1, <1>2

\* A request that had a claim ends its work, and the row is what it leaves.
LEMMA Ends ==
    ASSUME IInv, NEW r \in Requests, NEW state \in Request, Become(r, state),
           r \in Holders, state.pc \notin {"handle", "record", "release"},
           row' \in Row, row'.lapsed => row'.state = "claimed",
           handled' = handled, overruns' = overruns, lost' \in Nat,
           upsets' \in 0..MaxUpsets, acked' \in BOOLEAN,
           state.reply = "200" \/ acked' \/ row'.state = "done" => handled > 0,
           IF req[r].pc = "record"
           THEN \/ lost' = lost + 1 /\ row' = row
                \/ lost' = lost /\ (row'.state = "done" \/ (row.state = "absent" /\ row' = row))
           ELSE lost' = lost
    PROVE  IInv'
<1>1. Pending' = Pending \ {r} /\ Holders' = Holders \ {r}
  BY Becomes DEF IInv
<1>2. Cardinality(Pending') = IF req[r].pc \in {"handle", "release"} THEN Cardinality(Pending) - 1
                              ELSE Cardinality(Pending)
  BY Becomes DEF IInv
<1>3. Open' \in {0, 1}
  BY DEF Open
<1>4. req[r].pc \in {"handle", "record", "release"}
  BY DEF Holders
<1>5. handled' + Cardinality(Pending') + Open' <= 1 + lost' + overruns'
  <2>1. CASE req[r].pc # "record"
    BY <1>2, <1>3, <1>4, <2>1, Facts
  <2>2. CASE req[r].pc = "record" /\ lost' = lost + 1
    BY <1>2, <1>3, <1>4, <2>2, Facts
  <2>3. CASE req[r].pc = "record" /\ lost' = lost /\ row'.state = "done"
    <3>1. Open' = 0
      BY <2>3 DEF Open
    <3>2. QED
      BY <1>2, <2>3, <3>1, Facts
  <2>4. CASE req[r].pc = "record" /\ lost' = lost /\ row.state = "absent" /\ row' = row
    <3>1. Open = 1 /\ Open' = 1
      BY <2>4 DEF Open
    <3>2. QED
      BY <1>2, <2>4, <3>1, Facts
  <2>5. QED
    BY <2>1, <2>2, <2>3, <2>4
<1>6. overruns' = 0 => \A q \in Holders' : row' = ClaimedBy(q)
  BY <1>1, OwnerOf
<1>7. handled' >= handled /\ handled' \in Nat /\ overruns' \in Nat
  BY Facts
<1>8. state.pc # "record"
  OBVIOUS
<1>9. QED
  BY <1>5, <1>6, <1>7, <1>8, RequestStep

\* A request that goes on with its claim.
LEMMA GoesOn ==
    ASSUME IInv, NEW r \in Requests, NEW state \in Request, Become(r, state),
           req[r].pc = "handle", row' = row, lost' = lost, overruns' = overruns,
           upsets' \in 0..MaxUpsets, acked' = acked, state.reply = "none",
           \/ state.pc = "record" /\ handled' = handled + 1
           \/ state.pc = "release" /\ handled' = handled
    PROVE  IInv'
<1>1. r \in Holders
  BY DEF Holders
<1>2. Holders' = Holders \cup {r}
  BY Becomes DEF IInv
<1>3. Holders' = Holders
  BY <1>1, <1>2
<1>4. Open' = Open
  BY <1>3 DEF Open
<1>5. Cardinality(Pending') = IF state.pc = "release" THEN Cardinality(Pending) ELSE Cardinality(Pending) - 1
  BY Becomes DEF IInv
<1>6. handled' + Cardinality(Pending') + Open' <= 1 + lost' + overruns'
  BY <1>4, <1>5, Facts
<1>7. handled' \in Nat /\ handled' >= handled /\ (state.pc = "record" => handled' > 0)
  BY Facts
<1>8. row \in Row /\ (row.lapsed => row.state = "claimed")
      /\ (acked \/ row.state = "done" => handled > 0)
  BY DEF IInv, TypeOK, Truthful
<1>9. acked' \/ row'.state = "done" => handled' > 0
  BY <1>7, <1>8, Facts
<1>10. overruns' = 0 => \A q \in Holders' : row' = ClaimedBy(q)
  BY <1>3 DEF IInv, Owned
<1>11. QED
  BY <1>6, <1>7, <1>8, <1>9, <1>10, Facts, RequestStep

\* A claim takes the row, which was open.
LEMMA Claims ==
    ASSUME IInv, NEW r \in Requests, Become(r, At("handle")), req[r].pc = "claim", Claimable,
           row' = ClaimedBy(r), UNCHANGED <<acked, handled, lost, overruns, upsets>>
    PROVE  IInv'
<1> DEFINE next == At("handle")
<1>1. next \in Request /\ next.pc = "handle" /\ next.reply = "none"
  BY States DEF PCs
<1>2. ClaimedBy(r) \in Row /\ ClaimedBy(r).state = "claimed" /\ ~ClaimedBy(r).lapsed /\ ClaimedBy(r).by = r
  BY States DEF ClaimedBy
<1> HIDE DEF next
<1>3. Become(r, next)
  BY DEF next
<1>4. Holders' = Holders \cup {r} /\ Cardinality(Pending') = Cardinality(Pending) + 1
  BY <1>1, <1>3, Becomes DEF IInv
<1>5. Open' = 0
  BY <1>2, <1>4 DEF Open
<1>6. Open = 1
  BY DEF Open, Claimable
<1>7. handled' + Cardinality(Pending') + Open' <= 1 + lost' + overruns'
  BY <1>4, <1>5, <1>6, Facts
<1>8. overruns = 0 => Holders = {}
  <2>1. \A q \in Requests : row # ClaimedBy(q)
    BY DEF Claimable, ClaimedBy
  <2>2. QED
    BY <2>1, OwnerOf DEF Holders
<1>9. overruns' = 0 => \A q \in Holders' : row' = ClaimedBy(q)
  BY <1>4, <1>8
<1>10. acked \in BOOLEAN /\ (acked => handled > 0) /\ handled' >= handled
  BY Facts DEF IInv, Truthful
<1>11. QED
  BY <1>1, <1>2, <1>3, <1>7, <1>9, <1>10, Facts, RequestStep

\* The strengthening is inductive.
LEMMA Inductive == IInv /\ [Next]_vars => IInv'
<1> SUFFICES ASSUME IInv, [Next]_vars PROVE IInv'
  OBVIOUS
<1>s. /\ \A pc \in {"idle", "claim", "look", "record", "release"} :
            At(pc) \in Request /\ At(pc).pc = pc /\ At(pc).reply = "none"
      /\ \A reply \in {"200", "409", "500", "503"} :
            Answer(reply) \in Request /\ Answer(reply).pc = "answer" /\ Answer(reply).reply = reply
  BY States DEF PCs, Replies
<1>u. Upset => upsets' \in 0..MaxUpsets
  BY Facts, UpsetsAssumption DEF Upset
<1>k. \A q \in Requests : ClaimedBy(q) \in Row /\ ClaimedBy(q).state = "claimed" /\ ~ClaimedBy(q).lapsed
  BY States DEF ClaimedBy
<1>n. Absent \in Row /\ Absent.state = "absent" /\ ~Absent.lapsed
      /\ IsDone \in Row /\ IsDone.state = "done" /\ ~IsDone.lapsed
  BY States DEF Absent, IsDone
<1>r. row \in Row /\ (row.lapsed => row.state = "claimed") /\ acked \in BOOLEAN
      /\ (acked \/ row.state = "done" => handled > 0)
      /\ \A q \in Requests : req[q].reply = "200" \/ req[q].pc = "record" => handled > 0
  BY DEF IInv, TypeOK, Truthful
<1>1. ASSUME NEW r \in Requests, Send(r) PROVE IInv'
  <2>1. Become(r, At("claim")) /\ req[r].pc = "idle" /\ upsets' \in 0..MaxUpsets
    BY <1>1, <1>u, Facts DEF Send
  <2>2. QED
    BY <1>1, <1>s, <1>r, <2>1, Bystander DEF Send
<1>2. ASSUME NEW r \in Requests, Receive(r) PROVE IInv'
  <2>1. acked' \in BOOLEAN /\ (acked' => handled > 0) /\ upsets' \in 0..MaxUpsets
    BY <1>2, <1>r, Facts DEF Receive
  <2>2. QED
    BY <1>2, <1>s, <2>1, Bystander DEF Receive
<1>3. ASSUME NEW r \in Requests, AnswerLost(r) PROVE IInv'
  BY <1>3, <1>s, <1>r, <1>u, Bystander DEF AnswerLost
<1>4. ASSUME NEW r \in Requests, Crash(r) PROVE IInv'
  <2>1. CASE r \in Holders
    <3>1. lost' = IF req[r].pc = "record" THEN lost + 1 ELSE lost
      BY <1>4 DEF Crash
    <3>2. lost' \in Nat
      BY <3>1, Facts
    <3>3. QED
      BY <1>4, <1>s, <1>r, <1>u, <2>1, <3>1, <3>2, Ends DEF Crash
  <2>2. CASE r \notin Holders
    <3>1. req[r].pc \notin {"handle", "record", "release"}
      BY <2>2 DEF Holders
    <3>2. QED
      BY <1>4, <1>s, <1>r, <1>u, <3>1, Bystander DEF Crash
  <2>3. QED
    BY <2>1, <2>2
<1>5. ASSUME NEW r \in Requests, Refuse(r) PROVE IInv'
  BY <1>5, <1>s, <1>r, <1>u, Bystander DEF Refuse
<1>6. ASSUME NEW r \in Requests, Claim(r) PROVE IInv'
  <2>1. CASE Claimable
    BY <1>6, <2>1, Claims DEF Claim
  <2>2. CASE ~Claimable
    BY <1>6, <1>s, <1>r, <2>2, Facts, Bystander DEF Claim
  <2>3. QED
    BY <2>1, <2>2
<1>7. ASSUME NEW r \in Requests, ClaimFails(r) PROVE IInv'
  <2>1. CASE row' = row
    BY <1>7, <1>s, <1>r, <1>u, <2>1, Bystander DEF ClaimFails
  <2>2. CASE Claimable /\ row' = ClaimedBy(r)
    <3>1. /\ Become(r, Answer("503")) /\ req[r].pc = "claim" /\ upsets' \in 0..MaxUpsets
          /\ UNCHANGED <<acked, handled, lost, overruns>>
      BY <1>7, <1>u DEF ClaimFails
    <3>2. Pending' = Pending \ {r} /\ Holders' = Holders \ {r}
      BY <1>s, <3>1, Becomes DEF IInv
    <3>3. r \notin Pending /\ r \notin Holders
      BY <3>1 DEF Pending, Holders
    <3>4. Pending' = Pending /\ Holders' = Holders
      BY <3>2, <3>3
    <3>5. Open = 1 /\ Open' \in {0, 1}
      BY <2>2 DEF Open, Claimable
    <3>6. handled' + Cardinality(Pending') + Open' <= 1 + lost' + overruns'
      BY <3>1, <3>4, <3>5, Facts
    <3>7. overruns = 0 => Holders = {}
      <4>1. \A q \in Requests : row # ClaimedBy(q)
        BY <2>2 DEF Claimable, ClaimedBy
      <4>2. QED
        BY <4>1, OwnerOf DEF Holders
    <3>8. overruns' = 0 => \A q \in Holders' : row' = ClaimedBy(q)
      BY <3>1, <3>4, <3>7
    <3>9. handled' >= handled
      BY <3>1, Facts
    <3>10. QED
      BY <1>s, <1>r, <1>k, <2>2, <3>1, <3>6, <3>8, <3>9, Facts, RequestStep
  <2>3. QED
    BY <1>7, <2>1, <2>2 DEF ClaimFails
<1>8. ASSUME NEW r \in Requests, Look(r) PROVE IInv'
  <2>1. CASE row.state = "done"
    BY <1>8, <1>s, <1>r, <2>1, Facts, Bystander DEF Look
  <2>2. CASE row.state # "done"
    BY <1>8, <1>s, <1>r, <2>2, Facts, Bystander DEF Look
  <2>3. QED
    BY <2>1, <2>2
<1>9. ASSUME NEW r \in Requests, LookFails(r) PROVE IInv'
  BY <1>9, <1>s, <1>r, <1>u, Bystander DEF LookFails
<1>10. ASSUME NEW r \in Requests, Handle(r) PROVE IInv'
  BY <1>10, <1>s, Facts, GoesOn DEF Handle
<1>11. ASSUME NEW r \in Requests, HandleFails(r) PROVE IInv'
  BY <1>11, <1>s, <1>u, GoesOn DEF HandleFails
<1>12. ASSUME NEW r \in Requests, Done(r) PROVE IInv'
  <2>1. r \in Holders
    BY <1>12 DEF Done, Holders
  <2>2. row' = row \/ row' = IsDone
    BY <1>12 DEF Done
  <2>3. row' \in Row /\ (row'.lapsed => row'.state = "claimed")
    BY <1>r, <1>n, <2>2
  <2>4. row'.state = "done" \/ (row.state = "absent" /\ row' = row)
    BY <1>12, <1>n DEF Done
  <2>5. handled > 0
    BY <1>12, <1>r DEF Done
  <2>6. QED
    BY <1>12, <1>s, <1>r, <2>1, <2>3, <2>4, <2>5, Facts, Ends DEF Done
<1>13. ASSUME NEW r \in Requests, DoneFails(r) PROVE IInv'
  <2>1. r \in Holders /\ handled > 0 /\ lost' = lost + 1 /\ lost' \in Nat
    BY <1>13, <1>r, Facts DEF DoneFails, Holders
  <2>2. QED
    BY <1>13, <1>s, <1>r, <1>u, <2>1, Ends DEF DoneFails
<1>14. ASSUME NEW r \in Requests, Release(r) PROVE IInv'
  <2>1. r \in Holders
    BY <1>14 DEF Release, Holders
  <2>2. row' = row \/ row' = Absent
    BY <1>14 DEF Release
  <2>3. row' \in Row /\ (row'.lapsed => row'.state = "claimed") /\ (row'.state = "done" => handled > 0)
    BY <1>r, <1>n, <2>2
  <2>4. QED
    BY <1>14, <1>s, <1>r, <2>1, <2>3, Facts, Ends DEF Release
<1>15. ASSUME NEW r \in Requests, ReleaseFails(r) PROVE IInv'
  <2>1. r \in Holders
    BY <1>15 DEF ReleaseFails, Holders
  <2>2. QED
    BY <1>15, <1>s, <1>r, <1>u, <2>1, Facts, Ends DEF ReleaseFails
<1>16. ASSUME Lapse PROVE IInv'
  <2>1. /\ row.state = "claimed" /\ row.by \notin Holders /\ row' = [row EXCEPT !.lapsed = TRUE]
        /\ UNCHANGED <<req, acked, handled, lost, overruns, upsets>>
    BY <1>16 DEF Lapse
  <2>2. row' \in Row /\ row'.state = "claimed"
    BY <1>r, <2>1 DEF Row
  <2>3. Open = 1 /\ Open' \in {0, 1} /\ Pending' = Pending /\ Holders' = Holders
    BY <2>1 DEF Open, Pending, Holders
  <2>4. Budget'
    BY <2>1, <2>3, Facts DEF Budget
  <2>5. Owned'
    <3>1. \A q \in Holders : row # ClaimedBy(q)
      BY <2>1 DEF ClaimedBy
    <3>2. QED
      BY <2>1, <2>3, <3>1 DEF IInv, Owned
  <2>6. QED
    BY <2>1, <2>2, <2>4, <2>5 DEF IInv, TypeOK, Truthful
<1>17. ASSUME Overrun PROVE IInv'
  <2>1. /\ row.state = "claimed" /\ row' = [row EXCEPT !.lapsed = TRUE] /\ overruns' = overruns + 1
        /\ UNCHANGED <<req, acked, handled, lost>> /\ upsets' \in 0..MaxUpsets
    BY <1>17, <1>u DEF Overrun
  <2>2. row' \in Row /\ row'.state = "claimed"
    BY <1>r, <2>1 DEF Row
  <2>3. Open' \in {0, 1} /\ Pending' = Pending
    BY <2>1 DEF Open, Pending
  <2>4. Budget' /\ Owned' /\ overruns' \in Nat
    BY <2>1, <2>3, Facts DEF Budget, Owned
  <2>5. QED
    BY <2>1, <2>2, <2>4 DEF IInv, TypeOK, Truthful
<1>18. CASE UNCHANGED vars
  BY <1>18 DEF vars, IInv, TypeOK, Truthful, Budget, Pending, Open, Holders, Owned
<1>19. QED
  BY <1>1, <1>2, <1>3, <1>4, <1>5, <1>6, <1>7, <1>8, <1>9, <1>10, <1>11, <1>12, <1>13, <1>14,
     <1>15, <1>16, <1>17, <1>18 DEF Next, Serve, Trouble

LEMMA Initial == Init => IInv
<1> SUFFICES ASSUME Init PROVE IInv
  OBVIOUS
<1>1. TypeOK
  <2>1. At("idle") \in Request
    BY States DEF PCs
  <2>2. req \in [Requests -> Request] /\ row \in Row /\ ~row.lapsed
    BY <2>1, States DEF Init, Absent
  <2>3. acked \in BOOLEAN /\ handled \in Nat /\ lost \in Nat /\ overruns \in Nat
    BY DEF Init
  <2>4. upsets \in 0..MaxUpsets
    BY UpsetsAssumption DEF Init
  <2>5. QED
    BY <2>2, <2>3, <2>4 DEF TypeOK
<1>2. Pending = {} /\ Holders = {}
  BY DEF Init, Pending, Holders, At
<1>3. Open = 1
  BY DEF Init, Open, Absent
<1>4. Budget
  BY <1>2, <1>3, FS_EmptySet DEF Init, Budget
<1>5. Truthful /\ Owned
  BY <1>2 DEF Init, Truthful, Owned, At, Absent
<1>6. QED
  BY <1>1, <1>4, <1>5 DEF IInv

\* The strengthening holds of every reachable state.
THEOREM WebhookInvariant == Spec => []IInv
BY Initial, Inductive, PTL DEF Spec

\* Every variable keeps its type, and only a claim can have lapsed.
THEOREM WebhookTypeCorrect == Spec => []TypeOK
<1>1. IInv => TypeOK
  BY DEF IInv
<1>2. QED
  BY <1>1, WebhookInvariant, PTL

\* The provider is told 200, and a row is done, only after a success.
LEMMA AcknowledgedIsHandled == Spec => []AckedIsHandled
<1>1. IInv => AckedIsHandled
  BY DEF IInv, Truthful, AckedIsHandled
<1>2. QED
  BY <1>1, WebhookInvariant, PTL

\* Handlers that keep their deadline never run at once.
LEMMA OneHandlerAtATime == Spec => []OneHandler
<1>1. IInv => OneHandler
  <2>1. SUFFICES ASSUME IInv, overruns = 0 PROVE Cardinality(Holders) <= 1
    BY DEF OneHandler
  <2>2. CASE Holders = {}
    BY <2>2, FS_EmptySet
  <2>3. CASE Holders # {}
    <3>1. PICK r \in Requests : r \in Holders
      BY <2>3 DEF Holders
    <3>2. Holders = {r}
      BY <2>1, <3>1, OwnerOf
    <3>3. QED
      BY <3>2, FS_Singleton
  <2>4. QED
    BY <2>2, <2>3
<1>2. QED
  BY <1>1, WebhookInvariant, PTL

\* Each delivery is handled once, but for what could not be recorded and for
\* handlers that outlast their lease.
LEMMA DeliveryHandledOnce == Spec => []HandledOnce
<1>1. IInv => HandledOnce
  BY Facts DEF HandledOnce
<1>2. QED
  BY <1>1, WebhookInvariant, PTL

\* A 200 is told only of a delivery that was handled, and each is handled by one request at a
\* time and once, but for what could not be recorded and handlers that outlast their lease.
THEOREM DeliveryKeeps == Spec => []DeliveryKept
<1>1. AckedIsHandled /\ OneHandler /\ HandledOnce => DeliveryKept
  BY DEF DeliveryKept
<1>2. QED
  BY <1>1, AcknowledgedIsHandled, OneHandlerAtATime, DeliveryHandledOnce, PTL

\* A handled delivery stays handled.
THEOREM HandledStays == Spec => DoneStays
<1>1. [Next]_vars => [row.state = "done" => row'.state = "done"]_vars
  BY DEF Next, Serve, Trouble, vars, Send, Receive, AnswerLost, Crash, Refuse, Claim, ClaimFails,
     Claimable, Look, LookFails, Handle, HandleFails, Done, DoneFails, Release, ReleaseFails,
     Lapse, Overrun, IsDone
<1>2. QED
  BY <1>1, PTL DEF Spec, DoneStays
=============================================================================
