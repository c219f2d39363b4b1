---------------------------- MODULE SignInProofs ----------------------------
(***************************************************************************)
(* What SignIn promises for any number of accounts, sessions and requests. *)
(* The three properties are inductive once one knows which requests have   *)
(* found their subject, and that the accounts barred are disabled ones:    *)
(* seen alone would let one in again, and refuses it.                      *)
(***************************************************************************)
EXTENDS SignIn, TLAPS

\* The types, without the bound on calls.
AnyUser == [state : {"none", "here", "gone"}, address : BOOLEAN, password : BOOLEAN, epoch : Nat]
AnySession == [subject : Subjects, open : BOOLEAN, since : Nat, late : BOOLEAN]
AnyRequest == [pc : PCs, subject : Subjects \cup {NoSubject}, since : Nat, stays : BOOLEAN,
               bars : BOOLEAN]

Types ==
    /\ user \in [Subjects -> AnyUser]
    /\ account \in [Subjects -> {"none", "active", "disabled"}]
    /\ identity \in Subjects \cup {NoSubject}
    /\ session \in [SessionIds -> AnySession \cup {NoSession}]
    /\ req \in [Requests -> AnyRequest \cup {Idle}]
    /\ barred \in SUBSET Subjects
    /\ unrevoked \in SUBSET Subjects

\* Only requests that still look for an account have no subject.
Looking == {"idle", "register", "password", "identity", "address", "signUp"}
Found == \A q \in Requests : req[q].pc \notin Looking => req[q].subject \in Subjects

BarredDisabled == \A s \in barred : account[s] = "disabled"

IInv == Types /\ Found /\ BarredDisabled /\ SessionsRestOnPassword /\ EveryAccountHasAWayIn

LEMMA InitHolds == Init => IInv
<1> SUFFICES ASSUME Init PROVE IInv
  OBVIOUS
<1>1. Types
  BY DEF Init, Types, AnyUser
<1>2. Found
  BY DEF Init, Found, Idle, Looking
<1>3. BarredDisabled /\ SessionsRestOnPassword /\ EveryAccountHasAWayIn
  BY DEF Init, BarredDisabled, SessionsRestOnPassword, EveryAccountHasAWayIn, Here
<1>4. QED
  BY <1>1, <1>2, <1>3 DEF IInv

-----------------------------------------------------------------------------
(* What a request may become.                                              *)

Requested == req \in [Requests -> AnyRequest \cup {Idle}] /\ Found

LEMMA Busy ==
    ASSUME Types, Found, NEW q \in Requests, req[q].pc # "idle"
    PROVE  /\ req[q] \in AnyRequest
           /\ req[q].pc \notin Looking => req[q].subject \in Subjects
<1>1. req[q] \in AnyRequest \cup {Idle}
  BY DEF Types
<1>2. QED
  BY <1>1 DEF Idle, Found

LEMMA Went ==
    ASSUME Types, Found, NEW q \in Requests, req[q].pc # "idle", NEW pc \in PCs, Go(q, pc),
           pc \in Looking \/ req[q].subject \in Subjects
    PROVE  Requested'
<1>1. req[q] \in AnyRequest
  BY Busy
<1>2. req' = [req EXCEPT ![q].pc = pc] /\ req \in [Requests -> AnyRequest \cup {Idle}]
  BY DEF Go, Types
<1>3. req' = [req EXCEPT ![q] = [req[q] EXCEPT !.pc = pc]]
  BY <1>2
<1>4. [req[q] EXCEPT !.pc = pc] \in AnyRequest
  BY <1>1 DEF AnyRequest
<1>5. req' \in [Requests -> AnyRequest \cup {Idle}]
  BY <1>2, <1>3, <1>4
<1>6. /\ req'[q].pc = pc /\ req'[q].subject = req[q].subject
      /\ \A p \in Requests \ {q} : req'[p] = req[p]
  BY <1>1, <1>2, <1>3 DEF AnyRequest
<1>7. Found'
  BY <1>6 DEF Found
<1>8. QED
  BY <1>5, <1>7 DEF Requested

LEMMA WentAs ==
    ASSUME Types, Found, NEW q \in Requests, req[q].pc # "idle", NEW pc \in PCs,
           NEW s \in Subjects, GoAs(q, pc, s)
    PROVE  Requested'
<1>1. req[q] \in AnyRequest /\ user[s].epoch \in Nat
  BY Busy DEF Types, AnyUser
<1> DEFINE next == [req[q] EXCEPT !.pc = pc, !.subject = s, !.since = user[s].epoch]
<1>2. req' = [req EXCEPT ![q] = next] /\ req \in [Requests -> AnyRequest \cup {Idle}]
  BY DEF GoAs, Types
<1>3. next \in AnyRequest /\ next.pc = pc /\ next.subject = s
  BY <1>1 DEF AnyRequest
<1>4. req' \in [Requests -> AnyRequest \cup {Idle}]
  BY <1>2, <1>3
<1>5. req'[q] = next /\ \A p \in Requests \ {q} : req'[p] = req[p]
  BY <1>2
<1>6. Found'
  BY <1>3, <1>5 DEF Found
<1>7. QED
  BY <1>4, <1>6 DEF Requested

LEMMA Ended ==
    ASSUME Types, Found, NEW q \in Requests, End(q)
    PROVE  Requested'
<1>1. req' = [req EXCEPT ![q] = Idle] /\ req \in [Requests -> AnyRequest \cup {Idle}]
  BY DEF End, Types
<1>2. Found'
  BY <1>1 DEF Found, Idle, Looking
<1>3. QED
  BY <1>1, <1>2 DEF Requested

LEMMA Began ==
    ASSUME Types, Found, NEW q \in Requests, NEW pc \in PCs, NEW s \in Subjects \cup {NoSubject},
           NEW stays \in BOOLEAN, NEW bars \in BOOLEAN, Begin(q, pc, s, stays, bars),
           pc \in Looking \/ s \in Subjects
    PROVE  Requested' /\ UNCHANGED <<tables, ghosts>>
<1> DEFINE first == [pc |-> pc, subject |-> s, since |-> 0, stays |-> stays, bars |-> bars]
<1>1. req' = [req EXCEPT ![q] = first] /\ req \in [Requests -> AnyRequest \cup {Idle}]
  BY DEF Begin, Types
<1>2. first \in AnyRequest
  BY DEF AnyRequest
<1>3. Found'
  BY <1>1 DEF Found
<1>4. QED
  BY <1>1, <1>2, <1>3 DEF Requested, Begin

-----------------------------------------------------------------------------
(* The steps, by what they write.                                          *)

\* A step that writes no table keeps the rest.
LEMMA OnlyRequests ==
    ASSUME IInv, Requested', UNCHANGED <<user, account, identity, session, ghosts>>
    PROVE  IInv'
BY DEF IInv, Types, Requested, BarredDisabled, SessionsRestOnPassword, EveryAccountHasAWayIn,
     Here, ghosts

\* A session that goes, or is closed, breaks nothing.
LEMMA SessionsClose ==
    ASSUME IInv, Requested', UNCHANGED <<user, account, identity, ghosts>>,
           session' \in [SessionIds -> AnySession \cup {NoSession}],
           \A i \in SessionIds :
               session'[i] # session[i] => session'[i] = NoSession \/ ~session'[i].open
    PROVE  IInv'
<1>1. Types' /\ Found' /\ BarredDisabled' /\ EveryAccountHasAWayIn'
  BY DEF IInv, Types, Requested, BarredDisabled, EveryAccountHasAWayIn, Here, ghosts
<1>2. SessionsRestOnPassword'
  BY DEF IInv, SessionsRestOnPassword, Here, ghosts
<1>3. QED
  BY <1>1, <1>2 DEF IInv

\* EndSessions closes all sessions of a subject and no other.
LEMMA SessionsEnd ==
    ASSUME Types, NEW s \in Subjects, EndSessions(s)
    PROVE  /\ session' \in [SessionIds -> AnySession \cup {NoSession}]
           /\ \A i \in SessionIds :
                /\ session'[i] # session[i] /\ session'[i] # NoSession => ~session'[i].open
                /\ session'[i] # NoSession /\ session'[i].subject = s => ~session'[i].open
<1>1. session \in [SessionIds -> AnySession \cup {NoSession}]
  BY DEF Types
<1>2. ASSUME NEW i \in SessionIds, session[i] # NoSession, session[i].subject = s
      PROVE  /\ session'[i] = [session[i] EXCEPT !.open = FALSE]
             /\ [session[i] EXCEPT !.open = FALSE] \in AnySession
             /\ ~[session[i] EXCEPT !.open = FALSE].open
  BY <1>1, <1>2 DEF EndSessions, AnySession
<1>3. ASSUME NEW i \in SessionIds, ~(session[i] # NoSession /\ session[i].subject = s)
      PROVE  session'[i] = session[i]
  BY <1>3 DEF EndSessions
<1>4. session' = [i \in SessionIds |-> session'[i]]
  BY DEF EndSessions
<1>5. \A i \in SessionIds : session'[i] \in AnySession \cup {NoSession}
  BY <1>1, <1>2, <1>3
<1>6. QED
  BY <1>2, <1>3, <1>4, <1>5
-----------------------------------------------------------------------------

LEMMA CallHolds ==
    ASSUME IInv, NEW q \in Requests, Call(q)
    PROVE  IInv'
<1>1. Types /\ Found
  BY DEF IInv
<1>2. \A i \in SessionIds : SessionActive(i) => session[i].subject \in Subjects
  BY <1>1 DEF Types, SessionActive, AnySession
<1>3. PICK pc \in PCs, s \in Subjects \cup {NoSubject}, stays \in BOOLEAN, bars \in BOOLEAN :
        Begin(q, pc, s, stays, bars) /\ (pc \in Looking \/ s \in Subjects)
  <2>1. CASE Arrive(q)
    BY <2>1 DEF Arrive, PCs, Looking
  <2>2. CASE Forgot(q)
    BY <2>2 DEF Forgot, AtAddress, PCs
  <2>3. CASE Reset(q)
    BY <2>3 DEF Reset, PCs
  <2>4. CASE Change(q)
    BY <2>4, <1>2 DEF Change, PCs
  <2>5. CASE Disable(q)
    BY <2>5 DEF Disable, PCs
  <2>6. CASE Leave(q)
    BY <2>6, <1>2 DEF Leave, PCs
  <2>7. CASE Remove(q)
    BY <2>7 DEF Remove, PCs
  <2>8. QED
    BY <2>1, <2>2, <2>3, <2>4, <2>5, <2>6, <2>7 DEF Call
<1>4. Requested' /\ UNCHANGED <<tables, ghosts>>
  BY <1>1, <1>3, Began
<1>5. QED
  BY <1>4, OnlyRequests DEF tables

\* The steps that look something up, or write what nothing here is about.
LEMMA LookHolds ==
    ASSUME IInv, NEW q \in Requests,
           \/ CheckPassword(q) \/ ReadProfile(q) \/ FindIdentity(q) \/ FindAddress(q)
           \/ Invalidate(q) \/ Issue(q) \/ ConsumeToken(q) \/ CheckPolicy(q) \/ CheckCurrent(q)
           \/ Confirm(q) \/ Abort(q)
    PROVE  IInv'
<1>1. Types /\ Found
  BY DEF IInv
<1>2. UNCHANGED <<user, account, identity, session, ghosts>>
  BY DEF CheckPassword, ReadProfile, FindIdentity, FindAddress, Invalidate, Issue, ConsumeToken,
     CheckPolicy, CheckCurrent, Confirm, Abort, tables
<1>3. Requested'
  <2>1. CASE CheckPassword(q)
    BY <2>1, <1>1, WentAs DEF CheckPassword, At, AtAddress, PCs
  <2>2. CASE FindIdentity(q)
    <3>1. req[q].pc # "idle" /\ identity \in Subjects \cup {NoSubject}
      BY <2>2, <1>1 DEF FindIdentity, At, Types
    <3>2. CASE identity # NoSubject
      BY <2>2, <3>1, <3>2, <1>1, WentAs DEF FindIdentity, PCs
    <3>3. CASE identity = NoSubject
      BY <2>2, <3>1, <3>3, <1>1, Went DEF FindIdentity, PCs, Looking
    <3>4. QED
      BY <3>2, <3>3
  <2>3. CASE FindAddress(q)
    <3>1. req[q].pc # "idle"
      BY <2>3 DEF FindAddress, At
    <3>2. CASE AtAddress = {}
      BY <2>3, <3>1, <3>2, <1>1, Went DEF FindAddress, PCs, Looking
    <3>3. CASE AtAddress # {}
      BY <2>3, <3>1, <3>3, <1>1, WentAs DEF FindAddress, PCs, AtAddress
    <3>4. QED
      BY <3>2, <3>3
  <2>4. CASE \/ ReadProfile(q) \/ Invalidate(q) \/ ConsumeToken(q) \/ CheckPolicy(q)
             \/ CheckCurrent(q) \/ Confirm(q)
    <3>1. req[q].pc # "idle" /\ req[q].pc \notin Looking
      BY <2>4 DEF ReadProfile, Invalidate, ConsumeToken, CheckPolicy, CheckCurrent, Confirm,
         At, Looking
    <3>2. \E pc \in PCs : Go(q, pc)
      BY <2>4 DEF ReadProfile, Invalidate, ConsumeToken, CheckPolicy, CheckCurrent, Confirm, PCs
    <3>3. QED
      BY <3>1, <3>2, <1>1, Busy, Went
  <2>5. CASE Issue(q) \/ Abort(q)
    BY <2>5, <1>1, Ended DEF Issue, Abort
  <2>6. QED
    BY <2>1, <2>2, <2>3, <2>4, <2>5
<1>4. QED
  BY <1>2, <1>3, OnlyRequests

LEMMA NewAccount ==
    ASSUME IInv, NEW q \in Requests, NEW s \in Subjects, Register(q, s) \/ SignUp(q, s)
    PROVE  IInv'
<1>1. Types /\ Found /\ req[q].pc # "idle" /\ user[s].state = "none"
  BY DEF IInv, Register, SignUp, At
<1>2. Requested'
  BY <1>1, WentAs DEF Register, SignUp, PCs
<1>3. PICK a \in BOOLEAN, p \in BOOLEAN :
        /\ user' = [user EXCEPT ![s].state = "here", ![s].address = a, ![s].password = p]
        /\ p \/ (identity = NoSubject /\ identity' = s)
        /\ identity' \in {identity, s}
        /\ identity # identity' => identity = NoSubject
        /\ UNCHANGED <<account, session, ghosts>>
  <2>1. CASE Register(q, s)
    BY <2>1, <1>1 DEF Register
  <2>2. CASE SignUp(q, s)
    <3>1. PICK a \in BOOLEAN : user' = [user EXCEPT ![s].state = "here", ![s].address = a]
      BY <2>2 DEF SignUp
    <3>2. user[s] \in AnyUser
      BY <1>1 DEF Types
    <3>3. user' = [user EXCEPT ![s].state = "here", ![s].address = a,
                               ![s].password = user[s].password]
      BY <3>1, <3>2 DEF AnyUser
    <3>4. user[s].password \in BOOLEAN
      BY <3>2 DEF AnyUser
    <3>5. QED
      BY <2>2, <3>3, <3>4 DEF SignUp
  <2>3. QED
    BY <2>1, <2>2
<1>4. /\ user[s] \in AnyUser /\ user \in [Subjects -> AnyUser]
      /\ identity \in Subjects \cup {NoSubject}
  BY <1>1 DEF Types
<1>5. user' \in [Subjects -> AnyUser]
  BY <1>3, <1>4 DEF AnyUser
<1>6. /\ user'[s].state = "here" /\ user'[s].password = p /\ user'[s].epoch = user[s].epoch
      /\ \A o \in Subjects \ {s} : user'[o] = user[o]
  BY <1>3, <1>4 DEF AnyUser
<1>7. Types' /\ Found' /\ BarredDisabled'
  BY <1>1, <1>2, <1>3, <1>4, <1>5 DEF IInv, Types, Requested, BarredDisabled, ghosts
<1>8. EveryAccountHasAWayIn'
  BY <1>1, <1>3, <1>6, NullAssumption DEF IInv, EveryAccountHasAWayIn, Here
<1>9. SessionsRestOnPassword'
  <2>1. \A i \in SessionIds : session[i] # NoSession => session[i].subject \in Subjects
    BY <1>1 DEF Types, AnySession
  <2>2. \A o \in Subjects : Here(o) => o # s
    BY <1>1 DEF Here
  <2>3. ASSUME NEW i \in SessionIds, session[i] # NoSession, session[i].open
        PROVE  \/ user'[session[i].subject].state = "here"
                  /\ session[i].since = user'[session[i].subject].epoch
               \/ session[i].late
               \/ session[i].subject \in unrevoked
    <3>1. \/ Here(session[i].subject) /\ session[i].since = user[session[i].subject].epoch
          \/ session[i].late
          \/ session[i].subject \in unrevoked
      BY <2>3 DEF IInv, SessionsRestOnPassword
    <3>2. QED
      BY <2>1, <2>2, <2>3, <3>1, <1>6 DEF Here
  <2>4. QED
    BY <2>3, <1>3 DEF SessionsRestOnPassword, Here, ghosts
<1>10. QED
  BY <1>7, <1>8, <1>9 DEF IInv

LEMMA JoinHolds ==
    ASSUME IInv, NEW q \in Requests, JoinIdentity(q)
    PROVE  IInv'
<1>1. Types /\ Found /\ req[q].pc = "join" /\ req[q].pc \notin Looking
  BY DEF IInv, JoinIdentity, At, Looking
<1>2. req[q].subject \in Subjects
  BY <1>1, Busy
<1>3. Requested'
  BY <1>1, <1>2, Went DEF JoinIdentity, PCs
<1>4. /\ identity = NoSubject /\ identity' = req[q].subject
      /\ UNCHANGED <<user, account, session, ghosts>>
  BY DEF JoinIdentity
<1>5. QED
  BY <1>2, <1>3, <1>4, NullAssumption
  DEF IInv, Types, Requested, BarredDisabled, SessionsRestOnPassword, EveryAccountHasAWayIn, Here, ghosts

LEMMA SeenHolds ==
    ASSUME IInv, NEW q \in Requests, Seen(q)
    PROVE  IInv'
<1>1. Types /\ Found /\ req[q].pc = "seen" /\ req[q].pc \notin Looking
  BY DEF IInv, Seen, At, Looking
<1>2. req[q].subject \in Subjects
  BY <1>1, Busy
<1>3. Requested'
  BY <1>1, <1>2, Went DEF Seen, PCs
<1>4. /\ account[req[q].subject] # "disabled"
      /\ account' = [account EXCEPT ![req[q].subject] = "active"]
      /\ UNCHANGED <<user, identity, session, ghosts>>
  BY DEF Seen
<1>5. Types'
  BY <1>1, <1>2, <1>3, <1>4 DEF Types, Requested, ghosts
<1>6. BarredDisabled'
  BY <1>1, <1>2, <1>4 DEF IInv, BarredDisabled, Types, ghosts
<1>7. QED
  BY <1>3, <1>4, <1>5, <1>6 DEF IInv, Requested, SessionsRestOnPassword, EveryAccountHasAWayIn, Here, ghosts

LEMMA OpenHolds ==
    ASSUME IInv, NEW q \in Requests, Open(q)
    PROVE  IInv'
<1>1. Types /\ Found /\ req[q].pc = "open" /\ req[q].pc \notin Looking
  BY DEF IInv, Open, At, Looking
<1>2. req[q] \in AnyRequest /\ req[q].subject \in Subjects
  BY <1>1, Busy
<1>3. Requested'
  BY <1>1, Ended DEF Open
<1> DEFINE s == req[q].subject
           new == [subject |-> s, open |-> TRUE, since |-> req[q].since,
                   late |-> ~Here(s) \/ req[q].since # user[s].epoch]
<1>4. new \in AnySession
  BY <1>2 DEF AnySession, AnyRequest, Here
<1>5. PICK i \in SessionIds : session' = [session EXCEPT ![i] = new]
  BY DEF Open
<1>6. UNCHANGED <<user, account, identity, ghosts>>
  BY DEF Open
<1>7. session \in [SessionIds -> AnySession \cup {NoSession}]
  BY <1>1 DEF Types
<1>8. Types' /\ Found' /\ BarredDisabled' /\ EveryAccountHasAWayIn'
  BY <1>1, <1>3, <1>4, <1>5, <1>6, <1>7 DEF IInv, Types, Requested, BarredDisabled, EveryAccountHasAWayIn, Here, ghosts
<1>9. ASSUME NEW j \in SessionIds, session'[j] # NoSession, session'[j].open
      PROVE  \/ user[session'[j].subject].state = "here"
                /\ session'[j].since = user[session'[j].subject].epoch
             \/ session'[j].late
             \/ session'[j].subject \in unrevoked
  <2>1. CASE j = i
    <3>1. session'[j] = new
      BY <2>1, <1>5, <1>7
    <3>2. /\ session'[j].subject = s /\ session'[j].since = req[q].since
          /\ session'[j].late = (~Here(s) \/ req[q].since # user[s].epoch)
      BY <3>1
    <3>3. QED
      BY <3>2 DEF Here
  <2>2. CASE j # i
    <3>1. session'[j] = session[j]
      BY <2>2, <1>5, <1>7
    <3>2. QED
      BY <3>1, <1>9 DEF IInv, SessionsRestOnPassword, Here
  <2>3. QED
    BY <2>1, <2>2
<1>10. SessionsRestOnPassword'
  BY <1>6, <1>9 DEF SessionsRestOnPassword, Here, ghosts
<1>11. QED
  BY <1>8, <1>10 DEF IInv
\* SetPassword's UPDATE: the sessions of the account no longer rest on its password, and
\* it is noted that RevokeAll is still to run.
LEMMA SetPasswordHolds ==
    ASSUME IInv, NEW q \in Requests, SetPassword(q)
    PROVE  IInv'
<1> DEFINE s == req[q].subject
           next == [req[q] EXCEPT !.pc = "revoke", !.since = user[s].epoch + 1]
           with == [user[s] EXCEPT !.password = TRUE, !.epoch = user[s].epoch + 1]
<1>1. Types /\ Found /\ req[q].pc = "set" /\ req[q].pc \notin Looking
  BY DEF IInv, SetPassword, At, Looking
<1>2. req[q] \in AnyRequest /\ s \in Subjects
  BY <1>1, Busy
<1>3. user[s] \in AnyUser /\ user[s].state = "here"
  BY <1>1, <1>2 DEF Types, SetPassword, Here
<1>4. user[s].epoch + 1 \in Nat /\ "revoke" \in PCs
  <2>1. user[s].epoch \in Nat
    BY <1>3 DEF AnyUser
  <2>2. QED
    BY <2>1 DEF PCs
<1>5. /\ next \in AnyRequest /\ next.subject = s
      /\ with \in AnyUser /\ with.state = "here" /\ with.password
  <2> DEFINE e == user[s].epoch + 1
  <2>1. e \in Nat /\ "revoke" \in PCs
    BY <1>4
  <2>2. next = [req[q] EXCEPT !.pc = "revoke", !.since = e]
    OBVIOUS
  <2>3. with = [user[s] EXCEPT !.password = TRUE, !.epoch = e]
    OBVIOUS
  <2> HIDE DEF e
  <2>4. next \in AnyRequest /\ next.subject = s
    BY <1>2, <2>1, <2>2 DEF AnyRequest
  <2>5. with \in AnyUser /\ with.state = "here" /\ with.password
    BY <1>3, <2>1, <2>3 DEF AnyUser
  <2>6. QED
    BY <2>4, <2>5
<1>6. /\ user' = [user EXCEPT ![s] = with]
      /\ req' = [req EXCEPT ![q] = next]
      /\ unrevoked' = unrevoked \cup {s}
      /\ UNCHANGED <<account, identity, session, barred>>
  BY DEF SetPassword
<1>7. Types'
  BY <1>1, <1>2, <1>5, <1>6 DEF Types
<1>8. Found'
  BY <1>1, <1>2, <1>5, <1>6 DEF Found, Types
<1>9. user'[s] = with /\ \A o \in Subjects \ {s} : user'[o] = user[o]
  BY <1>1, <1>2, <1>6 DEF Types
<1>10. BarredDisabled' /\ EveryAccountHasAWayIn'
  BY <1>5, <1>6, <1>9 DEF IInv, BarredDisabled, EveryAccountHasAWayIn, Here
<1>11. ASSUME NEW i \in SessionIds, session[i] # NoSession, session[i].open
       PROVE  \/ user'[session[i].subject].state = "here"
                 /\ session[i].since = user'[session[i].subject].epoch
              \/ session[i].late
              \/ session[i].subject \in unrevoked'
  <2>1. session[i].subject \in Subjects
    BY <1>1, <1>11 DEF Types, AnySession
  <2>2. CASE session[i].subject = s
    BY <2>2, <1>6
  <2>3. CASE session[i].subject # s
    BY <2>1, <2>3, <1>6, <1>9, <1>11 DEF IInv, SessionsRestOnPassword, Here
  <2>4. QED
    BY <2>2, <2>3
<1>12. SessionsRestOnPassword'
  BY <1>6, <1>11 DEF SessionsRestOnPassword, Here
<1>13. QED
  BY <1>7, <1>8, <1>10, <1>12 DEF IInv

\* RevokeAll: no session of the account is open, so none rests on an old password.
LEMMA RevokeAllHolds ==
    ASSUME IInv, NEW q \in Requests, RevokeAll(q)
    PROVE  IInv'
<1> DEFINE s == req[q].subject
<1>1. Types /\ Found /\ req[q].pc = "revoke" /\ req[q].pc \notin Looking
  BY DEF IInv, RevokeAll, At, Looking
<1>2. s \in Subjects
  BY <1>1, Busy
<1>3. Requested'
  BY <1>1, <1>2, Went, Ended DEF RevokeAll, PCs
<1>4. /\ session' \in [SessionIds -> AnySession \cup {NoSession}]
      /\ \A i \in SessionIds :
            /\ session'[i] # session[i] /\ session'[i] # NoSession => ~session'[i].open
            /\ session'[i] # NoSession /\ session'[i].subject = s => ~session'[i].open
  BY <1>1, <1>2, SessionsEnd DEF RevokeAll
<1>5. unrevoked' = unrevoked \ {s} /\ UNCHANGED <<user, account, identity, barred>>
  BY DEF RevokeAll
<1>6. Types' /\ Found' /\ BarredDisabled' /\ EveryAccountHasAWayIn'
  BY <1>1, <1>3, <1>4, <1>5 DEF IInv, Types, Requested, BarredDisabled, EveryAccountHasAWayIn, Here
<1>7. SessionsRestOnPassword'
  BY <1>4, <1>5 DEF IInv, SessionsRestOnPassword, Here
<1>8. QED
  BY <1>6, <1>7 DEF IInv

LEMMA BarHolds ==
    ASSUME IInv, NEW q \in Requests, Bar(q)
    PROVE  IInv'
<1>1. Types /\ Found /\ req[q].pc = "bar" /\ req[q].pc \notin Looking
  BY DEF IInv, Bar, At, Looking
<1>2. req[q].subject \in Subjects
  BY <1>1, Busy
<1>3. Requested'
  BY <1>1, <1>2, Went DEF Bar, PCs
<1>4. account' = [account EXCEPT ![req[q].subject] = "disabled"] /\ UNCHANGED <<user, identity, session, ghosts>>
  BY DEF Bar
<1>5. Types' /\ BarredDisabled'
  BY <1>1, <1>2, <1>3, <1>4 DEF IInv, Types, Requested, BarredDisabled, ghosts
<1>6. QED
  BY <1>3, <1>4, <1>5 DEF IInv, Requested, SessionsRestOnPassword, EveryAccountHasAWayIn, Here, ghosts

LEMMA BarredHolds ==
    ASSUME IInv, NEW q \in Requests, Barred(q)
    PROVE  IInv'
<1>1. Types /\ Found /\ req[q].pc = "end" /\ req[q].pc \notin Looking
  BY DEF IInv, Barred, At, Looking
<1>2. req[q].subject \in Subjects
  BY <1>1, Busy
<1>3. Requested'
  BY <1>1, Ended DEF Barred
<1>4. /\ barred' = barred \/ (barred' = barred \cup {req[q].subject} /\ account[req[q].subject] = "disabled")
      /\ UNCHANGED <<user, account, identity, session, unrevoked>>
  BY DEF Barred, tables
<1>5. Types' /\ BarredDisabled'
  BY <1>1, <1>2, <1>3, <1>4 DEF IInv, Types, Requested, BarredDisabled
<1>6. QED
  BY <1>3, <1>4, <1>5 DEF IInv, Requested, SessionsRestOnPassword, EveryAccountHasAWayIn, Here

LEMMA EnableHolds ==
    ASSUME IInv, NEW s \in Subjects, Enable(s)
    PROVE  IInv'
<1>1. /\ account' = [account EXCEPT ![s] = "active"] /\ barred' = barred \ {s}
      /\ UNCHANGED <<user, identity, session, req, unrevoked>>
  BY DEF Enable
<1>2. Types' /\ BarredDisabled'
  BY <1>1 DEF IInv, Types, BarredDisabled
<1>3. QED
  BY <1>1, <1>2 DEF IInv, Found, SessionsRestOnPassword, EveryAccountHasAWayIn, Here

\* DeleteUserTx: the account goes with its identity, and its sessions are closed.
LEMMA DeleteUserHolds ==
    ASSUME IInv, NEW q \in Requests, DeleteUser(q)
    PROVE  IInv'
<1> DEFINE s == req[q].subject
<1>1. Types /\ Found /\ req[q].pc = "delete" /\ req[q].pc \notin Looking
  BY DEF IInv, DeleteUser, At, Looking
<1>2. s \in Subjects
  BY <1>1, Busy
<1>3. Requested'
  BY <1>1, Ended DEF DeleteUser
<1>4. /\ session' \in [SessionIds -> AnySession \cup {NoSession}]
      /\ \A i \in SessionIds :
            /\ session'[i] # session[i] /\ session'[i] # NoSession => ~session'[i].open
            /\ session'[i] # NoSession /\ session'[i].subject = s => ~session'[i].open
  BY <1>1, <1>2, SessionsEnd DEF DeleteUser
<1>5. /\ account' = [account EXCEPT ![s] = "none"]
      /\ identity' = IF identity = s THEN NoSubject ELSE identity
      /\ barred' = barred \ {s} /\ unrevoked' = unrevoked
      /\ user' = IF Here(s) THEN [user EXCEPT ![s].state = "gone"] ELSE user
  BY DEF DeleteUser
<1>6. user \in [Subjects -> AnyUser] /\ user[s] \in AnyUser
  BY <1>1, <1>2 DEF Types
<1>7. user' \in [Subjects -> AnyUser]
  BY <1>5, <1>6 DEF AnyUser
<1>8. user'[s].state # "here" /\ \A o \in Subjects \ {s} : user'[o] = user[o]
  BY <1>2, <1>5, <1>6 DEF AnyUser, Here
<1>9. Types' /\ Found' /\ BarredDisabled'
  BY <1>1, <1>2, <1>3, <1>4, <1>5, <1>7 DEF IInv, Types, Requested, BarredDisabled
<1>10. EveryAccountHasAWayIn'
  BY <1>2, <1>5, <1>8 DEF IInv, EveryAccountHasAWayIn, Here
<1>11. ASSUME NEW i \in SessionIds, session'[i] # NoSession, session'[i].open
       PROVE  \/ user'[session'[i].subject].state = "here"
                 /\ session'[i].since = user'[session'[i].subject].epoch
              \/ session'[i].late
              \/ session'[i].subject \in unrevoked
  <2>1. session'[i] = session[i] /\ session'[i].subject # s /\ session'[i].subject \in Subjects
    BY <1>4, <1>11 DEF AnySession
  <2>2. QED
    BY <2>1, <1>8, <1>11 DEF IInv, SessionsRestOnPassword, Here
<1>12. SessionsRestOnPassword'
  BY <1>5, <1>11 DEF SessionsRestOnPassword, Here
<1>13. QED
  BY <1>9, <1>10, <1>12 DEF IInv

LEMMA ClosesHolds ==
    ASSUME IInv, NEW i \in SessionIds, Logout(i) \/ Forget(i)
    PROVE  IInv'
<1>1. session \in [SessionIds -> AnySession \cup {NoSession}]
  BY DEF IInv, Types
<1>2. Requested' /\ UNCHANGED <<user, account, identity, ghosts>>
  BY DEF IInv, Types, Requested, Found, Logout, Forget
<1>3. PICK e \in AnySession \cup {NoSession} :
        session' = [session EXCEPT ![i] = e] /\ (e = NoSession \/ ~e.open)
  <2>1. CASE Logout(i)
    <3>1. session[i] \in AnySession /\ session' = [session EXCEPT ![i] = [session[i] EXCEPT !.open = FALSE]]
      BY <2>1, <1>1 DEF Logout, SessionActive
    <3>2. [session[i] EXCEPT !.open = FALSE] \in AnySession /\ ~[session[i] EXCEPT !.open = FALSE].open
      BY <3>1 DEF AnySession
    <3>3. QED
      BY <3>1, <3>2
  <2>2. CASE Forget(i)
    BY <2>2 DEF Forget
  <2>3. QED
    BY <2>1, <2>2
<1>4. /\ session' \in [SessionIds -> AnySession \cup {NoSession}]
      /\ \A j \in SessionIds : session'[j] # session[j] => session'[j] = NoSession \/ ~session'[j].open
  BY <1>1, <1>3
<1>5. QED
  BY <1>2, <1>4, SessionsClose

-----------------------------------------------------------------------------

LEMMA StepHolds == IInv /\ [Next]_vars => IInv'
<1> SUFFICES ASSUME IInv, [Next]_vars PROVE IInv'
  OBVIOUS
<1>1. ASSUME NEW q \in Requests, Call(q) PROVE IInv'
  BY <1>1, CallHolds
<1>2. ASSUME NEW q \in Requests, Step(q) PROVE IInv'
  BY <1>2, LookHolds, NewAccount, JoinHolds, SeenHolds, OpenHolds, SetPasswordHolds, RevokeAllHolds,
     BarHolds, BarredHolds, DeleteUserHolds DEF Step
<1>3. ASSUME NEW i \in SessionIds, Logout(i) \/ Forget(i) PROVE IInv'
  BY <1>3, ClosesHolds
<1>4. ASSUME NEW s \in Subjects, Enable(s) PROVE IInv'
  BY <1>4, EnableHolds
<1>5. ASSUME UNCHANGED vars PROVE IInv'
  BY <1>5 DEF vars, tables, ghosts, IInv, Types, Found, BarredDisabled, SessionsRestOnPassword,
     EveryAccountHasAWayIn, Here
<1>6. QED
  BY <1>1, <1>2, <1>3, <1>4, <1>5 DEF Next

\* IInv holds of every state of SignIn (auth.go, signin.go, accounts.go).
THEOREM Invariance == Spec => []IInv
BY InitHolds, StepHolds, PTL DEF Spec

\* Disable keeps every session of the account out until Enable (accounts.go:106), for any
\* number of accounts, sessions and requests.
THEOREM BarredStaysOut == Spec => []BarredIsOut
<1>1. IInv => BarredIsOut
  BY DEF IInv, BarredDisabled, BarredIsOut, SessionActive
<1>2. QED
  BY <1>1, Invariance, PTL

\* Every open session rests on the present password or is one of those a sign-in under
\* way or a missing RevokeAll explains (SetPassword, signin.go:618).
THEOREM SessionsRest == Spec => []SessionsRestOnPassword
<1>1. IInv => SessionsRestOnPassword
  BY DEF IInv
<1>2. QED
  BY <1>1, Invariance, PTL

\* No interleaving of registrations, callbacks and joins leaves an account that nobody
\* can sign in to (signUp, signin.go:770).
THEOREM WayIn == Spec => []EveryAccountHasAWayIn
<1>1. IInv => EveryAccountHasAWayIn
  BY DEF IInv
<1>2. QED
  BY <1>1, Invariance, PTL
=============================================================================
