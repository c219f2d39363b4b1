-------------------------------- MODULE SignIn --------------------------------
(***************************************************************************)
(* Accounts and their sessions in packs/auth: registration, sign-in with a *)
(* password or through a provider (signin.go), reset and change of the     *)
(* password, and the calls that bar or remove an account (accounts.go), as *)
(* requests on any number of nodes that interleave between SQL statements. *)
(*                                                                         *)
(* One email address and one provider account are modelled, and the        *)
(* accounts that come and go with them; subjects are fresh UUIDs.  The     *)
(* second factor is SecondFactor's, the renewal of a session               *)
(* SessionRenewal's.  Verification of the address, the application's hooks *)
(* and the mail are left out.                                              *)
(***************************************************************************)
EXTENDS Integers, FiniteSets

CONSTANTS
    Subjects,
    SessionIds,
    Requests,       \* requests in progress at once
    MaxCalls,       \* bound on requests and administrator's calls
    NoSubject,
    NoSession

ASSUME NullAssumption == NoSubject \notin Subjects
ASSUME BoundAssumption == MaxCalls \in Nat

VARIABLES
    user,       \* auth_user
    account,    \* auth_account
    identity,   \* auth_identity: the subject the provider account is linked to
    links,      \* auth_token: how many reset links of a subject are unused
    session,    \* auth_session
    req,        \* requests in progress
    barred,     \* subjects whose Disable returned with no Enable since
    unrevoked,  \* subjects whose password was replaced, with RevokeAll still to run
    calls

tables == <<user, account, identity, links, session>>
ghosts == <<barred, unrevoked>>
vars == <<tables, req, ghosts, calls>>

-----------------------------------------------------------------------------

\* "epoch" counts the replacements of the password.
User == [state : {"none", "here", "gone"}, address : BOOLEAN, password : BOOLEAN,
         epoch : 0..MaxCalls]

\* "since" is the epoch in which the credentials were checked; "late" marks a session
\* recorded when they no longer held.
Session == [subject : Subjects, open : BOOLEAN, since : 0..MaxCalls, late : BOOLEAN]

PCs == {"register", "password", "profile", "identity", "address", "join", "signUp", "seen", "open",
        "invalidate", "issue", "consume", "policy", "current", "set", "revoke",
        "confirm", "delete", "bar", "end"}
Idle == [pc |-> "idle"]
Request == [pc : PCs, subject : Subjects \cup {NoSubject}, since : 0..MaxCalls,
            stays : BOOLEAN, bars : BOOLEAN]

TypeOK ==
    /\ user \in [Subjects -> User]
    /\ account \in [Subjects -> {"none", "active", "disabled"}]
    /\ identity \in Subjects \cup {NoSubject}
    /\ links \in [Subjects -> 0..MaxCalls]
    /\ session \in [SessionIds -> Session \cup {NoSession}]
    /\ req \in [Requests -> Request \cup {Idle}]
    /\ barred \in SUBSET Subjects
    /\ unrevoked \in SUBSET Subjects
    /\ calls \in 0..MaxCalls

Init ==
    /\ user = [s \in Subjects |->
                [state |-> "none", address |-> FALSE, password |-> FALSE, epoch |-> 0]]
    /\ account = [s \in Subjects |-> "none"]
    /\ identity = NoSubject
    /\ links = [s \in Subjects |-> 0]
    /\ session = [i \in SessionIds |-> NoSession]
    /\ req = [q \in Requests |-> Idle]
    /\ barred = {}
    /\ unrevoked = {}
    /\ calls = 0

Here(s) == user[s].state = "here"
AtAddress == {s \in Subjects : Here(s) /\ user[s].address}

\* A request's next step; "since" is set where credentials are checked.
At(q, pc) == req[q].pc = pc
Go(q, pc) == req' = [req EXCEPT ![q].pc = pc]
GoAs(q, pc, s) ==
    req' = [req EXCEPT ![q].pc = pc, ![q].subject = s, ![q].since = user[s].epoch]
End(q) == req' = [req EXCEPT ![q] = Idle]

Begin(q, pc, s, stays, bars) ==
    /\ req[q] = Idle
    /\ calls < MaxCalls /\ calls' = calls + 1
    /\ req' = [req EXCEPT ![q] = [pc |-> pc, subject |-> s, since |-> 0,
                                  stays |-> stays, bars |-> bars]]
    /\ UNCHANGED <<tables, ghosts>>

\* A failed statement, a request cancelled by its client, a dead process.
Abort(q) ==
    /\ req[q] # Idle
    /\ End(q)
    /\ UNCHANGED <<tables, ghosts, calls>>

-----------------------------------------------------------------------------
(* Signing in.                                                             *)

\* authRegister, authLogin and the callback of a provider begin without a subject.
Arrive(q) == \E pc \in {"register", "password", "identity"} :
                Begin(q, pc, NoSubject, FALSE, FALSE)

\* authRegister: signUp with createUser; a taken address is refused.
Register(q, s) ==
    /\ At(q, "register")
    /\ user[s].state = "none"
    /\ AtAddress = {}
    /\ user' = [user EXCEPT ![s].state = "here", ![s].address = TRUE, ![s].password = TRUE]
    /\ GoAs(q, "seen", s)
    /\ UNCHANGED <<account, identity, links, session, ghosts, calls>>

\* Mutant of SignUp: the identity's row is inserted ON CONFLICT DO NOTHING.
SignUpLoosely(q, s) ==
    /\ At(q, "signUp")
    /\ user[s].state = "none"
    /\ identity' = IF identity = NoSubject THEN s ELSE identity
    /\ user' = [user EXCEPT ![s].state = "here"]
    /\ GoAs(q, "seen", s)
    /\ UNCHANGED <<account, links, session, ghosts, calls>>

\* A provider's account and its identity, in one transaction: without the address when
\* another account has it, and not at all when the identity was recorded meanwhile.
SignUp(q, s) ==
    /\ At(q, "signUp")
    /\ user[s].state = "none"
    /\ identity = NoSubject
    /\ identity' = s
    /\ \E address \in BOOLEAN :
        /\ address => AtAddress = {}
        /\ user' = [user EXCEPT ![s].state = "here", ![s].address = address]
    /\ GoAs(q, "seen", s)
    /\ UNCHANGED <<account, links, session, ghosts, calls>>

\* authLogin: the stored hash matches what was typed.
CheckPassword(q) ==
    /\ At(q, "password")
    /\ \E s \in AtAddress : user[s].password /\ GoAs(q, "profile", s)
    /\ UNCHANGED <<tables, ghosts, calls>>

ReadProfile(q) ==
    /\ At(q, "profile")
    /\ Here(req[q].subject)
    /\ Go(q, "seen")
    /\ UNCHANGED <<tables, ghosts, calls>>

\* link: the identity is known, or its address, or it is new.
FindIdentity(q) ==
    /\ At(q, "identity")
    /\ IF identity # NoSubject THEN GoAs(q, "profile", identity)
       ELSE \E pc \in {"address", "signUp"} : Go(q, pc)     \* is the address verified?
    /\ UNCHANGED <<tables, ghosts, calls>>

FindAddress(q) ==
    /\ At(q, "address")
    /\ IF AtAddress = {} THEN Go(q, "signUp")
       ELSE \E s \in AtAddress : GoAs(q, "join", s)
    /\ UNCHANGED <<tables, ghosts, calls>>

\* insertIdentity outside a transaction; its key is taken once.
JoinIdentity(q) ==
    /\ At(q, "join")
    /\ identity = NoSubject
    /\ identity' = req[q].subject
    /\ Go(q, "seen")
    /\ UNCHANGED <<user, account, links, session, ghosts, calls>>

\* seen: an upsert that refuses a disabled account.
Seen(q) ==
    LET s == req[q].subject
    IN  /\ At(q, "seen")
        /\ account[s] # "disabled"
        /\ account' = [account EXCEPT ![s] = "active"]
        /\ Go(q, "open")
        /\ UNCHANGED <<user, identity, links, session, ghosts, calls>>

\* LoginWith's INSERT: nothing ties the row to the account.
Open(q) ==
    LET s == req[q].subject
    IN  /\ At(q, "open")
        /\ \E i \in SessionIds :
            /\ session[i] = NoSession
            /\ session' = [session EXCEPT ![i] =
                [subject |-> s, open |-> TRUE, since |-> req[q].since,
                 late |-> ~Here(s) \/ req[q].since # user[s].epoch]]
        /\ End(q)
        /\ UNCHANGED <<user, account, identity, links, ghosts, calls>>

\* Mutant of SessionActive: the account is not looked at.
SessionActiveAlone(i) == session[i] # NoSession /\ session[i].open

\* sessionActive, the check of every request.
SessionActive(i) ==
    session[i] # NoSession /\ session[i].open /\ account[session[i].subject] # "disabled"

Logout(i) ==
    /\ SessionActive(i)
    /\ session' = [session EXCEPT ![i].open = FALSE]
    /\ UNCHANGED <<user, account, identity, links, req, ghosts, calls>>

\* A row past its time is never looked at again.
Forget(i) ==
    /\ session[i] # NoSession /\ ~session[i].open
    /\ session' = [session EXCEPT ![i] = NoSession]
    /\ UNCHANGED <<user, account, identity, links, req, ghosts, calls>>

-----------------------------------------------------------------------------
(* Passwords.                                                              *)

\* authForgot: IssueToken ends the earlier links, then records the new one.
Forgot(q) == \E s \in AtAddress : Begin(q, "invalidate", s, FALSE, FALSE)

Invalidate(q) ==
    /\ At(q, "invalidate")
    /\ links' = [links EXCEPT ![req[q].subject] = 0]
    /\ Go(q, "issue")
    /\ UNCHANGED <<user, account, identity, session, ghosts, calls>>

Issue(q) ==
    /\ At(q, "issue")
    /\ links' = [links EXCEPT ![req[q].subject] = @ + 1]
    /\ End(q)
    /\ UNCHANGED <<user, account, identity, session, ghosts, calls>>

\* authReset: ConsumeToken, then the policy; a password it refuses costs the link.
Reset(q) == \E s \in Subjects : links[s] > 0 /\ Begin(q, "consume", s, FALSE, FALSE)

\* Mutant of ConsumeToken: the UPDATE does not ask for an unused row.
ConsumeTokenAgain(q) ==
    /\ At(q, "consume")
    /\ links' = [links EXCEPT ![req[q].subject] = @ - 1]
    /\ Go(q, "policy")
    /\ UNCHANGED <<user, account, identity, session, ghosts, calls>>

ConsumeToken(q) ==
    /\ At(q, "consume")
    /\ links[req[q].subject] > 0
    /\ links' = [links EXCEPT ![req[q].subject] = @ - 1]
    /\ Go(q, "policy")
    /\ UNCHANGED <<user, account, identity, session, ghosts, calls>>

CheckPolicy(q) ==
    /\ At(q, "policy")
    /\ Here(req[q].subject)
    /\ Go(q, "set")
    /\ UNCHANGED <<tables, ghosts, calls>>

\* authPassword: the signed-in account's current password, when it has one.
Change(q) == \E i \in SessionIds :
    SessionActive(i) /\ Begin(q, "current", session[i].subject, TRUE, FALSE)

CheckCurrent(q) ==
    /\ At(q, "current")
    /\ Here(req[q].subject)
    /\ Go(q, "set")
    /\ UNCHANGED <<tables, ghosts, calls>>

\* SetPassword's UPDATE.
SetPassword(q) ==
    LET s == req[q].subject
    IN  /\ At(q, "set")
        /\ Here(s)
        /\ user' = [user EXCEPT ![s].password = TRUE, ![s].epoch = @ + 1]
        /\ req' = [req EXCEPT ![q].pc = "revoke", ![q].since = user[s].epoch + 1]
        /\ unrevoked' = unrevoked \cup {s}
        /\ UNCHANGED <<account, identity, links, session, barred, calls>>

EndSessions(s) ==
    session' = [i \in SessionIds |->
        IF session[i] # NoSession /\ session[i].subject = s
        THEN [session[i] EXCEPT !.open = FALSE] ELSE session[i]]

\* Mutant of RevokeAll: one session stays.
RevokeMost(q) ==
    LET s == req[q].subject
    IN  /\ At(q, "revoke")
        /\ \E k \in SessionIds : session' = [i \in SessionIds |->
            IF i # k /\ session[i] # NoSession /\ session[i].subject = s
            THEN [session[i] EXCEPT !.open = FALSE] ELSE session[i]]
        /\ unrevoked' = unrevoked \ {s}
        /\ IF req[q].stays THEN Go(q, "seen")
           ELSE IF req[q].bars THEN Go(q, "end") ELSE End(q)
        /\ UNCHANGED <<user, account, identity, links, barred, calls>>

\* RevokeAll; a change of password then opens a session for who made it.
RevokeAll(q) ==
    /\ At(q, "revoke")
    /\ EndSessions(req[q].subject)
    /\ unrevoked' = unrevoked \ {req[q].subject}
    /\ IF req[q].stays THEN Go(q, "seen")
       ELSE IF req[q].bars THEN Go(q, "end") ELSE End(q)
    /\ UNCHANGED <<user, account, identity, links, barred, calls>>

-----------------------------------------------------------------------------
(* Barring and removing an account.                                        *)

\* Disable, called by an administrator: an UPDATE, then RevokeAll.
Disable(q) == \E s \in Subjects : account[s] # "none" /\ Begin(q, "bar", s, FALSE, TRUE)

Bar(q) ==
    LET s == req[q].subject
    IN  /\ At(q, "bar")
        /\ account[s] # "none"
        /\ account' = [account EXCEPT ![s] = "disabled"]
        /\ Go(q, "revoke")
        /\ UNCHANGED <<user, identity, links, session, ghosts, calls>>

\* The call returns; bookkeeping of the model.
Barred(q) ==
    LET s == req[q].subject
    IN  /\ At(q, "end")
        /\ barred' = IF account[s] = "disabled" THEN barred \cup {s} ELSE barred
        /\ End(q)
        /\ UNCHANGED <<tables, unrevoked, calls>>

Enable(s) ==
    /\ account[s] = "disabled"
    /\ account' = [account EXCEPT ![s] = "active"]
    /\ barred' = barred \ {s}
    /\ UNCHANGED <<user, identity, links, session, req, unrevoked, calls>>

\* authDelete: the password, or a recent sign-in, confirms.
Leave(q) == \E i \in SessionIds :
    SessionActive(i) /\ Begin(q, "confirm", session[i].subject, FALSE, FALSE)

Confirm(q) ==
    /\ At(q, "confirm")
    /\ Here(req[q].subject)
    /\ Go(q, "delete")
    /\ UNCHANGED <<tables, ghosts, calls>>

\* An administrator deletes without asking.
Remove(q) == \E s \in Subjects : Here(s) /\ Begin(q, "delete", s, FALSE, FALSE)

\* DeleteUserTx.  One transaction: what commits after a statement of it looked stays,
\* as if it had come after the whole.  The row kept for the first account is revoked.
DeleteUser(q) ==
    LET s == req[q].subject
    IN  /\ At(q, "delete")
        /\ Here(s) \/ account[s] # "none"
        /\ user' = IF Here(s) THEN [user EXCEPT ![s].state = "gone"] ELSE user
        /\ account' = [account EXCEPT ![s] = "none"]
        /\ identity' = IF identity = s THEN NoSubject ELSE identity
        /\ links' = [links EXCEPT ![s] = 0]
        /\ EndSessions(s)
        /\ barred' = barred \ {s}
        /\ End(q)
        /\ UNCHANGED <<unrevoked, calls>>

-----------------------------------------------------------------------------

Call(q) == Arrive(q) \/ Forgot(q) \/ Reset(q) \/ Change(q) \/ Disable(q) \/ Leave(q) \/ Remove(q)

Step(q) ==
    \/ \E s \in Subjects : Register(q, s) \/ SignUp(q, s)
    \/ CheckPassword(q) \/ ReadProfile(q) \/ FindIdentity(q) \/ FindAddress(q)
    \/ JoinIdentity(q) \/ Seen(q) \/ Open(q)
    \/ Invalidate(q) \/ Issue(q) \/ ConsumeToken(q) \/ CheckPolicy(q) \/ CheckCurrent(q)
    \/ SetPassword(q) \/ RevokeAll(q)
    \/ Bar(q) \/ Barred(q) \/ Confirm(q) \/ DeleteUser(q)
    \/ Abort(q)

Next ==
    \/ \E q \in Requests : Call(q) \/ Step(q)
    \/ \E i \in SessionIds : Logout(i) \/ Forget(i)
    \/ \E s \in Subjects : Enable(s)

Spec == Init /\ [][Next]_vars

-----------------------------------------------------------------------------

\* "its sessions end now and it cannot sign in or refresh until Enable"
\* (accounts.go:106): once Disable has returned no session of the account passes the
\* check of a request, the ones recorded by sign-ins that were under way included.
BarredIsOut ==
    \A i \in SessionIds : session[i] # NoSession /\ session[i].subject \in barred
        => ~SessionActive(i)

\* "SetPassword replaces a user's password and ends their other sessions"
\* (signin.go:618), and DeleteUser ends them too: an open session rests on the
\* account's present password, unless its sign-in was under way when the password
\* was replaced or the account removed, or RevokeAll never got to run.
SessionsRestOnPassword ==
    \A i \in SessionIds : session[i] # NoSession /\ session[i].open =>
        LET s == session[i].subject
        IN  \/ Here(s) /\ session[i].since = user[s].epoch
            \/ session[i].late
            \/ s \in unrevoked

\* Two callbacks of one provider account, or a callback and a registration, never
\* leave an account nobody can sign in to (signUp's transaction, signin.go:770).
EveryAccountHasAWayIn ==
    \A s \in Subjects : Here(s) => user[s].password \/ identity = s

\* "removes an account and everything the pack keeps about it ... its provider
\* identities" (accounts.go:127): an identity leads to an account.
IdentityLeadsSomewhere == identity # NoSubject => Here(identity)
=============================================================================
