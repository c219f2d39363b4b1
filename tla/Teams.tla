-------------------------------- MODULE Teams --------------------------------
(***************************************************************************)
(* One workspace of packs/auth: its members and their roles (roles.go),    *)
(* its invitations, the routes that change them (teams.go) and the removal *)
(* of an account (accounts.go), as requests that interleave between SQL    *)
(* statements.  Permission checks read committed rows before the           *)
(* transaction; a transaction that demotes or removes holds the            *)
(* workspace's row lock from the check for the last owner to its commit.   *)
(*                                                                         *)
(* No row of one workspace is read for another; a role held in every scope *)
(* is not modelled.  A name, a title or an email's wording is left out; an *)
(* address stands for the account that signs in with it.                   *)
(***************************************************************************)
EXTENDS Integers, FiniteSets

CONSTANTS
    Subjects,
    RoleNames,
    Owner,            \* Teams.Owner
    Grants,           \* Roles: the permissions of each role
    Invites,          \* the invitations there can be
    MaxPending,       \* MaxPendingInvites
    Requests,         \* requests in progress at once
    MaxCalls,         \* bound on requests and calls of the application
    AppCode,          \* "granted_by" of a role the application granted itself
    NoRow,
    Nobody

\* PermMembersInvite, PermMembersManage and PermWorkspaceDelete.
Perms == {"invite", "manage", "delete"}

ASSUME RolesAssumption ==
    /\ Owner \in RoleNames
    /\ Grants \in [RoleNames -> SUBSET Perms]
ASSUME FiniteAssumption == IsFiniteSet(Subjects) /\ MaxPending \in Nat /\ MaxCalls \in Nat
ASSUME NullAssumption ==
    /\ AppCode \notin Subjects /\ NoRow \notin Subjects \cup RoleNames \cup {AppCode}
    /\ Nobody \notin Requests

VARIABLES
    workspace,  \* the row of auth_workspace: "new", "open" or "deleted"
    member,     \* auth_member: who granted a subject a role, or NoRow
    invite,     \* auth_invite
    account,    \* the subjects that have an account
    lock,       \* the request that holds the workspace's row
    inviteLock, \* and the one that holds an invitation's
    req,        \* the requests in progress
    held,       \* the permissions a subject has had at some time
    bypassed,   \* who took an owner away without counting: the application, an account's end
    calls

rows == <<workspace, member, invite, account>>
locks == <<lock, inviteLock>>
vars == <<rows, locks, req, held, bypassed, calls>>

-----------------------------------------------------------------------------

Ops == {"setRole", "remove", "invite", "revokeInvite", "accept", "delete"}

PCs == {"check", "grantable", "lock", "read", "standing", "owners", "apply",
        "count", "replace", "insert", "close", "open", "join", "wipe", "commit"}

Granter == Subjects \cup {AppCode, NoRow}
Members == [Subjects -> [RoleNames -> Granter]]

Unsent == [state |-> "none"]
Invite == [state : {"open", "accepted", "revoked", "deleted"}, expired : BOOLEAN,
           to : Subjects, role : RoleNames, by : Subjects]

\* A request: who acts, on whom, with which role or invitation, and the rows it read.
Idle == [pc |-> "idle"]
Request == [op : Ops, pc : PCs, actor : Subjects, subject : Subjects, role : RoleNames,
            invite : Invites, seen : SUBSET RoleNames, asked : SUBSET (RoleNames \X Perms),
            doomed : Members]

NoMembers == [s \in Subjects |-> [r \in RoleNames |-> NoRow]]

Holds(s, r) == member[s][r] # NoRow
Owners == {s \in Subjects : Holds(s, Owner)}
RowsOf(s) == {r \in RoleNames : Holds(s, r)}

\* Roles.Of and Roles.Can, from the rows of a state.
PermsIn(m, s) == UNION {Grants[r] : r \in {x \in RoleNames : m[s][x] # NoRow}}
Can(s, p) == p \in PermsIn(member, s)

\* t.workspace: a workspace of which the subject is a member.
Sees(s) == workspace = "open" /\ RowsOf(s) # {}

\* Either no workspace yet, or one with an owner who gave the others one role each.
Init ==
    /\ \/ workspace = "new" /\ member = NoMembers
       \/ /\ workspace = "open"
          /\ \E o \in Subjects, f \in [Subjects -> RoleNames \cup {NoRow}] :
              /\ f[o] = Owner
              /\ \A s \in Subjects : f[s] # NoRow => Grants[f[s]] \subseteq Grants[Owner]
              /\ member = [s \in Subjects |-> [r \in RoleNames |->
                            IF f[s] = r THEN o ELSE NoRow]]
    /\ invite = [i \in Invites |-> Unsent]
    /\ account = Subjects
    /\ lock = Nobody
    /\ inviteLock = [i \in Invites |-> Nobody]
    /\ req = [q \in Requests |-> Idle]
    /\ held = [s \in Subjects |-> PermsIn(member, s)]
    /\ bypassed = {}
    /\ calls = 0

Call == calls < MaxCalls /\ calls' = calls + 1

\* Bookkeeping of the model, not of the code.
Remember == held' = [s \in Subjects |-> held[s] \cup PermsIn(member', s)]

At(q, pc) == req[q].pc = pc
Go(q, pc) == req' = [req EXCEPT ![q].pc = pc]
End(q) == req' = [req EXCEPT ![q] = Idle]

\* Ends the request's transaction, giving its locks back.
Release(q) ==
    /\ lock' = IF lock = q THEN Nobody ELSE lock
    /\ inviteLock' = [i \in Invites |-> IF inviteLock[i] = q THEN Nobody ELSE inviteLock[i]]

\* A deletion of the workspace has deleted such a row of the subject, uncommitted: a
\* statement that deletes the row or inserts its like waits.
Doomed(s, roles) ==
    \E q \in Requests, r \in roles :
        At(q, "commit") /\ req[q].doomed[s][r] # NoRow /\ Holds(s, r)

-----------------------------------------------------------------------------
(* Requests of the routes.                                                 *)

\* Fills the place of the invitation in a request that has none.
AnyInvite == CHOOSE i \in Invites : TRUE

\* A signed-in subject calls a route.
Begin(q) ==
    /\ At(q, "idle")
    /\ \E op \in Ops, a \in account, s \in Subjects, r \in RoleNames, i \in Invites :
        /\ op \in {"revokeInvite", "accept", "delete"} => s = a
        /\ op \in {"remove", "revokeInvite", "accept", "delete"} => r = Owner
        /\ op \notin {"revokeInvite", "accept"} => i = AnyInvite
        /\ req' = [req EXCEPT ![q] =
            [op |-> op, pc |-> IF op = "accept" THEN "open" ELSE "check", actor |-> a,
             subject |-> s, role |-> r, invite |-> i, seen |-> {}, asked |-> {},
             doomed |-> NoMembers]]
    /\ Call
    /\ UNCHANGED <<rows, locks, held, bypassed>>

\* workspaceCreate; the id is new with every call, so once is enough.
Create(s) ==
    /\ workspace = "new" /\ s \in account
    /\ workspace' = "open"
    /\ member' = [member EXCEPT ![s][Owner] = s]
    /\ Remember
    /\ Call
    /\ UNCHANGED <<invite, account, locks, req, bypassed>>

\* t.allowed: 404 for a stranger, 403 without the permission.
Allowed(q) ==
    LET a == req[q].actor
        op == req[q].op
    IN  /\ Sees(a)
        /\ op \in {"setRole", "remove"} =>
            \/ Can(a, "manage")
            \/ op = "remove" /\ req[q].subject = a
        /\ op \in {"invite", "revokeInvite"} => Can(a, "invite")
        /\ op = "delete" => Can(a, "delete")

NextPC(op) ==
    CASE op \in {"setRole", "invite"} -> "grantable"
      [] op = "remove" -> "lock"
      [] op = "revokeInvite" -> "close"
      [] OTHER -> "wipe"

Check(q) ==
    /\ At(q, "check")
    /\ IF Allowed(q) THEN Go(q, NextPC(req[q].op)) ELSE End(q)
    /\ UNCHANGED <<rows, locks, held, bypassed, calls>>

\* Mutant of ToAsk: the standing of the one who grants is not looked at.
ToAskNothing(roles) == {}

\* What grantable asks of the actor before roles are given or taken away: every permission
\* each of them grants.
ToAsk(roles) == {ask \in RoleNames \X Perms : ask[1] \in roles /\ ask[2] \in Grants[ask[1]]}

Given(q) == {req[q].role}

\* Taking a role away needs the same standing as granting it.
TakenAway(q) ==
    IF req[q].op = "setRole" THEN req[q].seen \ {req[q].role}
    ELSE IF req[q].actor = req[q].subject THEN {} ELSE req[q].seen

\* A turn of grantable's loop: Can reads the actor's roles for one permission, the next in
\* the order of the roles.
AskNext(q, roles) ==
    LET left == ToAsk(roles) \ req[q].asked
        ask == CHOOSE a \in left : TRUE
    IN  /\ left # {}
        /\ \/ /\ Can(req[q].actor, ask[2])
              /\ req' = [req EXCEPT ![q].asked = @ \cup {ask}]
              /\ UNCHANGED locks
           \/ /\ ~Can(req[q].actor, ask[2])
              /\ Release(q)
              /\ End(q)

Asks(q) ==
    /\ \/ At(q, "grantable") /\ AskNext(q, Given(q))
       \/ At(q, "standing") /\ AskNext(q, TakenAway(q))
    /\ UNCHANGED <<rows, held, bypassed, calls>>

\* The loop is through: the request goes on.
MayGoOn(q, roles, pc) ==
    /\ ToAsk(roles) \subseteq req[q].asked
    /\ req' = [req EXCEPT ![q].pc = pc, ![q].asked = {}]

Grantable(q) ==
    /\ At(q, "grantable")
    /\ MayGoOn(q, Given(q), IF req[q].op = "invite" THEN "count" ELSE "lock")
    /\ UNCHANGED <<rows, locks, held, bypassed, calls>>

\* Mutant of Lock: the transaction does not lock the workspace's row.
LockNothing(q) ==
    /\ At(q, "lock")
    /\ Go(q, "read")
    /\ UNCHANGED <<rows, locks, held, bypassed, calls>>

\* SELECT ... FOR UPDATE of the workspace; no row, no lock, and no error.
Lock(q) ==
    /\ At(q, "lock")
    /\ lock = Nobody
    /\ lock' = IF workspace = "open" THEN q ELSE lock
    /\ Go(q, "read")
    /\ UNCHANGED <<rows, inviteLock, held, bypassed, calls>>

\* A refusal rolls back, and so does a dead process, a cancelled request, a deadlock.
Abort(q) ==
    /\ ~At(q, "idle")
    /\ Release(q)
    /\ End(q)
    /\ UNCHANGED <<rows, held, bypassed, calls>>

\* The subject's roles; "no such member" rolls back.
ReadRoles(q) ==
    /\ At(q, "read")
    /\ RowsOf(req[q].subject) # {}
    /\ req' = [req EXCEPT ![q].pc = "standing", ![q].seen = RowsOf(req[q].subject)]
    /\ UNCHANGED <<rows, locks, held, bypassed, calls>>

Standing(q) ==
    /\ At(q, "standing")
    /\ MayGoOn(q, TakenAway(q), "owners")
    /\ UNCHANGED <<rows, locks, held, bypassed, calls>>

TakesOwner(q) ==
    Owner \in req[q].seen /\ (req[q].op = "setRole" => req[q].role # Owner)

\* The last owner cannot leave, be removed or be demoted.
CountOwners(q) ==
    /\ At(q, "owners")
    /\ TakesOwner(q) => Cardinality(Owners) > 1
    /\ Go(q, "apply")
    /\ UNCHANGED <<rows, locks, held, bypassed, calls>>

\* DELETE of every row of the subject, INSERT of the new one, COMMIT.
Apply(q) ==
    LET s == req[q].subject
    IN  /\ At(q, "apply")
        /\ ~Doomed(s, RoleNames)
        /\ member' = [member EXCEPT ![s] = [r \in RoleNames |->
                        IF req[q].op = "setRole" /\ r = req[q].role
                        THEN req[q].actor ELSE NoRow]]
        /\ Remember
        /\ Release(q)
        /\ End(q)
        /\ UNCHANGED <<workspace, invite, account, bypassed, calls>>

-----------------------------------------------------------------------------
(* Invitations.                                                            *)

IsOpen(i) == invite[i].state = "open" /\ ~invite[i].expired
Pending == {i \in Invites : IsOpen(i)}

CountPending(q) ==
    /\ At(q, "count")
    /\ Cardinality(Pending) < MaxPending
    /\ Go(q, "replace")
    /\ UNCHANGED <<rows, locks, held, bypassed, calls>>

\* A new invitation to the same address replaces an open one.  The statement waits
\* for a row that is being accepted.
Replace(q) ==
    LET same == {i \in Invites : invite[i].state = "open" /\ invite[i].to = req[q].subject}
    IN  /\ At(q, "replace")
        /\ \A i \in same : inviteLock[i] = Nobody
        /\ invite' = [i \in Invites |->
            IF i \in same THEN [invite[i] EXCEPT !.state = "revoked"] ELSE invite[i]]
        /\ Go(q, "insert")
        /\ UNCHANGED <<workspace, member, account, locks, held, bypassed, calls>>

\* The workspace may be gone by now: nothing refers to its row.
InsertInvite(q) ==
    /\ At(q, "insert")
    /\ \E i \in Invites :
        /\ invite[i].state = "none"
        /\ invite' = [invite EXCEPT ![i] = [state |-> "open", expired |-> FALSE,
            to |-> req[q].subject, role |-> req[q].role, by |-> req[q].actor]]
    /\ End(q)
    /\ UNCHANGED <<workspace, member, account, locks, held, bypassed, calls>>

RevokeInvite(q) ==
    LET i == req[q].invite
    IN  /\ At(q, "close")
        /\ inviteLock[i] = Nobody
        /\ invite' = IF invite[i].state = "open"
                     THEN [invite EXCEPT ![i].state = "revoked"] ELSE invite
        /\ End(q)
        /\ UNCHANGED <<workspace, member, account, locks, held, bypassed, calls>>

Expire(i) ==
    /\ IsOpen(i)
    /\ invite' = [invite EXCEPT ![i].expired = TRUE]
    /\ UNCHANGED <<workspace, member, account, locks, req, held, bypassed, calls>>

\* Mutant of OpenInvite: openInvite without FOR UPDATE.
OpenInviteUnlocked(q) ==
    /\ At(q, "open")
    /\ IsOpen(req[q].invite) /\ invite[req[q].invite].to = req[q].actor
    /\ Go(q, "join")
    /\ UNCHANGED <<rows, locks, held, bypassed, calls>>

\* openInvite locks the invitation; it must be for the address of the account.
OpenInvite(q) ==
    LET i == req[q].invite
    IN  /\ At(q, "open")
        /\ inviteLock[i] = Nobody
        /\ IsOpen(i) /\ invite[i].to = req[q].actor
        /\ inviteLock' = [inviteLock EXCEPT ![i] = q]
        /\ Go(q, "join")
        /\ UNCHANGED <<rows, lock, held, bypassed, calls>>

\* The invitation accepted and the member inserted (ON CONFLICT DO NOTHING), COMMIT.
Join(q) ==
    LET i == req[q].invite
        s == req[q].actor
        r == invite[i].role
    IN  /\ At(q, "join")
        /\ ~Doomed(s, {r})
        /\ invite' = [invite EXCEPT ![i].state = "accepted"]
        /\ member' = IF Holds(s, r) THEN member ELSE [member EXCEPT ![s][r] = invite[i].by]
        /\ Remember
        /\ Release(q)
        /\ End(q)
        /\ UNCHANGED <<workspace, account, bypassed, calls>>

-----------------------------------------------------------------------------
(* The end of a workspace and of an account, and the application's calls.  *)

\* workspaceDelete: DELETE FROM auth_member sees the rows committed by now, ...
Wipe(q) ==
    /\ At(q, "wipe")
    /\ \A p \in Requests : ~At(p, "commit")
    /\ req' = [req EXCEPT ![q].pc = "commit", ![q].doomed = member]
    /\ UNCHANGED <<rows, locks, held, bypassed, calls>>

\* ... then the invitations and the workspace go, past whoever has locked them.
CommitDelete(q) ==
    /\ At(q, "commit")
    /\ lock = Nobody
    /\ \A i \in Invites : inviteLock[i] = Nobody
    /\ member' = [s \in Subjects |-> [r \in RoleNames |->
                    IF req[q].doomed[s][r] # NoRow THEN NoRow ELSE member[s][r]]]
    /\ invite' = [i \in Invites |-> IF invite[i].state = "none" THEN invite[i]
                                    ELSE [invite[i] EXCEPT !.state = "deleted"]]
    /\ workspace' = "deleted"
    /\ Remember
    /\ End(q)
    /\ UNCHANGED <<account, locks, bypassed, calls>>

\* A statement that takes rows away without a look at the owners.
TakeAway(s, roles, who) ==
    /\ ~Doomed(s, roles)
    /\ member' = [member EXCEPT ![s] = [r \in RoleNames |->
                    IF r \in roles THEN NoRow ELSE member[s][r]]]
    /\ bypassed' = bypassed \cup IF Owner \in roles /\ Holds(s, Owner) THEN {who} ELSE {}
    /\ Remember
    /\ Call
    /\ UNCHANGED <<workspace, invite, locks, req>>

\* Roles.Revoke and Roles.RevokeAll, called by the application.
Revoke(s) ==
    /\ \E roles \in {{r} : r \in RoleNames} \cup {RoleNames} : TakeAway(s, roles, "app")
    /\ UNCHANGED account

\* Roles.Grant: idempotent, and the granter's standing is the application's business.
Grant(s, r) ==
    /\ ~Holds(s, r)
    /\ member' = [member EXCEPT ![s][r] = AppCode]
    /\ Remember
    /\ Call
    /\ UNCHANGED <<workspace, invite, account, locks, req, bypassed>>

\* DeleteUserTx: everything the pack keeps about the subject, its memberships too.
DeleteUser(s) ==
    /\ s \in account
    /\ TakeAway(s, RoleNames, "account")
    /\ account' = account \ {s}

Step(q) ==
    \/ Begin(q) \/ Check(q) \/ Asks(q) \/ Grantable(q) \/ Lock(q) \/ ReadRoles(q) \/ Standing(q)
    \/ CountOwners(q) \/ Apply(q) \/ CountPending(q) \/ Replace(q) \/ InsertInvite(q)
    \/ RevokeInvite(q) \/ OpenInvite(q) \/ Join(q) \/ Wipe(q) \/ CommitDelete(q)
    \/ Abort(q)

Next ==
    \/ \E q \in Requests : Step(q)
    \/ \E s \in Subjects : Create(s) \/ Revoke(s) \/ DeleteUser(s)
    \/ \E s \in Subjects, r \in RoleNames : Grant(s, r)
    \/ \E i \in Invites : Expire(i)

Spec == Init /\ [][Next]_vars

-----------------------------------------------------------------------------

TypeOK ==
    /\ workspace \in {"new", "open", "deleted"}
    /\ member \in Members
    /\ invite \in [Invites -> Invite \cup {Unsent}]
    /\ account \in SUBSET Subjects
    /\ lock \in Requests \cup {Nobody}
    /\ inviteLock \in [Invites -> Requests \cup {Nobody}]
    /\ req \in [Requests -> Request \cup {Idle}]
    /\ held \in [Subjects -> SUBSET Perms]
    /\ bypassed \in SUBSET {"app", "account"}
    /\ calls \in 0..MaxCalls

\* "two demotions at once cannot both pass the last-owner check" (teams.go:558): no
\* order of demotions, removals, departures, invitations and grants leaves a workspace
\* without an owner; only Revoke and the removal of an account may.
OwnerKept == workspace = "open" /\ bypassed = {} => Owners # {}

\* "A role is granted only by someone holding every permission it grants"
\* (teams.go:42): whoever a membership names as its granter did hold them, however
\* many requests, demotions and invitations lie between the check and the row.
GrantersHadIt ==
    \A s \in Subjects, r \in RoleNames :
        member[s][r] \in Subjects => Grants[r] \subseteq held[member[s][r]]

\* An invitation that was accepted or revoked is never accepted again, whichever
\* requests had found it open before (openInvite's row lock, teams.go:823): it is not
\* opened again, and a membership comes of one that is open, not of one accepted before.
ClosedStaysClosed ==
    [][/\ \A i \in Invites : invite[i].state \in {"accepted", "revoked", "deleted"} =>
            invite'[i].state \in {invite[i].state, "deleted"}
       /\ \A q \in Requests : At(q, "join") /\ ~At(q, "join")' /\ member' # member =>
            invite[req[q].invite].state = "open"]_vars

\* "the last owner of a workspace cannot leave, be removed or be demoted" (teams.go:43),
\* whatever its members do to it and to their own accounts.
LastOwnerStays == workspace = "open" /\ "app" \notin bypassed => Owners # {}
=============================================================================
