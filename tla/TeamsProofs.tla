----------------------------- MODULE TeamsProofs -----------------------------
(***************************************************************************)
(* What Teams promises for any number of members, roles, invitations and   *)
(* requests.  The invariant says of each request what it may rely on at    *)
(* its step: the workspace's lock, an owner besides the member it is about *)
(* to demote, the permissions its actor had, the invitation it has locked. *)
(***************************************************************************)
EXTENDS Teams, FiniteSetTheorems, TLAPS

Types ==
    /\ workspace \in {"new", "open", "deleted"}
    /\ member \in Members
    /\ invite \in [Invites -> Invite \cup {Unsent}]
    /\ lock \in Requests \cup {Nobody}
    /\ inviteLock \in [Invites -> Requests \cup {Nobody}]
    /\ held \in [Subjects -> SUBSET Perms]
    /\ account \subseteq Subjects
    /\ req \in [Requests -> Request \cup {Idle}]

\* The permissions ever held: those held now, those behind a membership and those behind
\* an invitation.
HeldNow == \A s \in Subjects : PermsIn(member, s) \subseteq held[s]
InvitersHadIt == \A i \in Invites :
    invite[i].state # "none" => Grants[invite[i].role] \subseteq held[invite[i].by]

\* Nobody is counted out: an owner besides s.
OtherOwner(s) == \E o \in Subjects : o # s /\ Holds(o, Owner)
Demoting == {"standing", "owners", "apply"}
Sure(f) ==
    /\ f.pc \in {"standing", "owners"} /\ Owner \notin f.seen => OtherOwner(f.subject)
    /\ f.pc = "apply" => OtherOwner(f.subject) \/ (f.op = "setRole" /\ f.role = Owner)

\* What request q may rely on, f being where it is.
May(q, f) ==
    /\ f.pc \notin {"idle", "check", "open", "join"} => workspace # "new"
    /\ f.pc \in {"read"} \cup Demoting => lock = q \/ workspace = "deleted"
    /\ workspace = "open" /\ bypassed = {} => Sure(f)
    /\ f.pc \in {"count", "replace", "insert"} => Grants[f.role] \subseteq held[f.actor]
    /\ f.pc \in {"lock", "read"} \cup Demoting /\ f.op = "setRole" =>
            Grants[f.role] \subseteq held[f.actor]
    /\ f.pc = "join" => inviteLock[f.invite] = q /\ invite[f.invite].state = "open"
    /\ f.pc = "check" => f.asked = {}
    /\ f.pc = "grantable" => \A ask \in f.asked : ask[2] \in held[f.actor]

TablesInv == OwnerKept /\ HeldNow /\ GrantersHadIt /\ InvitersHadIt
RequestsInv == \A q \in Requests : May(q, req[q])
IInv == Types /\ TablesInv /\ RequestsInv

-----------------------------------------------------------------------------

LEMMA Perm ==
    \A m, s : \A r \in RoleNames : m[s][r] # NoRow => Grants[r] \subseteq PermsIn(m, s)
  BY DEF PermsIn

LEMMA PermsTyped == \A m, s : PermsIn(m, s) \subseteq Perms
  BY RolesAssumption DEF PermsIn

LEMMA InitHolds == Init => IInv
<1> SUFFICES ASSUME Init PROVE IInv
  OBVIOUS
<1>1. member \in Members /\ HeldNow
  <2>1. CASE workspace = "new" /\ member = NoMembers
    BY <2>1 DEF Init, HeldNow, Members, NoMembers, Granter
  <2>2. CASE workspace = "open"
    BY <2>2 DEF Init, HeldNow, Members, Granter
  <2>3. QED
    BY <2>1, <2>2 DEF Init
<1>2. OwnerKept /\ GrantersHadIt
  <2>1. CASE workspace = "new" /\ member = NoMembers
    BY <2>1, NullAssumption DEF OwnerKept, GrantersHadIt, NoMembers
  <2>2. CASE /\ workspace = "open"
             /\ \E o \in Subjects, f \in [Subjects -> RoleNames \cup {NoRow}] :
                  /\ f[o] = Owner
                  /\ \A s \in Subjects : f[s] # NoRow => Grants[f[s]] \subseteq Grants[Owner]
                  /\ member = [s \in Subjects |-> [r \in RoleNames |->
                                IF f[s] = r THEN o ELSE NoRow]]
    <3>1. PICK o \in Subjects, f \in [Subjects -> RoleNames \cup {NoRow}] :
            /\ f[o] = Owner
            /\ \A s \in Subjects : f[s] # NoRow => Grants[f[s]] \subseteq Grants[Owner]
            /\ member = [s \in Subjects |-> [r \in RoleNames |-> IF f[s] = r THEN o ELSE NoRow]]
      BY <2>2
    <3>2. o \in Owners /\ Grants[Owner] \subseteq held[o]
      <4>1. member[o][Owner] = o /\ o # NoRow
        BY <3>1, RolesAssumption, NullAssumption
      <4>2. QED
        BY <1>1, <4>1, Perm, RolesAssumption DEF Owners, Holds, HeldNow
    <3>3. ASSUME NEW s \in Subjects, NEW r \in RoleNames, member[s][r] \in Subjects
          PROVE  Grants[r] \subseteq held[member[s][r]]
      <4>1. f[s] = r /\ member[s][r] = o
        BY <3>1, <3>3, NullAssumption
      <4>2. QED
        BY <4>1, <3>1, <3>2, NullAssumption
    <3>4. QED
      BY <3>2, <3>3 DEF OwnerKept, GrantersHadIt
  <2>3. QED
    BY <2>1, <2>2 DEF Init
<1>3. Types
  BY <1>1, PermsTyped DEF Init, Types, Unsent
<1>4. InvitersHadIt /\ RequestsInv
  BY DEF Init, InvitersHadIt, RequestsInv, May, Sure, Unsent, Idle, Demoting
<1>5. QED
  BY <1>1, <1>2, <1>3, <1>4 DEF IInv, TablesInv

-----------------------------------------------------------------------------
(* A request that goes on, and the others.                                 *)

LEMMA Busy ==
    ASSUME Types, NEW q \in Requests, req[q].pc # "idle"
    PROVE  req[q] \in Request
<1>1. req[q] \in Request \cup {Idle}
  BY DEF Types
<1>2. QED
  BY <1>1 DEF Idle

LEMMA IdleMay == \A q : May(q, Idle)
  BY DEF May, Sure, Idle, Demoting

\* What a request relies on stays, as long as a step keeps the locks, the permissions
\* held, and the owners while the request counts on them.
LEMMA StillMay ==
    ASSUME IInv, NEW p \in Requests, req'[p] = req[p],
           workspace' = "new" => workspace = "new",
           workspace = "deleted" => workspace' = "deleted",
           lock = p => lock' = p,
           \A i \in Invites : inviteLock[i] = p /\ invite[i].state = "open"
                => inviteLock'[i] = p /\ invite'[i].state = "open",
           \A s \in Subjects : held[s] \subseteq held'[s],
           workspace' = "open" /\ bypassed' = {} =>
                \/ req[p].pc \notin Demoting
                \/ /\ workspace = "open" /\ bypassed = {}
                   /\ \A o \in Subjects : Holds(o, Owner) => Holds(o, Owner)'
    PROVE  May(p, req[p])'
<1>1. CASE req[p].pc = "idle"
  BY <1>1 DEF May, Sure, Demoting
<1>2. CASE req[p].pc # "idle"
  <2>1. req[p] \in Request /\ req[p].actor \in Subjects /\ req[p].invite \in Invites
    BY <1>2, Busy DEF IInv, Request
  <2>2. May(p, req[p])
    BY DEF IInv, RequestsInv
  <2>3. workspace' = "open" /\ bypassed' = {} => Sure(req[p])'
    <3>1. CASE req[p].pc \notin Demoting
      BY <3>1 DEF Sure, Demoting
    <3>2. CASE req[p].pc \in Demoting
      BY <2>2, <3>2 DEF May, Sure, OtherOwner
    <3>3. QED
      BY <3>1, <3>2
  <2>4. req[p].pc = "join" =>
            inviteLock'[req[p].invite] = p /\ invite'[req[p].invite].state = "open"
    BY <2>1, <2>2 DEF May
  <2>5. /\ req[p].pc \in {"count", "replace", "insert"} =>
                Grants[req[p].role] \subseteq held'[req[p].actor]
        /\ req[p].pc \in {"lock", "read"} \cup Demoting /\ req[p].op = "setRole" =>
                Grants[req[p].role] \subseteq held'[req[p].actor]
    BY <2>1, <2>2 DEF May
  <2>6. /\ req[p].pc \notin {"idle", "check", "open", "join"} => workspace' # "new"
        /\ req[p].pc \in {"read"} \cup Demoting => lock' = p \/ workspace' = "deleted"
    BY <2>2 DEF May
  <2>7. /\ req[p].pc = "check" => req[p].asked = {}
        /\ req[p].pc = "grantable" => \A ask \in req[p].asked : ask[2] \in held'[req[p].actor]
    BY <2>1, <2>2 DEF May
  <2>8. QED
    BY <2>3, <2>4, <2>5, <2>6, <2>7 DEF May
<1>3. QED
  BY <1>1, <1>2

\* A step of q that leaves the rows alone.
LEMMA OnlyRequest ==
    ASSUME IInv, NEW q \in Requests, NEW f \in Request \cup {Idle},
           req' = [req EXCEPT ![q] = f], UNCHANGED <<rows, held, bypassed>>,
           lock' \in Requests \cup {Nobody}, \A p \in Requests \ {q} : lock = p => lock' = p,
           inviteLock' \in [Invites -> Requests \cup {Nobody}],
           \A p \in Requests \ {q}, i \in Invites : inviteLock[i] = p => inviteLock'[i] = p,
           May(q, f)'
    PROVE  IInv'
<1>1. /\ req' \in [Requests -> Request \cup {Idle}] /\ req'[q] = f
      /\ \A p \in Requests \ {q} : req'[p] = req[p]
  BY DEF IInv, Types
<1>2. Types'
  BY <1>1 DEF IInv, Types, rows
<1>3. TablesInv'
  BY DEF IInv, TablesInv, OwnerKept, Owners, Holds, HeldNow, GrantersHadIt, InvitersHadIt, rows, PermsIn
<1>4. ASSUME NEW p \in Requests PROVE May(p, req[p])'
  <2>1. CASE p = q
    BY <1>1, <2>1 DEF May, Sure, OtherOwner
  <2>2. CASE p # q
    BY <1>1, <2>2, StillMay DEF rows, Holds
  <2>3. QED
    BY <2>1, <2>2
<1>5. QED
  BY <1>2, <1>3, <1>4 DEF IInv, RequestsInv

-----------------------------------------------------------------------------
(* The steps of a request that change no row.                              *)

LEMMA MovedOn ==
    ASSUME IInv, NEW q \in Requests, NEW pc \in PCs, req[q].pc # "idle", Go(q, pc)
    PROVE  /\ req[q] \in Request /\ May(q, req[q])
           /\ \E f \in Request :
                /\ f.pc = pc /\ f.op = req[q].op /\ f.actor = req[q].actor
                /\ f.subject = req[q].subject /\ f.role = req[q].role
                /\ f.invite = req[q].invite /\ f.seen = req[q].seen
                /\ f.asked = req[q].asked
                /\ req' = [req EXCEPT ![q] = f]
<1>1. req[q] \in Request /\ May(q, req[q])
  BY Busy DEF IInv, RequestsInv
<1>2. [req[q] EXCEPT !.pc = pc] \in Request
  BY <1>1 DEF Request
<1>3. req' = [req EXCEPT ![q] = [req[q] EXCEPT !.pc = pc]]
  BY DEF Go
<1>4. QED
  BY <1>1, <1>2, <1>3 DEF Request

LEMMA BeginHolds == ASSUME IInv, NEW q \in Requests, Begin(q) PROVE IInv'
<1>1. PICK op \in Ops, a \in account, s \in Subjects, r \in RoleNames, i \in Invites :
        /\ op \in {"revokeInvite", "accept", "delete"} => s = a
        /\ op \in {"remove", "revokeInvite", "accept", "delete"} => r = Owner
        /\ op \notin {"revokeInvite", "accept"} => i = AnyInvite
        /\ req' = [req EXCEPT ![q] =
            [op |-> op, pc |-> IF op = "accept" THEN "open" ELSE "check", actor |-> a,
             subject |-> s, role |-> r, invite |-> i, seen |-> {}, asked |-> {},
             doomed |-> NoMembers]]
  BY DEF Begin
<1>2. PICK f : f = [op |-> op, pc |-> IF op = "accept" THEN "open" ELSE "check", actor |-> a,
             subject |-> s, role |-> r, invite |-> i, seen |-> {}, asked |-> {},
             doomed |-> NoMembers]
  OBVIOUS
<1>3. f \in Request /\ f.pc \in {"open", "check"} /\ f.asked = {}
  <2>1. NoMembers \in Members /\ a \in Subjects
    BY DEF NoMembers, Members, Granter, IInv, Types
  <2>2. QED
    BY <1>2, <2>1 DEF Request, PCs
<1>4. May(q, f)'
  BY <1>3 DEF May, Sure, Demoting
<1>5. UNCHANGED <<rows, held, bypassed, lock, inviteLock>>
  BY DEF Begin, locks
<1>6. QED
  BY <1>1, <1>2, <1>3, <1>4, <1>5, OnlyRequest DEF IInv, Types

\* A request that ends.
LEMMA Ended ==
    ASSUME IInv, NEW q \in Requests, End(q), UNCHANGED <<rows, held, bypassed>>,
           Release(q) \/ UNCHANGED locks
    PROVE  IInv'
<1>1. req' = [req EXCEPT ![q] = Idle] /\ May(q, Idle)'
  BY DEF End, May, Sure, Idle, Demoting
<1>2. /\ lock' \in Requests \cup {Nobody}
      /\ \A p \in Requests \ {q} : lock = p => lock' = p
      /\ inviteLock' \in [Invites -> Requests \cup {Nobody}]
      /\ \A p \in Requests \ {q}, i \in Invites : inviteLock[i] = p => inviteLock'[i] = p
  BY DEF Release, locks, IInv, Types
<1>3. QED
  BY <1>1, <1>2, OnlyRequest

LEMMA CheckHolds == ASSUME IInv, NEW q \in Requests, Check(q) PROVE IInv'
<1>1. CASE ~Allowed(q)
  BY <1>1, Ended DEF Check, End, Go
<1>2. CASE Allowed(q)
  <2>1. req[q].pc = "check" /\ Go(q, NextPC(req[q].op)) /\ workspace' = "open"
    BY <1>2 DEF Check, At, Allowed, Sees, rows
  <2>2. PICK pc : pc = NextPC(req[q].op)
    OBVIOUS
  <2>3. /\ pc \in {"grantable", "lock", "close", "wipe"}
        /\ pc = "lock" => req[q].op # "setRole"
    BY <2>2 DEF NextPC
  <2>4. PICK f \in Request : /\ f.pc = pc /\ f.op = req[q].op /\ f.asked = {}
                             /\ req' = [req EXCEPT ![q] = f]
    BY <2>1, <2>2, <2>3, MovedOn DEF PCs, May
  <2>5. May(q, f)'
    BY <2>1, <2>3, <2>4 DEF May, Sure, Demoting
  <2>6. QED
    BY <2>4, <2>5, OnlyRequest DEF Check, locks, IInv, Types
<1>3. QED
  BY <1>1, <1>2

\* One question of the loop: a permission the actor has, or the end of the request.
LEMMA AsksHolds == ASSUME IInv, NEW q \in Requests, Asks(q) PROVE IInv'
<1>1. PICK roles : /\ AskNext(q, roles)
                   /\ req[q].pc \in {"grantable", "standing"}
  BY DEF Asks, At
<1>2. UNCHANGED <<rows, held, bypassed>>
  BY DEF Asks
<1>3. req[q] \in Request /\ May(q, req[q])
  BY <1>1, Busy DEF IInv, RequestsInv
<1>4. PICK ask : ask = CHOOSE a \in ToAsk(roles) \ req[q].asked : TRUE
  OBVIOUS
<1>5. ask \in RoleNames \X Perms
  BY <1>1, <1>4 DEF AskNext, ToAsk
<1>6. CASE Can(req[q].actor, ask[2])
  <2>1. req' = [req EXCEPT ![q] = [req[q] EXCEPT !.asked = @ \cup {ask}]] /\ UNCHANGED locks
    BY <1>1, <1>4, <1>6 DEF AskNext
  <2>2. PICK f : f = [req[q] EXCEPT !.asked = @ \cup {ask}]
    OBVIOUS
  <2>3. /\ f \in Request /\ f.pc = req[q].pc /\ f.op = req[q].op /\ f.actor = req[q].actor
        /\ f.role = req[q].role /\ f.subject = req[q].subject /\ f.seen = req[q].seen
        /\ f.asked = req[q].asked \cup {ask}
    BY <1>3, <1>5, <2>2 DEF Request
  <2>4. ask[2] \in held'[f.actor]
    BY <1>2, <1>3, <1>6, <2>3 DEF Can, IInv, TablesInv, HeldNow, Request
  <2>5. workspace' = "open" /\ bypassed' = {} => Sure(f)'
    BY <1>1, <1>2, <1>3, <2>3 DEF May, Sure, OtherOwner, Holds, rows
  <2>6. May(q, f)'
    BY <1>1, <1>2, <1>3, <2>1, <2>3, <2>4, <2>5 DEF May, Demoting, rows, locks
  <2>7. QED
    BY <1>2, <2>1, <2>2, <2>3, <2>6, OnlyRequest DEF locks, IInv, Types
<1>7. CASE ~Can(req[q].actor, ask[2])
  BY <1>1, <1>2, <1>4, <1>7, Ended DEF AskNext
<1>8. QED
  BY <1>6, <1>7

\* The loop is through: the request is at its next step.
LEMMA WentOn ==
    ASSUME IInv, NEW q \in Requests, NEW roles, NEW pc \in PCs, req[q].pc # "idle",
           MayGoOn(q, roles, pc)
    PROVE  /\ req[q] \in Request /\ May(q, req[q])
           /\ ToAsk(roles) \subseteq req[q].asked
           /\ \E f \in Request :
                /\ f.pc = pc /\ f.op = req[q].op /\ f.actor = req[q].actor
                /\ f.subject = req[q].subject /\ f.role = req[q].role
                /\ f.seen = req[q].seen
                /\ req' = [req EXCEPT ![q] = f]
<1>1. req[q] \in Request /\ May(q, req[q])
  BY Busy DEF IInv, RequestsInv
<1>2. [req[q] EXCEPT !.pc = pc, !.asked = {}] \in Request
  BY <1>1 DEF Request
<1>3. req' = [req EXCEPT ![q] = [req[q] EXCEPT !.pc = pc, !.asked = {}]]
  BY DEF MayGoOn
<1>4. QED
  BY <1>1, <1>2, <1>3 DEF Request, MayGoOn

LEMMA GrantableHolds == ASSUME IInv, NEW q \in Requests, Grantable(q) PROVE IInv'
<1>1. PICK pc : pc = IF req[q].op = "invite" THEN "count" ELSE "lock"
  OBVIOUS
<1>2. req[q].pc = "grantable" /\ MayGoOn(q, Given(q), pc) /\ pc \in {"count", "lock"}
  BY <1>1 DEF Grantable, At
<1>3. /\ req[q] \in Request /\ May(q, req[q])
      /\ ToAsk(Given(q)) \subseteq req[q].asked
  BY <1>2, WentOn DEF PCs
<1>4. PICK f \in Request : /\ f.pc = pc /\ f.op = req[q].op /\ f.actor = req[q].actor
                           /\ f.role = req[q].role /\ req' = [req EXCEPT ![q] = f]
  BY <1>2, WentOn DEF PCs
<1>5. workspace' # "new" /\ Grants[f.role] \subseteq held'[f.actor]
  <2>1. ASSUME NEW p \in Grants[req[q].role] PROVE p \in held[req[q].actor]
    <3>1. << req[q].role, p >> \in ToAsk(Given(q))
      BY <1>3, <2>1, RolesAssumption DEF ToAsk, Given, Request
    <3>2. QED
      BY <1>2, <1>3, <3>1 DEF May
  <2>2. QED
    BY <1>2, <1>3, <1>4, <2>1 DEF May, Grantable, rows
<1>6. May(q, f)'
  BY <1>2, <1>4, <1>5 DEF May, Sure, Demoting
<1>7. QED
  BY <1>4, <1>6, OnlyRequest DEF Grantable, locks, IInv, Types

LEMMA LockHolds == ASSUME IInv, NEW q \in Requests, Lock(q) PROVE IInv'
<1>1. req[q].pc = "lock" /\ Go(q, "read") /\ May(q, req[q])
  BY MovedOn DEF Lock, At, PCs
<1>2. PICK f \in Request : /\ f.pc = "read" /\ f.op = req[q].op /\ f.actor = req[q].actor
                           /\ f.role = req[q].role /\ req' = [req EXCEPT ![q] = f]
  BY <1>1, MovedOn DEF PCs
<1>3. lock' = q \/ workspace' = "deleted"
  BY <1>1 DEF Lock, May, rows, IInv, Types
<1>4. May(q, f)'
  BY <1>1, <1>2, <1>3 DEF Lock, May, Sure, Demoting, rows
<1>5. QED
  BY <1>2, <1>4, OnlyRequest, NullAssumption DEF Lock, IInv, Types

LEMMA ReadRolesHolds == ASSUME IInv, NEW q \in Requests, ReadRoles(q) PROVE IInv'
<1>1. req[q].pc = "read" /\ req[q] \in Request /\ May(q, req[q])
  BY Busy DEF ReadRoles, At, IInv, RequestsInv
<1>2. PICK f : f = [req[q] EXCEPT !.pc = "standing", !.seen = RowsOf(req[q].subject)]
  OBVIOUS
<1>3. /\ f \in Request /\ f.pc = "standing" /\ f.op = req[q].op /\ f.actor = req[q].actor
      /\ f.role = req[q].role /\ f.subject = req[q].subject /\ f.seen = RowsOf(f.subject)
      /\ req' = [req EXCEPT ![q] = f]
  BY <1>1, <1>2 DEF ReadRoles, Request, RowsOf, PCs
<1>4. workspace = "open" /\ bypassed = {} /\ Owner \notin f.seen => OtherOwner(f.subject)
  BY <1>3, RolesAssumption
  DEF IInv, TablesInv, OwnerKept, Owners, OtherOwner, RowsOf
<1>5. workspace' = "open" /\ bypassed' = {} => Sure(f)'
  BY <1>3, <1>4 DEF ReadRoles, Sure, OtherOwner, Holds, rows
<1>6. May(q, f)'
  BY <1>1, <1>3, <1>5 DEF ReadRoles, May, Demoting, rows, locks
<1>7. QED
  BY <1>3, <1>6, OnlyRequest DEF ReadRoles, locks, IInv, Types

LEMMA StandingHolds == ASSUME IInv, NEW q \in Requests, Standing(q) PROVE IInv'
<1>1. req[q].pc = "standing" /\ MayGoOn(q, TakenAway(q), "owners") /\ May(q, req[q])
  BY WentOn DEF Standing, At, PCs
<1>2. PICK f \in Request : /\ f.pc = "owners" /\ f.op = req[q].op /\ f.actor = req[q].actor
                           /\ f.role = req[q].role /\ f.subject = req[q].subject
                           /\ f.seen = req[q].seen /\ req' = [req EXCEPT ![q] = f]
  BY <1>1, WentOn DEF PCs
<1>3. workspace' = "open" /\ bypassed' = {} => Sure(f)'
  BY <1>1, <1>2 DEF Standing, May, Sure, OtherOwner, Holds, rows
<1>4. May(q, f)'
  BY <1>1, <1>2, <1>3 DEF Standing, May, Demoting, rows, locks
<1>5. QED
  BY <1>2, <1>4, OnlyRequest DEF Standing, locks, IInv, Types

\* More than one owner: whoever s is, there is another.
LEMMA Another ==
    ASSUME Cardinality(Owners) > 1, NEW s \in Subjects
    PROVE  OtherOwner(s)
<1> SUFFICES ASSUME ~OtherOwner(s) PROVE FALSE
  OBVIOUS
<1>1. Owners \subseteq {s}
  BY DEF Owners, OtherOwner
<1>2. Cardinality({s}) = 1 /\ IsFiniteSet({s})
  BY FS_Singleton
<1>3. Cardinality(Owners) <= 1 /\ Cardinality(Owners) \in Nat
  BY <1>1, <1>2, FS_Subset, FS_CardinalityType
<1>4. QED
  BY <1>3

LEMMA CountOwnersHolds == ASSUME IInv, NEW q \in Requests, CountOwners(q) PROVE IInv'
<1>1. req[q].pc = "owners" /\ Go(q, "apply") /\ May(q, req[q]) /\ req[q] \in Request
  BY MovedOn DEF CountOwners, At, PCs
<1>2. PICK f \in Request : /\ f.pc = "apply" /\ f.op = req[q].op /\ f.actor = req[q].actor
                           /\ f.role = req[q].role /\ f.subject = req[q].subject
                           /\ f.seen = req[q].seen /\ req' = [req EXCEPT ![q] = f]
  BY <1>1, MovedOn DEF PCs
<1>3. workspace = "open" /\ bypassed = {} =>
            OtherOwner(f.subject) \/ (f.op = "setRole" /\ f.role = Owner)
  <2>1. CASE TakesOwner(q)
    BY <1>1, <1>2, <2>1, Another DEF CountOwners, Request
  <2>2. CASE Owner \notin req[q].seen
    BY <1>1, <1>2, <2>2 DEF May, Sure
  <2>3. QED
    BY <1>2, <2>1, <2>2 DEF TakesOwner
<1>4. workspace' = "open" /\ bypassed' = {} => Sure(f)'
  BY <1>2, <1>3 DEF CountOwners, Sure, OtherOwner, Holds, rows
<1>5. May(q, f)'
  BY <1>1, <1>2, <1>4 DEF CountOwners, May, Demoting, rows, locks
<1>6. QED
  BY <1>2, <1>5, OnlyRequest DEF CountOwners, locks, IInv, Types

LEMMA CountPendingHolds == ASSUME IInv, NEW q \in Requests, CountPending(q) PROVE IInv'
<1>1. req[q].pc = "count" /\ Go(q, "replace") /\ May(q, req[q])
  BY MovedOn DEF CountPending, At, PCs
<1>2. PICK f \in Request : /\ f.pc = "replace" /\ f.op = req[q].op /\ f.actor = req[q].actor
                           /\ f.role = req[q].role /\ req' = [req EXCEPT ![q] = f]
  BY <1>1, MovedOn DEF PCs
<1>3. May(q, f)'
  BY <1>1, <1>2 DEF CountPending, May, Sure, Demoting, rows
<1>4. QED
  BY <1>2, <1>3, OnlyRequest DEF CountPending, locks, IInv, Types

LEMMA OpenInviteHolds == ASSUME IInv, NEW q \in Requests, OpenInvite(q) PROVE IInv'
<1>1. req[q].pc = "open" /\ Go(q, "join") /\ req[q] \in Request
  BY MovedOn DEF OpenInvite, At, PCs
<1>2. PICK f \in Request : /\ f.pc = "join" /\ f.invite = req[q].invite
                           /\ req' = [req EXCEPT ![q] = f]
  BY <1>1, MovedOn DEF PCs
<1>3. inviteLock'[f.invite] = q /\ invite'[f.invite].state = "open"
  BY <1>2 DEF OpenInvite, IsOpen, IInv, Types, rows, Request
<1>4. May(q, f)'
  BY <1>2, <1>3 DEF May, Sure, Demoting
<1>5. QED
  BY <1>1, <1>2, <1>4, OnlyRequest, NullAssumption DEF OpenInvite, IInv, Types, Request

LEMMA WipeHolds == ASSUME IInv, NEW q \in Requests, Wipe(q) PROVE IInv'
<1>1. req[q].pc = "wipe" /\ req[q] \in Request /\ May(q, req[q])
  BY Busy DEF Wipe, At, IInv, RequestsInv
<1>2. PICK f : f = [req[q] EXCEPT !.pc = "commit", !.doomed = member]
  OBVIOUS
<1>3. f \in Request /\ f.pc = "commit" /\ req' = [req EXCEPT ![q] = f]
  BY <1>1, <1>2 DEF Wipe, Request, PCs, IInv, Types
<1>4. May(q, f)'
  BY <1>1, <1>3 DEF Wipe, May, Sure, Demoting, rows
<1>5. QED
  BY <1>3, <1>4, OnlyRequest DEF Wipe, locks, IInv, Types

LEMMA AbortHolds == ASSUME IInv, NEW q \in Requests, Abort(q) PROVE IInv'
  BY Ended DEF Abort

-----------------------------------------------------------------------------
(* The steps that change rows.                                             *)

\* Remember keeps what was held and adds what the new rows give.
LEMMA Remembered ==
    ASSUME Types, Remember
    PROVE  /\ held' \in [Subjects -> SUBSET Perms] /\ HeldNow'
           /\ \A s \in Subjects : held[s] \subseteq held'[s]
<1>1. ASSUME NEW s \in Subjects
      PROVE  held'[s] = held[s] \cup PermsIn(member', s) /\ held[s] \subseteq Perms
  BY DEF Remember, Types
<1>2. held' \in [Subjects -> SUBSET Perms]
  BY <1>1, PermsTyped DEF Remember
<1>3. HeldNow'
  BY <1>1 DEF HeldNow, PermsIn
<1>4. QED
  BY <1>1, <1>2, <1>3

\* What every step of q must show of the other requests.
Apart(q) == \A p \in Requests \ {q} :
    /\ lock = p => lock' = p
    /\ \A i \in Invites : inviteLock[i] = p /\ invite[i].state = "open"
            => inviteLock'[i] = p /\ invite'[i].state = "open"
    /\ workspace' = "open" /\ bypassed' = {} =>
            \/ req[p].pc \notin Demoting
            \/ /\ workspace = "open" /\ bypassed = {}
               /\ \A o \in Subjects : Holds(o, Owner) => Holds(o, Owner)'

LEMMA OneStep ==
    ASSUME IInv, NEW q \in Requests, NEW f \in Request \cup {Idle},
           req' = [req EXCEPT ![q] = f], Apart(q), May(q, f)',
           workspace' = "new" => workspace = "new",
           workspace = "deleted" => workspace' = "deleted",
           \A s \in Subjects : held[s] \subseteq held'[s]
    PROVE  req' \in [Requests -> Request \cup {Idle}] /\ RequestsInv'
<1>1. /\ req' \in [Requests -> Request \cup {Idle}] /\ req'[q] = f
      /\ \A p \in Requests \ {q} : req'[p] = req[p]
  BY DEF IInv, Types
<1>2. ASSUME NEW p \in Requests PROVE May(p, req[p])'
  <2>1. CASE p = q
    BY <1>1, <2>1 DEF May, Sure, OtherOwner
  <2>2. CASE p # q
    BY <1>1, <2>2, StillMay DEF Apart
  <2>3. QED
    BY <2>1, <2>2
<1>3. QED
  BY <1>1, <1>2 DEF RequestsInv

\* A step of no request.
LEMMA NoStep ==
    ASSUME IInv, UNCHANGED <<req, lock, inviteLock>>,
           workspace' = "new" => workspace = "new",
           workspace = "deleted" => workspace' = "deleted",
           \A s \in Subjects : held[s] \subseteq held'[s],
           \A i \in Invites : invite[i].state = "open" => invite'[i].state = "open",
           workspace' = "open" /\ bypassed' = {} =>
                \/ workspace = "new"
                \/ /\ workspace = "open" /\ bypassed = {}
                   /\ \A o \in Subjects : Holds(o, Owner) => Holds(o, Owner)'
    PROVE  req' \in [Requests -> Request \cup {Idle}] /\ RequestsInv'
<1>1. ASSUME NEW p \in Requests PROVE May(p, req[p])'
  <2>1. workspace = "new" => req[p].pc \notin Demoting
    BY DEF IInv, RequestsInv, May, Demoting
  <2>2. QED
    BY <2>1, StillMay
<1>2. QED
  BY <1>1 DEF RequestsInv, IInv, Types

LEMMA ApplyHolds == ASSUME IInv, NEW q \in Requests, Apply(q) PROVE IInv'
<1> DEFINE s == req[q].subject
           row == [r \in RoleNames |-> IF req[q].op = "setRole" /\ r = req[q].role
                                       THEN req[q].actor ELSE NoRow]
<1>1. /\ req[q].pc = "apply" /\ req[q] \in Request /\ May(q, req[q])
      /\ s \in Subjects /\ req[q].actor \in Subjects /\ req[q].role \in RoleNames
  BY Busy DEF Apply, At, IInv, RequestsInv, Request
<1>2. member' = [member EXCEPT ![s] = row]
  BY DEF Apply
<1>3. member' \in Members
  <2>1. row \in [RoleNames -> Granter]
    BY <1>1 DEF Granter
  <2>2. QED
    BY <1>1, <1>2, <2>1 DEF Members, IInv, Types
<1>4. /\ held' \in [Subjects -> SUBSET Perms] /\ HeldNow'
      /\ \A x \in Subjects : held[x] \subseteq held'[x]
  BY Remembered DEF Apply, IInv
<1>5. \A x \in Subjects : x # s => member'[x] = member[x]
  BY <1>1, <1>2 DEF IInv, Types, Members
<1>6. member'[s] = row
  BY <1>1, <1>2 DEF IInv, Types, Members
<1>7. OwnerKept'
  <2> SUFFICES ASSUME workspace = "open", bypassed = {}
               PROVE  \E o \in Subjects : member'[o][Owner] # NoRow
    BY DEF Apply, OwnerKept, Owners, Holds
  <2>1. CASE OtherOwner(s)
    BY <1>5, <2>1 DEF OtherOwner, Holds
  <2>2. CASE req[q].op = "setRole" /\ req[q].role = Owner
    BY <1>1, <1>6, <2>2, RolesAssumption, NullAssumption
  <2>3. QED
    BY <1>1, <2>1, <2>2 DEF May, Sure
<1>8. GrantersHadIt'
  <2> SUFFICES ASSUME NEW x \in Subjects, NEW r \in RoleNames, member'[x][r] \in Subjects
               PROVE  Grants[r] \subseteq held'[member'[x][r]]
    BY DEF GrantersHadIt
  <2>1. CASE x # s
    BY <1>4, <1>5, <2>1 DEF IInv, TablesInv, GrantersHadIt
  <2>2. CASE x = s
    <3>1. req[q].op = "setRole" /\ r = req[q].role /\ member'[x][r] = req[q].actor
      BY <1>6, <2>2, NullAssumption
    <3>2. Grants[r] \subseteq held[req[q].actor]
      BY <1>1, <3>1 DEF May, Demoting
    <3>3. QED
      BY <1>1, <1>4, <3>1, <3>2
  <2>3. QED
    BY <2>1, <2>2
<1>9. InvitersHadIt'
  BY <1>4 DEF Apply, IInv, TablesInv, InvitersHadIt, Types, Invite, Unsent
<1>10. Apart(q)
  BY <1>1, NullAssumption
  DEF Apply, Apart, Release, IInv, RequestsInv, May, Demoting, Types
<1>11. req' \in [Requests -> Request \cup {Idle}] /\ RequestsInv'
  <2>1. req' = [req EXCEPT ![q] = Idle] /\ May(q, Idle)'
    BY DEF Apply, End, May, Sure, Idle, Demoting
  <2>2. QED
    BY <1>4, <1>10, <2>1, OneStep DEF Apply
<1>12. Types'
  BY <1>3, <1>4, <1>11 DEF Apply, Release, IInv, Types
<1>13. QED
  BY <1>4, <1>7, <1>8, <1>9, <1>11, <1>12 DEF IInv, TablesInv

LEMMA ReplaceHolds == ASSUME IInv, NEW q \in Requests, Replace(q) PROVE IInv'
<1>1. req[q].pc = "replace" /\ Go(q, "insert") /\ May(q, req[q])
  BY MovedOn DEF Replace, At, PCs
<1>2. PICK f \in Request : /\ f.pc = "insert" /\ f.actor = req[q].actor
                           /\ f.role = req[q].role /\ req' = [req EXCEPT ![q] = f]
  BY <1>1, MovedOn DEF PCs
<1>3. May(q, f)'
  BY <1>1, <1>2 DEF Replace, May, Sure, Demoting
<1> DEFINE same(i) == invite[i].state = "open" /\ invite[i].to = req[q].subject
<1>4. /\ invite' = [i \in Invites |-> IF same(i) THEN [invite[i] EXCEPT !.state = "revoked"]
                                      ELSE invite[i]]
      /\ \A i \in Invites : same(i) => inviteLock[i] = Nobody
  BY DEF Replace
<1>5. ASSUME NEW i \in Invites, same(i)
      PROVE  /\ invite[i] \in Invite /\ [invite[i] EXCEPT !.state = "revoked"] \in Invite
             /\ invite'[i].role = invite[i].role /\ invite'[i].by = invite[i].by
  <2>1. invite[i] \in Invite
    BY <1>5 DEF IInv, Types, Unsent
  <2>2. QED
    BY <1>4, <1>5, <2>1 DEF Invite
<1>6. invite' \in [Invites -> Invite \cup {Unsent}]
  BY <1>4, <1>5 DEF IInv, Types
<1>7. Apart(q)
  BY <1>4, NullAssumption DEF Replace, Apart, locks, Holds
<1>8. req' \in [Requests -> Request \cup {Idle}] /\ RequestsInv'
  BY <1>2, <1>3, <1>7, OneStep DEF Replace
<1>9. TablesInv'
  <2>1. InvitersHadIt'
    BY <1>4, <1>5 DEF Replace, IInv, TablesInv, InvitersHadIt
  <2>2. QED
    BY <2>1 DEF Replace, IInv, TablesInv, OwnerKept, Owners, Holds, HeldNow, GrantersHadIt, PermsIn
<1>10. Types'
  BY <1>6, <1>8 DEF Replace, locks, IInv, Types
<1>11. QED
  BY <1>8, <1>9, <1>10 DEF IInv

LEMMA InsertHolds == ASSUME IInv, NEW q \in Requests, InsertInvite(q) PROVE IInv'
<1>1. req[q].pc = "insert" /\ req[q] \in Request /\ May(q, req[q])
  BY Busy DEF InsertInvite, At, IInv, RequestsInv
<1>2. PICK new : new = [state |-> "open", expired |-> FALSE, to |-> req[q].subject,
                        role |-> req[q].role, by |-> req[q].actor]
  OBVIOUS
<1>3. PICK i \in Invites : invite[i].state = "none" /\ invite' = [invite EXCEPT ![i] = new]
  BY <1>2 DEF InsertInvite
<1>4. new \in Invite /\ Grants[new.role] \subseteq held[new.by]
  BY <1>1, <1>2 DEF Request, Invite, May
<1>5. req' = [req EXCEPT ![q] = Idle] /\ May(q, Idle)'
  BY DEF InsertInvite, End, May, Sure, Idle, Demoting
<1>6. invite'[i] = new /\ \A j \in Invites \ {i} : invite'[j] = invite[j]
  BY <1>3 DEF IInv, Types
<1>7. Apart(q)
  BY <1>3, <1>6 DEF InsertInvite, Apart, locks, Holds
<1>8. req' \in [Requests -> Request \cup {Idle}] /\ RequestsInv'
  BY <1>5, <1>7, OneStep DEF InsertInvite
<1>9. TablesInv'
  <2>1. InvitersHadIt'
    BY <1>4, <1>6 DEF InsertInvite, IInv, TablesInv, InvitersHadIt
  <2>2. QED
    BY <2>1
    DEF InsertInvite, IInv, TablesInv, OwnerKept, Owners, Holds, HeldNow, GrantersHadIt, PermsIn
<1>10. Types'
  BY <1>3, <1>4, <1>8 DEF InsertInvite, locks, IInv, Types
<1>11. QED
  BY <1>8, <1>9, <1>10 DEF IInv

LEMMA RevokeInviteHolds == ASSUME IInv, NEW q \in Requests, RevokeInvite(q) PROVE IInv'
<1>1. req[q].pc = "close" /\ req[q] \in Request
  BY Busy DEF RevokeInvite, At, IInv
<1>2. PICK i \in Invites : i = req[q].invite
  BY <1>1 DEF Request
<1>3. CASE invite[i].state # "open"
  BY <1>2, <1>3, Ended DEF RevokeInvite, rows
<1>4. CASE invite[i].state = "open"
  <2>1. invite' = [invite EXCEPT ![i].state = "revoked"] /\ inviteLock[i] = Nobody
    BY <1>2, <1>4 DEF RevokeInvite
  <2>2. invite[i] \in Invite
    BY <1>4 DEF IInv, Types, Unsent
  <2>3. /\ invite'[i] \in Invite /\ invite'[i].role = invite[i].role
        /\ invite'[i].by = invite[i].by
        /\ \A j \in Invites \ {i} : invite'[j] = invite[j]
    BY <2>1, <2>2 DEF IInv, Types, Invite
  <2>4. Apart(q)
    BY <2>1, <2>3, NullAssumption DEF RevokeInvite, Apart, locks, Holds
  <2>5. req' \in [Requests -> Request \cup {Idle}] /\ RequestsInv'
    <3>1. req' = [req EXCEPT ![q] = Idle] /\ May(q, Idle)'
      BY DEF RevokeInvite, End, May, Sure, Idle, Demoting
    <3>2. QED
      BY <2>4, <3>1, OneStep DEF RevokeInvite
  <2>6. TablesInv'
    <3>1. InvitersHadIt'
      BY <1>4, <2>3 DEF RevokeInvite, IInv, TablesInv, InvitersHadIt
    <3>2. QED
      BY <3>1
      DEF RevokeInvite, IInv, TablesInv, OwnerKept, Owners, Holds, HeldNow, GrantersHadIt, PermsIn
  <2>7. invite' \in [Invites -> Invite \cup {Unsent}]
    BY <2>1, <2>3 DEF IInv, Types
  <2>8. Types'
    BY <2>5, <2>7 DEF RevokeInvite, locks, IInv, Types
  <2>9. QED
    BY <2>5, <2>6, <2>8 DEF IInv
<1>5. QED
  BY <1>3, <1>4

LEMMA ExpireHolds == ASSUME IInv, NEW i \in Invites, Expire(i) PROVE IInv'
<1>1. invite[i] \in Invite
  BY DEF Expire, IsOpen, IInv, Types, Unsent
<1>2. /\ invite'[i] \in Invite /\ invite'[i].role = invite[i].role
      /\ invite'[i].by = invite[i].by /\ invite'[i].state = invite[i].state
      /\ \A j \in Invites \ {i} : invite'[j] = invite[j]
  BY <1>1 DEF Expire, IInv, Types, Invite
<1>3. req' \in [Requests -> Request \cup {Idle}] /\ RequestsInv'
  <2>1. \A j \in Invites : invite[j].state = "open" => invite'[j].state = "open"
    BY <1>2
  <2>2. \A s \in Subjects : held[s] \subseteq held'[s]
    BY DEF Expire
  <2>3. workspace' = "open" /\ bypassed' = {} => workspace = "open" /\ bypassed = {}
    BY DEF Expire
  <2>4. \A o \in Subjects : Holds(o, Owner) => Holds(o, Owner)'
    BY DEF Expire, Holds
  <2>5. QED
    BY <2>1, <2>2, <2>3, <2>4, NoStep DEF Expire, locks
<1>4. TablesInv'
  <2>1. InvitersHadIt'
    BY <1>2 DEF Expire, IsOpen, IInv, TablesInv, InvitersHadIt
  <2>2. QED
    BY <2>1
    DEF Expire, IInv, TablesInv, OwnerKept, Owners, Holds, HeldNow, GrantersHadIt, PermsIn
<1>5. invite' \in [Invites -> Invite \cup {Unsent}]
  BY <1>2 DEF Expire, IInv, Types
<1>6. Types'
  BY <1>3, <1>5 DEF Expire, locks, IInv, Types
<1>7. QED
  BY <1>3, <1>4, <1>6 DEF IInv

LEMMA JoinHolds == ASSUME IInv, NEW q \in Requests, Join(q) PROVE IInv'
<1>1. req[q].pc = "join" /\ req[q] \in Request /\ May(q, req[q])
  BY Busy DEF Join, At, IInv, RequestsInv
<1>2. PICK i \in Invites, s \in Subjects : i = req[q].invite /\ s = req[q].actor
  BY <1>1 DEF Request
<1>3. inviteLock[i] = q /\ invite[i].state = "open"
  BY <1>1, <1>2 DEF May
<1>4. invite[i] \in Invite
  BY <1>3 DEF IInv, Types, Unsent
<1>5. PICK r \in RoleNames, by \in Subjects : r = invite[i].role /\ by = invite[i].by
  BY <1>4 DEF Invite
<1>6. /\ invite' = [invite EXCEPT ![i].state = "accepted"]
      /\ member' = IF Holds(s, r) THEN member ELSE [member EXCEPT ![s][r] = by]
  BY <1>2, <1>5 DEF Join
<1>7. /\ invite'[i] \in Invite /\ invite'[i].role = r /\ invite'[i].by = by
      /\ \A j \in Invites \ {i} : invite'[j] = invite[j]
  BY <1>4, <1>5, <1>6 DEF IInv, Types, Invite
<1>8. /\ held' \in [Subjects -> SUBSET Perms] /\ HeldNow'
      /\ \A x \in Subjects : held[x] \subseteq held'[x]
  BY Remembered DEF Join, IInv
<1>9. \A x \in Subjects, y \in RoleNames :
        member'[x][y] = member[x][y] \/ (y = r /\ member[x][y] = NoRow /\ member'[x][y] = by)
  BY <1>6 DEF IInv, Types, Members, Holds
<1>10. member' \in Members
  BY <1>6 DEF IInv, Types, Members, Granter
<1>11. Grants[r] \subseteq held[by]
  BY <1>3, <1>5 DEF IInv, TablesInv, InvitersHadIt
<1>12. by # NoRow
  BY NullAssumption
<1>13. \A o \in Subjects : Holds(o, Owner) => Holds(o, Owner)'
  BY <1>9, <1>12, RolesAssumption DEF Holds
<1>14. GrantersHadIt'
  BY <1>8, <1>9, <1>11 DEF IInv, TablesInv, GrantersHadIt
<1>15. OwnerKept'
  BY <1>13 DEF Join, IInv, TablesInv, OwnerKept, Owners
<1>16. InvitersHadIt'
  <2>1. ASSUME NEW j \in Invites, invite'[j].state # "none"
        PROVE  Grants[invite'[j].role] \subseteq held'[invite'[j].by]
    <3>1. CASE j = i
      BY <1>7, <1>8, <1>11, <3>1
    <3>2. CASE j # i
      BY <1>7, <1>8, <2>1, <3>2 DEF IInv, TablesInv, InvitersHadIt, Types, Invite, Unsent
    <3>3. QED
      BY <3>1, <3>2
  <2>2. QED
    BY <2>1 DEF InvitersHadIt
<1>17. Apart(q)
  BY <1>3, <1>7, <1>13, NullAssumption DEF Join, Apart, Release, IInv, Types
<1>18. req' \in [Requests -> Request \cup {Idle}] /\ RequestsInv'
  <2>1. req' = [req EXCEPT ![q] = Idle] /\ May(q, Idle)'
    BY DEF Join, End, May, Sure, Idle, Demoting
  <2>2. QED
    BY <1>8, <1>17, <2>1, OneStep DEF Join
<1>19. invite' \in [Invites -> Invite \cup {Unsent}]
  BY <1>6, <1>7 DEF IInv, Types
<1>20. Types'
  BY <1>8, <1>10, <1>18, <1>19 DEF Join, Release, IInv, Types
<1>21. QED
  BY <1>8, <1>14, <1>15, <1>16, <1>18, <1>20 DEF IInv, TablesInv

LEMMA CommitDeleteHolds == ASSUME IInv, NEW q \in Requests, CommitDelete(q) PROVE IInv'
<1>1. req[q].pc = "commit" /\ req[q] \in Request /\ May(q, req[q])
  BY Busy DEF CommitDelete, At, IInv, RequestsInv
<1>2. \A s \in Subjects, r \in RoleNames : member'[s][r] \in {NoRow, member[s][r]}
  BY DEF CommitDelete
<1>3. member' \in Members
  <2>1. member' = [s \in Subjects |-> [r \in RoleNames |-> member'[s][r]]]
    BY DEF CommitDelete
  <2>2. \A s \in Subjects, r \in RoleNames : member'[s][r] \in Granter
    BY <1>2 DEF IInv, Types, Members, Granter
  <2>3. QED
    BY <2>1, <2>2 DEF Members
<1>4. /\ held' \in [Subjects -> SUBSET Perms] /\ HeldNow'
      /\ \A x \in Subjects : held[x] \subseteq held'[x]
  BY Remembered DEF CommitDelete, IInv
<1>5. ASSUME NEW i \in Invites
      PROVE  /\ invite'[i] \in Invite \cup {Unsent}
             /\ invite[i].state = "none" => invite'[i] = invite[i]
             /\ invite[i].state # "none" =>
                    invite'[i].role = invite[i].role /\ invite'[i].by = invite[i].by
  <2>1. CASE invite[i].state = "none"
    BY <2>1 DEF CommitDelete, IInv, Types
  <2>2. CASE invite[i].state # "none"
    <3>1. invite[i] \in Invite
      BY <2>2 DEF IInv, Types, Unsent
    <3>2. invite'[i] = [invite[i] EXCEPT !.state = "deleted"]
      BY <2>2 DEF CommitDelete
    <3>3. QED
      BY <2>2, <3>1, <3>2 DEF Invite
  <2>3. QED
    BY <2>1, <2>2
<1>6. GrantersHadIt'
  BY <1>2, <1>4, NullAssumption DEF IInv, TablesInv, GrantersHadIt
<1>7. InvitersHadIt'
  <2>1. ASSUME NEW j \in Invites, invite'[j].state # "none"
        PROVE  Grants[invite'[j].role] \subseteq held'[invite'[j].by]
    <3>1. invite[j].state # "none" /\ invite[j] \in Invite
      BY <1>5, <2>1 DEF IInv, Types, Unsent
    <3>2. invite'[j].role = invite[j].role /\ invite'[j].by = invite[j].by
      BY <1>5, <3>1
    <3>3. QED
      BY <1>4, <3>1, <3>2 DEF IInv, TablesInv, InvitersHadIt, Invite
  <2>2. QED
    BY <2>1 DEF InvitersHadIt
<1>8. Apart(q)
  BY NullAssumption DEF CommitDelete, Apart, locks
<1>9. req' \in [Requests -> Request \cup {Idle}] /\ RequestsInv'
  <2>1. req' = [req EXCEPT ![q] = Idle] /\ May(q, Idle)'
    BY DEF CommitDelete, End, May, Sure, Idle, Demoting
  <2>2. QED
    BY <1>4, <1>8, <2>1, OneStep DEF CommitDelete
<1>10. Types'
  <2>1. invite' \in [Invites -> Invite \cup {Unsent}]
    BY <1>5 DEF CommitDelete
  <2>2. QED
    BY <1>3, <1>4, <1>9, <2>1 DEF CommitDelete, locks, IInv, Types
<1>11. QED
  BY <1>4, <1>6, <1>7, <1>9, <1>10 DEF CommitDelete, IInv, TablesInv, OwnerKept

LEMMA CreateHolds == ASSUME IInv, NEW s \in Subjects, Create(s) PROVE IInv'
<1>1. member' = [member EXCEPT ![s][Owner] = s]
  BY DEF Create
<1>2. member' \in Members
  BY <1>1, RolesAssumption DEF IInv, Types, Members, Granter
<1>3. \A x \in Subjects, r \in RoleNames :
        member'[x][r] = IF x = s /\ r = Owner THEN s ELSE member[x][r]
  BY <1>1, RolesAssumption DEF IInv, Types, Members
<1>4. /\ held' \in [Subjects -> SUBSET Perms] /\ HeldNow'
      /\ \A x \in Subjects : held[x] \subseteq held'[x]
  BY Remembered DEF Create, IInv
<1>5. s # NoRow
  BY NullAssumption
<1>6. OwnerKept'
  BY <1>3, <1>5, RolesAssumption DEF OwnerKept, Owners, Holds
<1>7. Grants[Owner] \subseteq held'[s]
  BY <1>3, <1>4, <1>5, RolesAssumption DEF HeldNow, PermsIn
<1>8. GrantersHadIt'
  BY <1>3, <1>4, <1>7 DEF IInv, TablesInv, GrantersHadIt
<1>9. InvitersHadIt'
  BY <1>4 DEF Create, IInv, TablesInv, InvitersHadIt, Types, Invite, Unsent
<1>10. req' \in [Requests -> Request \cup {Idle}] /\ RequestsInv'
  BY <1>4, NoStep DEF Create, locks
<1>11. Types'
  BY <1>2, <1>4, <1>10 DEF Create, locks, IInv, Types
<1>12. QED
  BY <1>4, <1>6, <1>8, <1>9, <1>10, <1>11 DEF IInv, TablesInv

LEMMA TakeAwayHolds ==
    ASSUME IInv, NEW s \in Subjects, NEW roles \in SUBSET RoleNames, NEW who,
           TakeAway(s, roles, who), account' \subseteq Subjects
    PROVE  IInv'
<1>1. member' = [member EXCEPT ![s] = [r \in RoleNames |->
                    IF r \in roles THEN NoRow ELSE member[s][r]]]
  BY DEF TakeAway
<1>2. \A x \in Subjects, r \in RoleNames :
        member'[x][r] = IF x = s /\ r \in roles THEN NoRow ELSE member[x][r]
  BY <1>1 DEF IInv, Types, Members
<1>3. member' \in Members
  <2>1. [r \in RoleNames |-> IF r \in roles THEN NoRow ELSE member[s][r]]
            \in [RoleNames -> Granter]
    BY DEF IInv, Types, Members, Granter
  <2>2. QED
    BY <1>1, <2>1 DEF IInv, Types, Members
<1>4. /\ held' \in [Subjects -> SUBSET Perms] /\ HeldNow'
      /\ \A x \in Subjects : held[x] \subseteq held'[x]
  BY Remembered DEF TakeAway, IInv
<1>5. bypassed' = {} => /\ bypassed = {}
                        /\ \A o \in Subjects : Holds(o, Owner) => Holds(o, Owner)'
  <2>1. CASE Owner \in roles /\ Holds(s, Owner)
    BY <2>1 DEF TakeAway
  <2>2. CASE ~(Owner \in roles /\ Holds(s, Owner))
    BY <1>2, <2>2, RolesAssumption DEF TakeAway, Holds
  <2>3. QED
    BY <2>1, <2>2
<1>6. OwnerKept'
  BY <1>5 DEF TakeAway, IInv, TablesInv, OwnerKept, Owners
<1>7. GrantersHadIt'
  BY <1>2, <1>4, NullAssumption DEF IInv, TablesInv, GrantersHadIt
<1>8. InvitersHadIt'
  BY <1>4 DEF TakeAway, IInv, TablesInv, InvitersHadIt, Types, Invite, Unsent
<1>9. req' \in [Requests -> Request \cup {Idle}] /\ RequestsInv'
  BY <1>4, <1>5, NoStep DEF TakeAway, locks
<1>10. Types'
  BY <1>3, <1>4, <1>9 DEF TakeAway, locks, IInv, Types
<1>11. QED
  BY <1>4, <1>6, <1>7, <1>8, <1>9, <1>10 DEF IInv, TablesInv

LEMMA GrantHolds ==
    ASSUME IInv, NEW s \in Subjects, NEW r \in RoleNames, Grant(s, r)
    PROVE  IInv'
<1>1. member' = [member EXCEPT ![s][r] = AppCode]
  BY DEF Grant
<1>2. \A x \in Subjects, y \in RoleNames :
        member'[x][y] = IF x = s /\ y = r THEN AppCode ELSE member[x][y]
  BY <1>1 DEF IInv, Types, Members
<1>3. member' \in Members
  BY <1>1 DEF IInv, Types, Members, Granter
<1>4. /\ held' \in [Subjects -> SUBSET Perms] /\ HeldNow'
      /\ \A x \in Subjects : held[x] \subseteq held'[x]
  BY Remembered DEF Grant, IInv
<1>5. \A o \in Subjects : Holds(o, Owner) => Holds(o, Owner)'
  BY <1>2, NullAssumption, RolesAssumption DEF Holds
<1>6. OwnerKept'
  BY <1>5 DEF Grant, IInv, TablesInv, OwnerKept, Owners
<1>7. GrantersHadIt'
  BY <1>2, <1>4, NullAssumption DEF IInv, TablesInv, GrantersHadIt
<1>8. InvitersHadIt'
  BY <1>4 DEF Grant, IInv, TablesInv, InvitersHadIt, Types, Invite, Unsent
<1>9. req' \in [Requests -> Request \cup {Idle}] /\ RequestsInv'
  BY <1>4, <1>5, NoStep DEF Grant, locks
<1>10. Types'
  BY <1>3, <1>4, <1>9 DEF Grant, locks, IInv, Types
<1>11. QED
  BY <1>4, <1>6, <1>7, <1>8, <1>9, <1>10 DEF IInv, TablesInv

-----------------------------------------------------------------------------

LEMMA StutterHolds == ASSUME IInv, UNCHANGED vars PROVE IInv'
<1>1. Types'
  BY DEF IInv, Types, vars, rows, locks
<1>2. TablesInv'
  BY DEF IInv, TablesInv, OwnerKept, Owners, Holds, HeldNow, GrantersHadIt, InvitersHadIt,
         PermsIn, vars, rows, locks
<1>3. RequestsInv'
  BY DEF IInv, RequestsInv, May, Sure, OtherOwner, Holds, vars, rows, locks
<1>4. QED
  BY <1>1, <1>2, <1>3 DEF IInv

LEMMA NextHolds == ASSUME IInv, Next PROVE IInv'
<1>1. ASSUME NEW q \in Requests, Step(q) PROVE IInv'
  BY <1>1, BeginHolds, CheckHolds, AsksHolds, GrantableHolds, LockHolds, ReadRolesHolds, StandingHolds,
     CountOwnersHolds, ApplyHolds, CountPendingHolds, ReplaceHolds, InsertHolds,
     RevokeInviteHolds, OpenInviteHolds, JoinHolds, WipeHolds, CommitDeleteHolds, AbortHolds
  DEF Step
<1>2. ASSUME NEW s \in Subjects, Revoke(s) PROVE IInv'
  <2>1. account' \subseteq Subjects
    BY <1>2 DEF Revoke, IInv, Types
  <2>2. PICK roles \in SUBSET RoleNames : TakeAway(s, roles, "app")
    BY <1>2 DEF Revoke
  <2>3. QED
    BY <2>1, <2>2, TakeAwayHolds
<1>3. ASSUME NEW s \in Subjects, DeleteUser(s) PROVE IInv'
  <2>1. account' \subseteq Subjects
    BY <1>3 DEF DeleteUser, IInv, Types
  <2>2. QED
    BY <1>3, <2>1, TakeAwayHolds DEF DeleteUser
<1>4. QED
  BY <1>1, <1>2, <1>3, CreateHolds, GrantHolds, ExpireHolds DEF Next

LEMMA Inductive == Spec => []IInv
<1>1. IInv /\ [Next]_vars => IInv'
  BY NextHolds, StutterHolds
<1>2. QED
  BY <1>1, InitHolds, PTL DEF Spec

-----------------------------------------------------------------------------
(* The results.                                                            *)

\* Whatever the members of a workspace do at once, of any number and with any roles, an
\* owner is left: the row lock spans the check for the last owner and the demotion.
THEOREM OwnersStay == Spec => []OwnerKept
<1>1. IInv => OwnerKept
  BY DEF IInv, TablesInv
<1>2. QED
  BY <1>1, Inductive, PTL

\* The granter a membership names did hold what it grants, though the check reads rows
\* long before the membership is written and an invitation lies between.
THEOREM GrantersStand == Spec => []GrantersHadIt
<1>1. IInv => GrantersHadIt
  BY DEF IInv, TablesInv
<1>2. QED
  BY <1>1, Inductive, PTL

\* An invitation is decided once, and once decided makes nobody a member.
THEOREM DecidedOnce == Spec => ClosedStaysClosed
<1>1. ASSUME IInv, [Next]_vars, NEW i \in Invites,
             invite[i].state \in {"accepted", "revoked", "deleted"}
      PROVE  invite'[i].state \in {invite[i].state, "deleted"}
  <2>1. ASSUME NEW q \in Requests, Step(q)
        PROVE  invite'[i].state \in {invite[i].state, "deleted"}
    <3>1. CASE Join(q)
      <4>1. req[q].invite # i
        BY <1>1, <3>1 DEF Join, At, IInv, RequestsInv, May
      <4>2. QED
        BY <3>1, <4>1, <1>1 DEF Join, IInv, Types
    <3>2. CASE Replace(q)
      BY <1>1, <3>2 DEF Replace
    <3>3. CASE InsertInvite(q)
      BY <1>1, <3>3 DEF InsertInvite, IInv, Types
    <3>4. CASE RevokeInvite(q)
      BY <1>1, <3>4 DEF RevokeInvite, IInv, Types
    <3>5. CASE CommitDelete(q)
      <4>1. invite[i] \in Invite
        BY <1>1 DEF IInv, Types, Unsent
      <4>2. invite'[i] = [invite[i] EXCEPT !.state = "deleted"]
        BY <1>1, <3>5 DEF CommitDelete
      <4>3. QED
        BY <4>1, <4>2 DEF Invite
    <3>6. CASE invite' = invite
      BY <3>6
    <3>7. QED
      BY <2>1, <3>1, <3>2, <3>3, <3>4, <3>5, <3>6
      DEF Step, Begin, Check, Asks, Grantable, Lock, ReadRoles, Standing, CountOwners, Apply,
          CountPending, OpenInvite, Wipe, Abort, rows
  <2>2. ASSUME NEW j \in Invites, Expire(j)
        PROVE  invite'[i].state = invite[i].state
    <3>1. j # i
      BY <1>1, <2>2 DEF Expire, IsOpen
    <3>2. QED
      BY <2>2, <3>1 DEF Expire, IInv, Types
  <2>3. CASE UNCHANGED vars
    BY <2>3 DEF vars, rows
  <2>4. QED
    BY <1>1, <2>1, <2>2, <2>3 DEF Next, Create, Revoke, DeleteUser, TakeAway, Grant
<1>2. ASSUME IInv, [Next]_vars, NEW q \in Requests, At(q, "join")
      PROVE  invite[req[q].invite].state = "open"
  BY <1>2 DEF At, IInv, RequestsInv, May
<1>3. IInv /\ [Next]_vars =>
        [/\ \A i \in Invites : invite[i].state \in {"accepted", "revoked", "deleted"} =>
              invite'[i].state \in {invite[i].state, "deleted"}
         /\ \A q \in Requests : At(q, "join") /\ ~At(q, "join")' /\ member' # member =>
              invite[req[q].invite].state = "open"]_vars
  BY <1>1, <1>2
<1>4. QED
  BY <1>3, Inductive, PTL DEF Spec, ClosedStaysClosed
=============================================================================
