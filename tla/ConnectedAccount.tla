--------------------------- MODULE ConnectedAccount ---------------------------
(***************************************************************************)
(* One connection of packs/auth (connect.go): Token renews the stored      *)
(* grant when it expires, the callers of a node sharing the renewal, while *)
(* the user connects again or disconnects.  The store's statements, the    *)
(* provider's answer and the end of a renewal are steps of their own.      *)
(*                                                                         *)
(* The provider is external: it rotates the refresh token (RFC 6749,       *)
(* section 6) and refuses one that is not the current one of its grant.    *)
(* Whether a grant is about to expire is left open at every read.          *)
(***************************************************************************)
EXTENDS Integers, FiniteSets

CONSTANTS
    Processes,      \* the nodes of the app
    Callers,        \* requests in progress at once
    NodeOf,         \* NodeOf[q]: the node that serves q
    MaxGrants,      \* bound on grants, and on the renewals of each
    NoCaller,
    NoConnection

VARIABLES
    connection, \* the row of auth_connection
    live,       \* the provider: the current refresh token of a grant, 0 once withdrawn
    refreshing, \* the call in refreshing[key] on every node
    caller,     \* requests in progress
    grants,     \* grants the user has given
    renewable,  \* those that came with a refresh token
    stranded    \* grants whose current refresh token never reached the store

connectedVars == <<connection, live, refreshing, caller, grants, renewable, stranded>>

-----------------------------------------------------------------------------

GrantIds == 1..MaxGrants
Grant == [id : GrantIds, token : 1..(MaxGrants + 1)]
Connection == [id : GrantIds, token : 1..(MaxGrants + 1), reconnect : BOOLEAN]

NoCall == [pc |-> "idle"]
Caller == {NoCall}
    \cup [pc : {"have", "refresh", "put", "keep", "revoke"}, grant : Grant]
    \cup [pc : {"wait", "mark", "end", "delete", "lapsed"}]

TypeOK ==
    /\ connection \in Connection \cup {NoConnection}
    /\ live \in [GrantIds -> 0..(MaxGrants + 1)]
    /\ refreshing \in [Processes -> Callers \cup {NoCaller}]
    /\ caller \in [Callers -> Caller]
    /\ grants \in 0..MaxGrants
    /\ renewable \subseteq GrantIds
    /\ stranded \subseteq GrantIds

Init ==
    /\ connection = NoConnection
    /\ live = [g \in GrantIds |-> 0]
    /\ refreshing = [n \in Processes |-> NoCaller]
    /\ caller = [q \in Callers |-> NoCall]
    /\ grants = 0
    /\ renewable = {}
    /\ stranded = {}

At(q, pc) == caller[q] # NoCall /\ caller[q].pc = pc
Turn(q, pc) == caller' = [caller EXCEPT ![q] = [pc |-> pc]]
Go(q, pc, g) == caller' = [caller EXCEPT ![q] = [pc |-> pc, grant |-> g]]
Finish(q) == caller' = [caller EXCEPT ![q] = NoCall]
Read == [id |-> connection.id, token |-> connection.token]
Current(g) == live[g.id] = g.token

-----------------------------------------------------------------------------
(* Token and refresh.                                                      *)

\* Get, of a grant that is about to expire.
Token(q) ==
    /\ caller[q] = NoCall
    /\ connection # NoConnection /\ ~connection.reconnect
    /\ connection.id \in renewable
    /\ Go(q, "have", Read)
    /\ UNCHANGED <<connection, live, refreshing, stranded, grants, renewable>>

\* The first caller of the node renews the grant it has read; the others wait.
Refresh(q) ==
    /\ At(q, "have")
    /\ IF refreshing[NodeOf[q]] # NoCaller
       THEN UNCHANGED refreshing /\ Turn(q, "wait")
       ELSE refreshing' = [refreshing EXCEPT ![NodeOf[q]] = q] /\ Go(q, "refresh", caller[q].grant)
    /\ UNCHANGED <<connection, live, stranded, grants, renewable>>

\* The provider's answer: a new refresh token, whose reply may be lost, or none.
Renew(q) ==
    LET g == caller[q].grant
    IN  /\ At(q, "refresh")
        /\ IF Current(g)
           THEN /\ g.token <= MaxGrants
                /\ live' = [live EXCEPT ![g.id] = @ + 1]
                /\ \/ Go(q, "put", [g EXCEPT !.token = @ + 1]) /\ UNCHANGED stranded
                   \/ Turn(q, "end") /\ stranded' = stranded \cup {g.id}
           ELSE Turn(q, "mark") /\ UNCHANGED <<live, stranded>>
        /\ UNCHANGED <<connection, refreshing, grants, renewable>>

\* No slot, no answer, or an error that says nothing of the grant.
RenewFails(q) ==
    /\ At(q, "refresh")
    /\ Turn(q, "end")
    /\ UNCHANGED <<connection, live, refreshing, stranded, grants, renewable>>

Store(g) == connection' = [id |-> g.id, token |-> g.token, reconnect |-> FALSE]

\* Mutant of Put: the refresh token that was read is kept.
PutKeepsToken(q) ==
    /\ At(q, "put")
    /\ Store([caller[q].grant EXCEPT !.token = IF @ > 1 THEN @ - 1 ELSE @])
    /\ Turn(q, "end")
    /\ UNCHANGED <<live, refreshing, stranded, grants, renewable>>

\* An upsert: the row as it is by now does not matter.
Put(q) ==
    /\ At(q, "put")
    /\ \/ Store(caller[q].grant) /\ UNCHANGED stranded
       \/ UNCHANGED connection /\ stranded' = stranded \cup {caller[q].grant.id}
    /\ Turn(q, "end")
    /\ UNCHANGED <<live, refreshing, grants, renewable>>

\* MarkReconnect, whose error is not looked at, drops the tokens of the row as it is by now.
Mark ==
    \/ UNCHANGED connection
    \/ connection # NoConnection /\ connection' = [connection EXCEPT !.reconnect = TRUE]

MarkReconnect(q) ==
    /\ At(q, "mark")
    /\ Mark
    /\ Turn(q, "end")
    /\ UNCHANGED <<live, refreshing, stranded, grants, renewable>>

\* The deferred end hands the outcome to those who wait.
EndRefresh(q) ==
    LET n == NodeOf[q]
        waiting == {p \in Callers : NodeOf[p] = n /\ At(p, "wait")}
    IN  /\ At(q, "end")
        /\ refreshing' = [refreshing EXCEPT ![n] = NoCaller]
        /\ caller' = [p \in Callers |-> IF p \in waiting \cup {q} THEN NoCall ELSE caller[p]]
        /\ UNCHANGED <<connection, live, stranded, grants, renewable>>

\* A grant without a refresh token needs no more than the mark.
Unrenewable(q) ==
    /\ caller[q] = NoCall
    /\ connection # NoConnection /\ ~connection.reconnect
    /\ connection.id \notin renewable
    /\ Turn(q, "lapsed")
    /\ UNCHANGED <<connection, live, refreshing, stranded, grants, renewable>>

Lapse(q) ==
    /\ At(q, "lapsed")
    /\ Mark
    /\ Finish(q)
    /\ UNCHANGED <<live, refreshing, stranded, grants, renewable>>

-----------------------------------------------------------------------------
(* connectCallback and connectionsDelete.                                  *)

\* Exchange: the user grants anew.
Connect(q) ==
    /\ caller[q] = NoCall
    /\ grants < MaxGrants
    /\ grants' = grants + 1
    /\ live' = [live EXCEPT ![grants'] = 1]
    /\ renewable' \in {renewable, renewable \cup {grants'}}
    /\ Go(q, "keep", [id |-> grants', token |-> 1])
    /\ UNCHANGED <<connection, refreshing, stranded>>

Keep(q) ==
    /\ At(q, "keep")
    /\ \/ Store(caller[q].grant)
       \/ UNCHANGED connection
    /\ Finish(q)
    /\ UNCHANGED <<live, refreshing, stranded, grants, renewable>>

\* One that must be made again is deleted without a word to the provider.
Disconnect(q) ==
    /\ caller[q] = NoCall
    /\ connection # NoConnection
    /\ IF connection.reconnect THEN Turn(q, "delete") ELSE Go(q, "revoke", Read)
    /\ UNCHANGED <<connection, live, refreshing, stranded, grants, renewable>>

\* A provider may know of no revocation or fail, which only warns.
Revoke(q) ==
    /\ At(q, "revoke")
    /\ \/ UNCHANGED live
       \/ Current(caller[q].grant) /\ live' = [live EXCEPT ![caller[q].grant.id] = 0]
    /\ Turn(q, "delete")
    /\ UNCHANGED <<connection, refreshing, stranded, grants, renewable>>

Delete(q) ==
    /\ At(q, "delete")
    /\ connection' = NoConnection
    /\ Finish(q)
    /\ UNCHANGED <<live, refreshing, stranded, grants, renewable>>

-----------------------------------------------------------------------------

\* The user withdraws the grant at the provider.
Withdraw ==
    /\ \E id \in GrantIds : live[id] > 0 /\ live' = [live EXCEPT ![id] = 0]
    /\ UNCHANGED <<connection, refreshing, caller, stranded, grants, renewable>>

\* A waiting caller gives up, or one is cancelled before it has joined.
GiveUp(q) ==
    /\ At(q, "have") \/ At(q, "wait")
    /\ Finish(q)
    /\ UNCHANGED <<connection, live, refreshing, stranded, grants, renewable>>

\* A process dies with its requests.
Die(n) ==
    LET here == {q \in Callers : NodeOf[q] = n}
    IN  /\ \E q \in here : caller[q] # NoCall
        /\ refreshing' = [refreshing EXCEPT ![n] = NoCaller]
        /\ stranded' = stranded \cup {caller[q].grant.id : q \in {p \in here : At(p, "put")}}
        /\ caller' = [q \in Callers |-> IF q \in here THEN NoCall ELSE caller[q]]
        /\ UNCHANGED <<connection, live, grants, renewable>>

Next ==
    \/ Withdraw
    \/ \E n \in Processes : Die(n)
    \/ \E q \in Callers :
        \/ Token(q) \/ Refresh(q) \/ Renew(q) \/ RenewFails(q) \/ Put(q) \/ MarkReconnect(q)
        \/ EndRefresh(q) \/ Unrenewable(q) \/ Lapse(q) \/ Connect(q) \/ Keep(q)
        \/ Disconnect(q) \/ Revoke(q) \/ Delete(q) \/ GiveUp(q)

Spec == Init /\ [][Next]_connectedVars

-----------------------------------------------------------------------------

\* The grant Token hands out from is the provider's current one, unless it was withdrawn
\* there, its last renewal is still to be stored, or that renewal was lost on the way:
\* renewals of several nodes, a new connection and a disconnection do not put back a
\* refresh token that has been replaced (refresh, connect.go:440).
StoredGrantWorks ==
    connection # NoConnection /\ ~connection.reconnect =>
        \/ live[connection.id] \in {0, connection.token}
        \/ connection.id \in stranded
        \/ \E q \in Callers : At(q, "put") /\ caller[q].grant.id = connection.id

\* "ErrReconnect is returned when the grant no longer works" (connect.go:43): a connection
\* that must be made again is one whose grant the provider has withdrawn, or whose renewal
\* was lost, or that came without a refresh token.
ReconnectMeansGone ==
    connection # NoConnection /\ connection.reconnect =>
        \/ live[connection.id] = 0
        \/ connection.id \in stranded
        \/ connection.id \notin renewable
=============================================================================
