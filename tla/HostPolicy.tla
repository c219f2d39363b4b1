------------------------------ MODULE HostPolicy ------------------------------
(***************************************************************************)
(* Which hostnames beyond the listed domains a node serves over TLS        *)
(* (tls_hosts.go): allow asks the app's hook, which answers from the app's *)
(* data as it is then, and keeps the verdict for a while.  Handshakes ask  *)
(* in parallel, and their verdicts are kept in any order.                  *)
(***************************************************************************)
EXTENDS Integers, FiniteSets

CONSTANTS
    Handshakes,     \* calls of allow in progress at once
    Hosts,          \* hostnames outside the listed domains
    ApproveTTL, RefuseTTL,
    MaxVerdicts,    \* tlsVerdicts
    EndOfTime       \* bound on time

VARIABLES
    time,
    approves,       \* the hosts the app approves now
    lastApproved,   \* when the app last approved each host
    verdicts,       \* the verdicts kept
    handshake

policyVars == <<time, approves, lastApproved, verdicts, handshake>>

-----------------------------------------------------------------------------

TTL(ok) == IF ok THEN ApproveTTL ELSE RefuseTTL
Verdict == [host : Hosts, ok : BOOLEAN, expires : Int]
Idle == [pc |-> "idle"]

TypeOK ==
    /\ time \in 0..EndOfTime
    /\ approves \subseteq Hosts
    /\ lastApproved \in [Hosts -> Int]
    /\ verdicts \subseteq Verdict

Long == 0 - ApproveTTL

Init ==
    /\ time = 0
    /\ approves \in SUBSET Hosts
    /\ lastApproved = [h \in Hosts |-> IF h \in approves THEN 0 ELSE Long]
    /\ verdicts = {}
    /\ handshake = [c \in Handshakes |-> Idle]

\* A host added to the app's data, or removed.
ChangeHost ==
    \E h \in Hosts :
        /\ approves' = (approves \ {h}) \cup ({h} \ approves)
        /\ lastApproved' = [lastApproved EXCEPT ![h] = time]
        /\ UNCHANGED <<time, verdicts, handshake>>

Tick ==
    /\ time < EndOfTime
    /\ time' = time + 1
    /\ lastApproved' = [h \in Hosts |-> IF h \in approves THEN time + 1 ELSE lastApproved[h]]
    /\ UNCHANGED <<approves, verdicts, handshake>>

Become(c, f) == handshake' = [handshake EXCEPT ![c] = f]

Kept(h) == {v \in verdicts : v.host = h}

\* A verdict kept and not expired is the answer; else the hook is asked.
Allow(c) ==
    /\ handshake[c] = Idle
    /\ \E h \in Hosts :
        /\ \A v \in Kept(h) : time >= v.expires
        /\ Become(c, [pc |-> "ask", host |-> h, began |-> time])
    /\ UNCHANGED <<time, approves, lastApproved, verdicts>>

\* The hook reads the app's data.  An error or a timeout is a refusal too.
Hook(c) ==
    LET f == handshake[c]
    IN  /\ f.pc = "ask"
        /\ \E ok \in BOOLEAN :
            /\ ok => f.host \in approves
            /\ Become(c, [pc |-> "keep", host |-> f.host, began |-> f.began, ok |-> ok])
        /\ UNCHANGED <<time, approves, lastApproved, verdicts>>

\* Mutant of Expires: counted from when the verdict is kept.
ExpiresLater(c) == time + TTL(handshake[c].ok)

\* now is read before the hook is asked.
Expires(c) == handshake[c].began + TTL(handshake[c].ok)

\* Expired verdicts make room, then any.
Room(began) ==
    LET live == {v \in verdicts : began < v.expires}
    IN  IF Cardinality(verdicts) < MaxVerdicts THEN {verdicts}
        ELSE IF Cardinality(live) < MaxVerdicts THEN {live}
        ELSE {S \in SUBSET live : Cardinality(S) = MaxVerdicts - 1}

Keep(c) ==
    LET f == handshake[c]
    IN  /\ f.pc = "keep"
        /\ \E S \in Room(f.began) :
            verdicts' = {v \in S : v.host # f.host}
                            \cup {[host |-> f.host, ok |-> f.ok, expires |-> Expires(c)]}
        /\ Become(c, Idle)
        /\ UNCHANGED <<time, approves, lastApproved>>

Next ==
    \/ ChangeHost \/ Tick
    \/ \E c \in Handshakes : Allow(c) \/ Hook(c) \/ Keep(c)

Spec == Init /\ [][Next]_policyVars

-----------------------------------------------------------------------------

\* "a revoked host is refused within tlsApproveTTL" (tls_hosts.go:30): a verdict answers
\* for a host no longer than its time after the app last approved it, in whatever order
\* slow hooks of parallel handshakes have theirs kept; and no more verdicts are kept than
\* tlsVerdicts.
RevokedIsRefused ==
    /\ \A v \in verdicts :
        v.ok /\ time < v.expires => time < lastApproved[v.host] + ApproveTTL
    /\ Cardinality(verdicts) <= MaxVerdicts
=============================================================================
