------------------------------- MODULE AppLifecycle -------------------------------
(***************************************************************************)
(* An app from its start to its end (Boot, Close and Serve, lidza.go, and  *)
(* serveTLS, tls.go): the packs start in order, two servers take requests, *)
(* a signal has them finish within ten seconds, and the packs stop in      *)
(* reverse.  A start, a listener, a server and a stop can fail.  The pack  *)
(* of number p works in the background by itself, and both it and the      *)
(* requests use the packs before.  A handler may take its connection over, *)
(* as the hub of packs/realtime does: net/http knows no more of it then.   *)
(***************************************************************************)
EXTENDS Naturals, FiniteSets

CONSTANTS
    Count,    \* how many packs the app lists, App.Packs
    Servers,  \* the order in which the servers shut down: PrivateTLS or the redirects, the app's
    MaxBusy   \* the most requests of a server at once

VARIABLES
    stage,     \* where Boot, Serve and Close are
    packsOn,   \* the packs between their Start and their Stop
    around,    \* the SSR sidecar and the tracing exporter that run
    working,   \* the packs whose own work runs
    listening, \* the servers that accept requests
    busy,      \* how many requests of each server run, as net/http counts them
    sockets,   \* how many run on a connection their handler took over (WebSockets)
    deadline,  \* Close's context: "none" ends it yet, its ten seconds "run", or it is "over"
    hooks,     \* how often OnShutdown ran
    failure    \* what failed: the "handler", the "sidecar", a "pack" or a "server"

lifeVars == <<stage, packsOn, around, working, listening, busy, sockets, deadline, hooks, failure>>

Packs == 1..Count
ServerSet == {Servers[i] : i \in 1..2}
First == Servers[1]
Last == Servers[2]

TypeOK ==
    /\ stage \in {"boot", "listen", "serve", "shutdown first", "shutdown last",
                  "onShutdown", "stop", "returned"}
    /\ packsOn \subseteq Packs /\ working \subseteq Packs
    /\ around \subseteq {"sidecar", "tracing"}
    /\ listening \subseteq ServerSet /\ {busy, sockets} \subseteq [ServerSet -> 0..MaxBusy]
    /\ deadline \in {"none", "run", "over"} /\ hooks \in 0..1
    /\ failure \in {"", "handler", "sidecar", "pack", "server"}

Init ==
    /\ stage = "boot"
    /\ packsOn = {} /\ around = {} /\ working = {}
    /\ listening = {} /\ busy = [s \in ServerSet |-> 0] /\ sockets = busy
    /\ deadline = "none" /\ hooks = 0 /\ failure = ""

-----------------------------------------------------------------------------

(* What goes on beside it.                                                 *)

Arrives(s) ==
    /\ s \in listening /\ busy[s] + sockets[s] < MaxBusy
    /\ busy' = [busy EXCEPT ![s] = @ + 1]
    /\ UNCHANGED <<stage, packsOn, around, working, listening, sockets, deadline, hooks, failure>>

Answered(s) ==
    /\ busy[s] > 0
    /\ busy' = [busy EXCEPT ![s] = @ - 1]
    /\ UNCHANGED <<stage, packsOn, around, working, listening, sockets, deadline, hooks, failure>>

\* The upgrade hijacks the connection (serve, realtime.go:346); the handler goes on.
Hijacks(s) ==
    /\ busy[s] > 0
    /\ busy' = [busy EXCEPT ![s] = @ - 1]
    /\ sockets' = [sockets EXCEPT ![s] = @ + 1]
    /\ UNCHANGED <<stage, packsOn, around, working, listening, deadline, hooks, failure>>

\* The client leaves, is too slow, or the handler's own deadline ends: no server ends it.
SocketEnds(s) ==
    /\ sockets[s] > 0
    /\ sockets' = [sockets EXCEPT ![s] = @ - 1]
    /\ UNCHANGED <<stage, packsOn, around, working, listening, busy, deadline, hooks, failure>>

WorkEnds(p) ==
    /\ p \in working
    /\ working' = working \ {p}
    /\ UNCHANGED <<stage, packsOn, around, listening, busy, sockets, deadline, hooks, failure>>

\* The ten seconds end, or a signal ends Boot's context while the app closes.
TimePasses ==
    /\ deadline = "run" \/ (deadline = "none" /\ stage \in {"onShutdown", "stop"})
    /\ deadline' = "over"
    /\ UNCHANGED <<stage, packsOn, around, working, listening, busy, sockets, hooks, failure>>

-----------------------------------------------------------------------------

(* Boot.                                                                   *)

\* The handler's error stops tracing again.  That of the sidecar's start stops nothing, also
\* not the sidecar's process when that is only late.
BootBegins ==
    /\ stage = "boot" /\ around = {} /\ packsOn = {}
    /\ \/ around' \in {{"tracing"}, {"tracing", "sidecar"}} /\ UNCHANGED <<stage, failure>>
       \/ stage' = "returned" /\ failure' = "handler" /\ UNCHANGED around
       \/ /\ stage' = "returned" /\ failure' = "sidecar"
          /\ around' \in {{"tracing"}, {"tracing", "sidecar"}}
    /\ UNCHANGED <<packsOn, working, listening, busy, sockets, deadline, hooks>>

\* What fails before the servers run closes the app with Boot's context, which a signal may
\* have ended.
FailsBefore(closing) ==
    /\ stage' = closing
    /\ deadline' \in {"none", "over"}

\* A pack's error leaves that pack out of started.
StartPack ==
    /\ stage = "boot" /\ around # {} /\ packsOn # Packs
    /\ LET p == Cardinality(packsOn) + 1
       IN  \/ /\ packsOn' = packsOn \cup {p} /\ working' = working \cup {p}
              /\ UNCHANGED <<stage, deadline, failure>>
           \/ /\ FailsBefore("stop") /\ failure' = "pack"
              /\ UNCHANGED <<packsOn, working>>
    /\ UNCHANGED <<around, listening, busy, sockets, hooks>>

OnStart ==
    /\ stage = "boot" /\ packsOn = Packs
    /\ \/ stage' = "listen" /\ UNCHANGED deadline
       \/ FailsBefore("onShutdown")
    /\ UNCHANGED <<packsOn, around, working, listening, busy, sockets, hooks, failure>>

(* Serve and serveTLS.                                                     *)

Listen ==
    /\ stage = "listen"
    /\ \/ stage' = "serve" /\ listening' = ServerSet /\ UNCHANGED deadline
       \/ FailsBefore("onShutdown") /\ UNCHANGED listening
    /\ UNCHANGED <<packsOn, around, working, busy, sockets, hooks, failure>>

\* A server's error closes both, with no time for their requests.
ServerFails ==
    /\ stage = "serve"
    /\ listening' = {}
    /\ failure' = "server"
    /\ stage' = "onShutdown"
    /\ UNCHANGED <<packsOn, around, working, busy, sockets, deadline, hooks>>

Signalled ==
    /\ stage = "serve"
    /\ deadline' = "run"
    /\ listening' = listening \ {First}
    /\ stage' = "shutdown first"
    /\ UNCHANGED <<packsOn, around, working, busy, sockets, hooks, failure>>

\* Mutant of Drained: Shutdown returns at once, as Close does.
DrainedAtOnce(s) == TRUE

\* Shutdown returns when the server's requests have ended, or the deadline has.  It "does not
\* attempt to close nor wait for hijacked connections", and nothing is registered that does.
Drained(s) == busy[s] = 0 \/ deadline = "over"

\* The second server takes requests until the first has shut down.
FirstShutdown ==
    /\ stage = "shutdown first" /\ Drained(First)
    /\ listening' = {}
    /\ stage' = "shutdown last"
    /\ UNCHANGED <<packsOn, around, working, busy, sockets, deadline, hooks, failure>>

LastShutdown ==
    /\ stage = "shutdown last" /\ Drained(Last)
    /\ stage' = "onShutdown"
    /\ UNCHANGED <<packsOn, around, working, listening, busy, sockets, deadline, hooks, failure>>

(* Close.                                                                  *)

OnShutdown ==
    /\ stage = "onShutdown"
    /\ hooks' = hooks + 1
    /\ stage' = "stop"
    /\ UNCHANGED <<packsOn, around, working, listening, busy, sockets, deadline, failure>>

\* Mutant of ToStop: in the order of the start.
ToStopFirst == CHOOSE p \in packsOn : \A q \in packsOn : p <= q

\* The last started of those that run.
ToStop == CHOOSE p \in packsOn : \A q \in packsOn : q <= p

\* A pack's Stop waits for its own work, as long as its context lets it.
StopPack ==
    /\ stage = "stop" /\ packsOn # {}
    /\ ToStop \in working => deadline = "over"
    /\ packsOn' = packsOn \ {ToStop}
    /\ UNCHANGED <<stage, around, working, listening, busy, sockets, deadline, hooks, failure>>

StopRest ==
    /\ stage = "stop" /\ packsOn = {}
    /\ around' = {}
    /\ stage' = "returned"
    /\ UNCHANGED <<packsOn, working, listening, busy, sockets, deadline, hooks, failure>>

Next ==
    \/ \E s \in ServerSet : Arrives(s) \/ Answered(s) \/ Hijacks(s) \/ SocketEnds(s)
    \/ \E p \in Packs : WorkEnds(p)
    \/ TimePasses
    \/ BootBegins \/ StartPack \/ OnStart \/ Listen \/ ServerFails \/ Signalled
    \/ FirstShutdown \/ LastShutdown \/ OnShutdown \/ StopPack \/ StopRest

Spec == Init /\ [][Next]_lifeVars

-----------------------------------------------------------------------------

InTime == deadline # "over" /\ failure # "server"

\* What runs has the packs it may use: a request all of them, a pack's work those before it.
\* Not when Close's context is over, or a server failed under its requests, and not a request
\* that took its connection over: its packs stop under it.
PacksOutlast ==
    InTime =>
        /\ (\E s \in ServerSet : busy[s] > 0) => packsOn = Packs
        /\ \A p \in working : 1..p \subseteq packsOn

\* When Serve has returned nothing it started is on, but for what is there when the sidecar
\* did not start, and OnShutdown ran if every pack had started.
NothingLeft ==
    stage = "returned" =>
        /\ packsOn = {} /\ listening = {}
        /\ around # {} => failure = "sidecar"
        /\ hooks = 1 \/ failure \in {"handler", "sidecar", "pack"}

LifecycleKept == PacksOutlast /\ NothingLeft

\* "OnShutdown runs after in-flight requests finished" (lidza.go:104): not those that outlast
\* the deadline.
RequestsFinishFirst == hooks = 1 => \A s \in ServerSet : busy[s] = 0

\* "open sockets close with the server" (Stop, realtime.go:157), so that none is left when a
\* server that was in time has shut down: none is closed, and it may ask Authorize
\* (realtime.go:331) of services whose packs have stopped.
SocketsCloseWithServer ==
    InTime /\ stage \in {"onShutdown", "stop", "returned"} => \A s \in ServerSet : sockets[s] = 0
=============================================================================
