-------------------------------- MODULE DevServer --------------------------------
(***************************************************************************)
(* lidza dev (Dev, pkg/devserver/dev.go): it builds the app and runs it,   *)
(* looks at the sources' modification times every half second, builds and  *)
(* starts the app again when one changed, and starts it again when         *)
(* `lidza db migrate` touched the restart file.  The developer saves and   *)
(* migrates at any time, also while a build runs.                          *)
(***************************************************************************)
EXTENDS Naturals

CONSTANTS
    MaxSaves,   \* the most saves and migrations of the developer
    MaxFalls    \* the most times the app ends by itself or cannot be started

VARIABLES
    project,    \* the sources on disk: saved by hand, generated from those, sound or not
    tables,     \* the database's schema and the restart file of RequestRestart
    dev,        \* the loop of Dev: where it is and what it remembers
    app,        \* the app's process, a.p, and whether it still runs
    falls,      \* how often the app fell
    overlooked, \* a save after the build read the sources and before the scan
    unasked     \* the app runs as first started, with a migration before the first look since

devVars == <<project, tables, dev, app, falls, overlooked, unasked>>

Watched == [saved |-> project.saved, generated |-> project.generated]
Never == [saved |-> 0, generated |-> 0]

TypeOK ==
    /\ project \in [saved : 1..(MaxSaves + 1), generated : 0..(MaxSaves + 1), sound : BOOLEAN]
    /\ tables \in [schema : 0..MaxSaves, asks : BOOLEAN, stamp : 0..MaxSaves]
    /\ dev \in [pc : {"generate", "compile", "rescan", "launch", "idle", "watch", "look", "ended"},
                first : BOOLEAN, seen : [saved : 0..(MaxSaves + 1), generated : 0..(MaxSaves + 1)],
                restart : 0..MaxSaves, compiled : 0..(MaxSaves + 1), failed : BOOLEAN,
                binary : 0..(MaxSaves + 1)]
    /\ app \in [kept : BOOLEAN, runs : BOOLEAN, of : 0..(MaxSaves + 1), schema : 0..MaxSaves]
    /\ falls \in 0..MaxFalls /\ overlooked \in BOOLEAN /\ unasked \in BOOLEAN

Init ==
    /\ project = [saved |-> 1, generated |-> 0, sound |-> TRUE]
    /\ tables = [schema |-> 0, asks |-> FALSE, stamp |-> 0]
    /\ dev = [pc |-> "generate", first |-> TRUE, seen |-> Never, restart |-> 0, compiled |-> 0,
              failed |-> FALSE, binary |-> 0]
    /\ app = [kept |-> FALSE, runs |-> FALSE, of |-> 0, schema |-> 0]
    /\ falls = 0 /\ overlooked = FALSE /\ unasked = FALSE

-----------------------------------------------------------------------------

(* What goes on beside the loop.                                           *)

Save ==
    /\ project.saved + tables.schema <= MaxSaves
    /\ \E sound \in BOOLEAN :
           project' = [project EXCEPT !.saved = @ + 1, !.sound = sound]
    /\ UNCHANGED <<tables, dev, app, falls, overlooked, unasked>>

\* lidza db migrate: the migrations, and then the touch of the restart file.
Migrate ==
    /\ project.saved + tables.schema <= MaxSaves /\ ~tables.asks
    /\ tables' = [tables EXCEPT !.schema = @ + 1, !.asks = TRUE]
    /\ UNCHANGED <<project, dev, app, falls, overlooked, unasked>>

RequestRestart ==
    /\ tables.asks
    /\ tables' = [tables EXCEPT !.stamp = @ + 1, !.asks = FALSE]
    /\ UNCHANGED <<project, dev, app, falls, overlooked, unasked>>

AppEnds ==
    /\ app.runs /\ falls < MaxFalls
    /\ app' = [app EXCEPT !.runs = FALSE]
    /\ falls' = falls + 1
    /\ UNCHANGED <<project, tables, dev, overlooked, unasked>>

-----------------------------------------------------------------------------

(* The loop.                                                               *)

\* app.start: the binary as it was last built; it connects to the tables as they are.
Start ==
    \/ /\ app' = [kept |-> TRUE, runs |-> TRUE, of |-> dev.binary, schema |-> tables.schema]
       /\ unasked' = FALSE
       /\ UNCHANGED falls
    \/ /\ falls < MaxFalls /\ falls' = falls + 1
       /\ app' = [app EXCEPT !.kept = FALSE, !.runs = FALSE]
       /\ UNCHANGED unasked

\* Mutant of TickRestart: an app whose last build failed waits for the next change, though
\* the binary before it runs.
RestartIfBuilt ==
    /\ dev.pc = "idle" /\ tables.stamp # dev.restart
    /\ dev' = [dev EXCEPT !.restart = tables.stamp]
    /\ IF app.kept /\ ~dev.failed THEN Start ELSE UNCHANGED <<app, falls, unasked>>
    /\ UNCHANGED <<project, tables, overlooked>>

\* Mutant of TickRestart: the scan goes first, and a restart drops what it found.
RestartAfterScan ==
    /\ dev.pc = "idle" /\ tables.stamp # dev.restart
    /\ dev' = [dev EXCEPT !.restart = tables.stamp, !.seen = Watched]
    /\ IF app.kept THEN Start ELSE UNCHANGED <<app, falls, unasked>>
    /\ UNCHANGED <<project, tables, overlooked>>

\* A restart without a build: the app whose build or start failed waits for a change.
TickRestart ==
    /\ dev.pc = "idle" /\ tables.stamp # dev.restart
    /\ dev' = [dev EXCEPT !.restart = tables.stamp]
    /\ IF app.kept THEN Start ELSE UNCHANGED <<app, falls, unasked>>
    /\ UNCHANGED <<project, tables, overlooked>>

\* The scan records what it saw, and a change begins a build.
TickScan ==
    /\ dev.pc = "idle" /\ tables.stamp = dev.restart /\ dev.seen # Watched
    /\ dev' = [dev EXCEPT !.seen = Watched, !.pc = "generate"]
    /\ overlooked' = FALSE
    /\ UNCHANGED <<project, tables, app, falls, unasked>>

\* BeforeBuild; an error of it is logged and the build still runs.
Generate ==
    /\ dev.pc = "generate"
    /\ project' \in {project, [project EXCEPT !.generated = project.saved]}
    /\ dev' = [dev EXCEPT !.pc = "compile"]
    /\ UNCHANGED <<tables, app, falls, overlooked, unasked>>

\* go build reads the sources at some moment; a failed one leaves the last binary, and the
\* files the generators wrote to the next scan.
Compile ==
    /\ dev.pc = "compile"
    /\ dev' = [dev EXCEPT
           !.compiled = project.saved, !.failed = ~project.sound,
           !.binary = IF project.sound THEN project.saved ELSE @,
           !.pc = CASE project.sound /\ dev.first -> "launch"
                    [] project.sound /\ ~dev.first -> "rescan"
                    [] ~project.sound /\ dev.first -> "watch"
                    [] OTHER -> "idle"]
    /\ UNCHANGED <<project, tables, app, falls, overlooked, unasked>>

\* The scan for what the generators wrote, or the first of all: no change it sees counts.
Rescan ==
    /\ dev.pc \in {"rescan", "watch"}
    /\ dev' = [dev EXCEPT !.seen = Watched, !.pc = IF dev.first THEN "look" ELSE "launch"]
    /\ overlooked' = (project.saved # dev.compiled)
    /\ UNCHANGED <<project, tables, app, falls, unasked>>

\* The first look at the restart file.
Look ==
    /\ dev.pc = "look"
    /\ dev' = [dev EXCEPT !.restart = tables.stamp, !.first = FALSE, !.pc = "idle"]
    /\ unasked' = (app.schema # tables.schema /\ ~tables.asks)
    /\ UNCHANGED <<project, tables, app, falls, overlooked>>

\* The first start that fails ends Dev.
Launch ==
    /\ dev.pc = "launch" /\ Start
    /\ dev' = [dev EXCEPT !.pc = IF ~dev.first THEN "idle" ELSE IF app'.kept THEN "watch" ELSE "ended"]
    /\ UNCHANGED <<project, tables, overlooked>>

Next ==
    \/ Save \/ Migrate \/ RequestRestart \/ AppEnds
    \/ TickRestart \/ TickScan \/ Generate \/ Compile \/ Rescan \/ Look \/ Launch

Spec == Init /\ [][Next]_devVars

-----------------------------------------------------------------------------

\* When the loop has nothing left to notice, the last build read the sources as they are,
\* but for a save during that build, which the scan after it takes for the generators'.
BuildsWhatIsSaved ==
    dev.pc = "idle" /\ dev.seen = Watched /\ ~overlooked => dev.compiled = project.saved

\* What runs is the last binary built, and it does "not keep running against the schema it
\* started with".
RunsWhatIsBuilt ==
    dev.pc = "idle" /\ app.kept =>
        /\ app.of = dev.binary
        /\ dev.restart = tables.stamp /\ ~tables.asks /\ ~unasked => app.schema = tables.schema

DevFollows == BuildsWhatIsSaved /\ RunsWhatIsBuilt

\* "rebuilds and restarts it whenever a Go source file changes": a save during a build is
\* never built.
EverySaveIsBuilt == dev.pc = "idle" /\ dev.seen = Watched => dev.compiled = project.saved
=============================================================================
