------------------------------ MODULE EnginePool ------------------------------
(***************************************************************************)
(* The pool of WebAssembly instances of pkg/engine: a call waits for an    *)
(* instance no longer than its deadline, runs in it and puts it back, or a *)
(* new one when it was cut off.  The runtime (wazero, external) closes an  *)
(* instance whose context ends while a function of it runs; in a module    *)
(* compiled Uninterruptible it does not.                                   *)
(***************************************************************************)
EXTENDS Integers, FiniteSets

CONSTANTS
    PoolCalls,      \* calls in progress at once
    Size,           \* cap(p.idle)
    MaxInstances,   \* bound on instances made
    NoInstance

VARIABLES
    idle,       \* the instances in p.idle
    made,       \* instances made so far
    closed,     \* instances the runtime or the pool has closed
    call,       \* the calls
    drained,    \* instances Close has taken
    failed,     \* replacements that could not be made
    tooLate     \* instances closed after their call's answer was there

poolVars == <<idle, made, closed, call, drained, failed, tooLate>>

-----------------------------------------------------------------------------

Instances == 1..MaxInstances
NoAnswer == [pc |-> "idle", in |-> NoInstance, ended |-> FALSE]
Busy == {"running", "answered", "failed", "replace"}
PoolCall ==
    [pc : {"idle", "waiting"}, in : {NoInstance}, ended : BOOLEAN]
        \cup [pc : Busy, in : Instances, ended : BOOLEAN]

TypeOK ==
    /\ idle \subseteq 1..made
    /\ made \in Instances \cup {0}
    /\ closed \subseteq 1..made
    /\ call \in [PoolCalls -> PoolCall]
    /\ failed \in Nat
    /\ drained \in 0..Size
    /\ tooLate \subseteq closed

\* NewPool.
Init ==
    /\ made = Size
    /\ idle = 1..Size
    /\ closed = {}
    /\ call = [c \in PoolCalls |-> NoAnswer]
    /\ failed = 0
    /\ drained = 0
    /\ tooLate = {}

At(c, pc) == call[c].pc = pc
Goto(c, pc) == call' = [call EXCEPT ![c].pc = pc]
Return(c) == call' = [call EXCEPT ![c] = NoAnswer]

Call(c) ==
    /\ At(c, "idle")
    /\ Goto(c, "waiting")
    /\ UNCHANGED <<idle, made, closed, drained, failed, tooLate>>

\* The deadline, or the caller's own context.
EndContext(c) ==
    /\ ~At(c, "idle") /\ ~call[c].ended
    /\ call' = [call EXCEPT ![c].ended = TRUE]
    /\ UNCHANGED <<idle, made, closed, drained, failed, tooLate>>

\* When both are ready, either case of the select may be chosen.
Take(c) ==
    /\ At(c, "waiting")
    /\ \E in \in idle :
        /\ idle' = idle \ {in}
        /\ call' = [call EXCEPT ![c].pc = "running", ![c].in = in]
    /\ UNCHANGED <<made, closed, drained, failed, tooLate>>

GiveUp(c) ==
    /\ At(c, "waiting") /\ call[c].ended
    /\ Return(c)
    /\ UNCHANGED <<idle, made, closed, drained, failed, tooLate>>

-----------------------------------------------------------------------------
(* instance.call.                                                          *)

\* The runtime notices the end of the context in a loop, or when a function is entered.
CutOff(c) ==
    /\ At(c, "running") /\ call[c].ended
    /\ closed' = closed \cup {call[c].in}
    /\ Goto(c, "failed")
    /\ UNCHANGED <<idle, made, drained, failed, tooLate>>

\* A closed instance fails every function; an open one answers or fails (a trap, an error
\* of the capability).
Run(c) ==
    /\ At(c, "running")
    /\ \/ call[c].in \notin closed /\ Goto(c, "answered")
       \/ Goto(c, "failed")
    /\ UNCHANGED <<idle, made, closed, drained, failed, tooLate>>

\* Giving back the memory of the input and of the output: no error of it is looked at.
FreeCutOff(c) ==
    /\ At(c, "answered") /\ call[c].ended
    /\ call[c].in \notin closed
    /\ closed' = closed \cup {call[c].in}
    /\ tooLate' = tooLate \cup {call[c].in}
    /\ UNCHANGED <<idle, made, call, drained, failed>>

-----------------------------------------------------------------------------
(* The end of Pool.Call.                                                   *)

Succeed(c) ==
    /\ At(c, "answered")
    /\ idle' = idle \cup {call[c].in}
    /\ Return(c)
    /\ UNCHANGED <<made, closed, drained, failed, tooLate>>

\* Mutant of Fail: the end of the context is not asked about.
FailAnyway(c) ==
    /\ At(c, "failed")
    /\ idle' = idle \cup {call[c].in}
    /\ Return(c)
    /\ UNCHANGED <<made, closed, drained, failed, tooLate>>

\* ctx.Err() is read after the failure: a context that has ended by then had the call
\* cut off.
Fail(c) ==
    /\ At(c, "failed")
    /\ IF call[c].ended
       THEN /\ closed' = closed \cup {call[c].in}
            /\ Goto(c, "replace")
            /\ UNCHANGED idle
       ELSE /\ idle' = idle \cup {call[c].in}
            /\ Return(c)
            /\ UNCHANGED closed
    /\ UNCHANGED <<made, drained, failed, tooLate>>

\* Mutant of Replace: nothing is made in the instance's place.
ReplaceNothing(c) ==
    /\ At(c, "replace")
    /\ Return(c)
    /\ UNCHANGED <<idle, made, closed, drained, failed, tooLate>>

\* A new instance, or an empty slot.
Replace(c) ==
    /\ At(c, "replace")
    /\ \/ /\ made < MaxInstances
          /\ made' = made + 1
          /\ idle' = idle \cup {made + 1}
          /\ UNCHANGED failed
       \/ /\ failed' = failed + 1
          /\ UNCHANGED <<idle, made>>
    /\ Return(c)
    /\ UNCHANGED <<closed, drained, tooLate>>

\* Pool.Close takes what is idle, Size times or until its deadline.
Close ==
    /\ drained < Size
    /\ \E in \in idle :
        /\ idle' = idle \ {in}
        /\ closed' = closed \cup {in}
    /\ drained' = drained + 1
    /\ UNCHANGED <<made, call, failed, tooLate>>

Next ==
    \/ Close
    \/ \E c \in PoolCalls :
        \/ Call(c) \/ EndContext(c) \/ Take(c) \/ GiveUp(c)
        \/ CutOff(c) \/ Run(c) \/ FreeCutOff(c)
        \/ Succeed(c) \/ Fail(c) \/ Replace(c)

Spec == Init /\ [][Next]_poolVars

-----------------------------------------------------------------------------

\* Every slot holds an instance that waits or works, one that Close has taken, or one
\* whose replacement failed: putting an instance back never waits for a place.
SlotsAccounted ==
    Cardinality(idle) + Cardinality({c \in PoolCalls : call[c].pc \in Busy}) + failed
        + drained = Size

\* And "an instance whose call was cut off by the deadline is discarded and replaced"
\* (engine.go:177): no call takes an instance that another's end has closed, unless that
\* end came while the other call's answer was being released.
PoolWhole == SlotsAccounted /\ idle \cap closed \subseteq tooLate

\* The same sentence, as it stands.
NoneClosedIdle == idle \cap closed = {}
=============================================================================
