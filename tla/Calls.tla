--------------------------------- MODULE Calls ----------------------------------
(***************************************************************************)
(* Calls of one HHY runtime and how they end (src/runtime.c call_value,     *)
(* call_stream_value, call_closure, module_load; src/runtime_unwind.c):     *)
(* by return, by an error that is passed up, or by the jump that            *)
(* runtime_memory_limit makes over everything to the host.  The host is a   *)
(* program run (hhy_profile_program) or a context that an application calls *)
(* again and again (hhy_context_call_json).                                 *)
(*                                                                         *)
(* stack is the C stack: the activations of call_value, of the closures a   *)
(* stream calls directly, and of module loading.  frames is the registered  *)
(* copy of it that survives the jump (HHY_CALL_FRAME_UNWIND=1).             *)
(***************************************************************************)
EXTENDS Frames

CONSTANTS
    Contracts,      \* the builtins, by contract
    Actions,        \* those a dry run leaves out (effect_dispatch)
    Modules,        \* module files
    Capacities,     \* frame_slot_count of functions and closures
    MaxRecursion,   \* RuntimeLimits.max_recursion
    TraceLimit,     \* HHY_RUNTIME_STACK_TRACE_LIMIT
    MaxSteps,       \* bound: calls, blocks, declarations, catches, values ...
    MaxEntries      \* bound: calls of the context by the application

NoContract == "none"
Transaction == "database.with_transaction"
Main == 1           \* the environment of the program's top level
Source == "main"

ASSUME CallsAssumption ==
    /\ Main \in Places
    /\ NoContract \notin Contracts /\ Transaction \notin Contracts
    /\ Actions \subseteq Contracts
    /\ {MaxRecursion, TraceLimit, MaxSteps, MaxEntries} \subseteq Nat /\ Capacities \subseteq Nat

VARIABLES
    host,           \* "program" or "context"
    registered,     \* HHY_CALL_FRAME_UNWIND=1
    dryRun,
    phase,          \* "load", "idle", "call", "unwind" or "released"
    failed,         \* an error is under way
    now,            \* [contract, effect, source, depth, trace] of the runtime
    stack,          \* activations, the innermost last
    frames,         \* RuntimeCallFrame: [env, was]
    checkpoint,     \* RuntimeBoundaryCheckpoint: [streams, temps, was]
    step,           \* how many actions of the boundary table are done
    closures,       \* environments that function values hold
    streams,        \* streams of the runtime, oldest first: [env, rows, open]
    temps,          \* registered temporaries of the runtime
    scope,          \* the extension scope of the boundary is open
    handles,        \* transactions: "open", "committed" or "rolledback"
    modules,        \* module -> "absent", "loading" or "loaded"
    steps,          \* how many of MaxSteps are made
    entries         \* calls by the application so far

callVars == <<host, registered, dryRun, phase, failed, now, stack, frames, checkpoint, step,
              closures, streams, temps, scope, handles, modules, steps, entries>>

vars == <<frameVars, callVars>>

-----------------------------------------------------------------------------
(***************************************************************************)
(* Where the program is.                                                   *)
(***************************************************************************)
Running == phase \in {"load", "call"} /\ stack # <<>>

Top == Last(stack)

Place(new) == [stack EXCEPT ![Len(stack)] = new]

(* Language code runs in a function, a closure, a module or the program.     *)
InCode == Running /\ Top.kind \in {"program", "call", "direct", "module"}

(* The builtins that take a callback.                                        *)
InBuiltin == Running /\ Top.kind = "builtin" /\ Top.name \notin Actions

(* with_transaction and the host make one call.                              *)
MakesOneCall == Running /\ Top.kind \in {"transaction", "host"} /\ Top.result = "begun"

(* What the collector may not take: the values of the program, and all that  *)
(* the runtime itself points to.                                             *)
Roots ==
    {Main} \cup closures \cup {streams[i].env : i \in DOMAIN streams}
        \cup {stack[i].scope : i \in DOMAIN stack} \cup {stack[i].frame : i \in DOMAIN stack}
        \cup {frames[i].env : i \in DOMAIN frames}

Live == Reached(Roots \ {Nil}) \cup Pooled

(* rt_alloc finds the lowest place the collector has free.                   *)
Free ==
    LET free == Places \ Live
    IN  IF free = {} THEN Nil ELSE Min(free)

Activation(kind, frame, scopeEnv, name) ==
    [kind |-> kind, frame |-> frame, scope |-> scopeEnv, name |-> name, was |-> now,
     handle |-> 0, result |-> "none"]

KeepBoundary == UNCHANGED <<host, registered, dryRun, phase, checkpoint, step, scope, entries>>

KeepFrames == UNCHANGED <<heap, pool, retained>>

KeepData == UNCHANGED <<closures, streams, temps, handles, modules>>

-----------------------------------------------------------------------------
(***************************************************************************)
(* Starting: the program, or the top level of a context's application.      *)
(***************************************************************************)
Init ==
    /\ bounded \in BOOLEAN /\ FramesInit
    /\ host \in {"program", "context"} /\ registered \in BOOLEAN
    /\ dryRun \in (IF host = "program" THEN BOOLEAN ELSE {FALSE})
    /\ phase = "load" /\ failed = FALSE
    /\ now = [contract |-> NoContract, effect |-> TRUE, source |-> Source, depth |-> 0, trace |-> 0]
    /\ stack = <<[kind |-> "program", frame |-> Main, scope |-> Main, name |-> NoContract,
                  was |-> now, handle |-> 0, result |-> "none"]>>
    /\ frames = <<>> /\ step = 0
    /\ checkpoint = [streams |-> 0, temps |-> 0, was |-> now]
    /\ closures = {} /\ streams = <<>> /\ temps = 0 /\ scope = FALSE /\ handles = <<>>
    /\ modules = [m \in Modules |-> "absent"]
    /\ steps = 0 /\ entries = 0

-----------------------------------------------------------------------------
(***************************************************************************)
(* Calling.                                                                 *)
(***************************************************************************)
Counted == steps < MaxSteps /\ steps' = steps + 1

(* A callee is a function value; its environment becomes the parent.         *)
MayCall(parent) == ~failed /\ parent \in closures /\ Counted

Deep == now.depth >= MaxRecursion

(* call_value pushes a trace entry while there is room.                       *)
Traced == IF now.trace < TraceLimit THEN now.trace + 1 ELSE now.trace

(* call_frame_attach: the top registered frame now answers for e.             *)
Attached(fs, e) ==
    IF registered /\ fs # <<>> THEN [fs EXCEPT ![Len(fs)].env = e] ELSE fs

Pushed == IF registered THEN Append(frames, [env |-> Nil, was |-> now]) ELSE frames

(* call_value of a function or closure: from code, or from a builtin that     *)
(* takes a callback; call_function and call_closure acquire the frame.        *)
Call(parent, capacity, e) ==
    /\ InCode \/ InBuiltin \/ MakesOneCall
    /\ MayCall(parent) /\ ~Deep
    /\ Acquire(e, Free, parent, capacity) /\ e # Nil
    /\ frames' = Attached(Pushed, e)
    /\ now' = [now EXCEPT !.depth = @ + 1, !.trace = Traced]
    /\ stack' = Append(stack, Activation("call", e, e, NoContract))
    /\ KeepBoundary /\ KeepData /\ UNCHANGED <<bounded, failed>>

(* call_stream_value: a stream calls the closure without a frame of its own.  *)
CallDirect(parent, capacity, e) ==
    /\ InCode \/ InBuiltin
    /\ MayCall(parent) /\ ~Deep
    /\ Acquire(e, Free, parent, capacity) /\ e # Nil
    /\ frames' = Attached(frames, e)
    /\ now' = [now EXCEPT !.depth = @ + 1]
    /\ stack' = Append(stack, Activation("direct", e, e, NoContract))
    /\ KeepBoundary /\ KeepData /\ UNCHANGED <<bounded, failed>>

(* At the depth limit the frame is pushed and popped again, with an error.    *)
TooDeep ==
    /\ InCode \/ InBuiltin \/ MakesOneCall
    /\ ~failed /\ closures # {} /\ Deep
    /\ failed' = TRUE
    /\ KeepBoundary /\ KeepFrames /\ KeepData
    /\ UNCHANGED <<bounded, now, stack, frames, steps>>

(* effect_dispatch: a dry run lets no action through (every callable of the   *)
(* database extension is one).                                               *)
Allowed(contract) == ~(dryRun /\ contract \in Actions \cup {Transaction})

Contracted(contract) ==
    [now EXCEPT !.contract = contract, !.effect = Allowed(contract), !.trace = Traced]

(* A builtin; one that writes registers its temporary file first.            *)
Builtin(contract, temporary) ==
    /\ InCode /\ ~failed /\ Counted
    /\ temporary = 1 => Allowed(contract) /\ contract \in Actions
    /\ temps' = temps + temporary
    /\ frames' = Pushed
    /\ now' = Contracted(contract)
    /\ stack' = Append(stack, [Activation("builtin", Nil, Top.scope, contract)
                                    EXCEPT !.handle = temporary])
    /\ KeepBoundary /\ KeepFrames
    /\ UNCHANGED <<bounded, failed, closures, streams, handles, modules>>

(* database.with_transaction: database.begin gives the handle, or fails.      *)
Begin(gives) ==
    /\ InCode /\ ~failed /\ Counted
    /\ gives \in (IF Allowed(Transaction) THEN {"handle", "error"} ELSE {"nothing"})
    /\ frames' = Pushed
    /\ now' = Contracted(Transaction)
    /\ failed' = (gives = "error")
    /\ handles' = IF gives = "handle" THEN Append(handles, "open") ELSE handles
    /\ stack' = Append(stack, [Activation("transaction", Nil, Top.scope, Transaction)
                    EXCEPT !.handle = IF gives = "handle" THEN Len(handles') ELSE 0,
                           !.result = IF gives = "handle" THEN "begun" ELSE "none"])
    /\ KeepBoundary /\ KeepFrames
    /\ UNCHANGED <<bounded, closures, streams, temps, modules>>

-----------------------------------------------------------------------------
(***************************************************************************)
(* What code does between calls.                                            *)
(***************************************************************************)
KeepCalls == UNCHANGED <<bounded, now, frames>> /\ KeepBoundary

KeepRun == KeepCalls /\ UNCHANGED steps

(* A block or an iteration of a loop gets an environment of its own.          *)
EnterBlock ==
    /\ InCode /\ ~failed /\ Counted /\ Free # Nil
    /\ heap' = [heap EXCEPT ![Free] = NewEnv(Top.scope, 0)]
    /\ stack' = Place([Top EXCEPT !.scope = Free])
    /\ UNCHANGED <<pool, retained, failed>> /\ KeepCalls /\ KeepData

LeaveBlock ==
    /\ InCode /\ Top.scope # Top.frame
    /\ stack' = Place([Top EXCEPT !.scope = heap[@].parent])
    /\ UNCHANGED failed /\ KeepFrames /\ KeepRun /\ KeepData

(* A declaration beyond the capacity of the environment.                     *)
Declare ==
    /\ InCode /\ ~failed /\ Counted
    /\ Grow(Top.scope)
    /\ UNCHANGED <<failed, stack>> /\ KeepCalls /\ KeepData

(* fn and closure values hold the environment they were made in.              *)
MakeClosure ==
    /\ InCode /\ ~failed /\ Counted /\ Top.scope \notin closures
    /\ closures' = closures \cup {Top.scope}
    /\ MarkEscaped(Top.scope)
    /\ UNCHANGED <<pool, retained, failed, stack, streams, temps, handles, modules>> /\ KeepCalls

(* The last function value of an environment becomes unreachable; the        *)
(* functions of the program stay bound in its own environment.               *)
DropClosure(e) ==
    /\ Running /\ e \in closures \ {Main} /\ Counted
    /\ closures' = closures \ {e}
    /\ UNCHANGED <<failed, stack, streams, temps, handles, modules>> /\ KeepFrames /\ KeepCalls

(* stream_value; a stream of database rows owns a handle of the extension.    *)
MakeStream(rows) ==
    /\ InCode /\ ~failed /\ Counted
    /\ rows => ~dryRun
    /\ streams' = Append(streams, [env |-> Top.scope, rows |-> rows])
    /\ MarkEscaped(Top.scope)
    /\ UNCHANGED <<pool, retained, failed, stack, closures, temps, handles, modules>>
    /\ KeepCalls

(* Any error; cancellation and the limits of time are errors like the rest.   *)
Fail ==
    /\ Running /\ ~failed
    /\ failed' = TRUE
    /\ UNCHANGED stack /\ KeepFrames /\ KeepRun /\ KeepData

(* catch, attempt and on_error.                                              *)
Catch ==
    /\ InCode /\ failed /\ Counted
    /\ failed' = FALSE
    /\ UNCHANGED stack /\ KeepFrames /\ KeepCalls /\ KeepData

-----------------------------------------------------------------------------
(***************************************************************************)
(* Returning, with or without an error.                                     *)
(***************************************************************************)
Pops == Top.kind \in {"call", "builtin", "transaction"}

(* call_frame_release leaves the environment of the top registered frame to   *)
(* the unwinding of that frame; any other is recycled at once.                *)
TopFrameEnv == IF registered /\ frames # <<>> THEN Last(frames).env ELSE Nil

EndOwn == IF Top.frame = TopFrameEnv THEN Nil ELSE Top.frame

EndDeferred == IF Pops THEN TopFrameEnv ELSE Nil

Untraced == IF Top.was.trace < TraceLimit THEN now.trace - 1 ELSE now.trace

(* A builtin that keeps its contract when it fails.                         *)
OfCalleeMutant ==
    IF Top.kind \in {"call", "direct"} THEN [now EXCEPT !.depth = @ - 1]
    ELSE IF failed THEN now
    ELSE [now EXCEPT !.contract = Top.was.contract, !.effect = Top.was.effect]

(* call_value_impl gives back the contract of a builtin, and the depth of a   *)
(* function; then the frame, or call_value, gives back the rest.              *)
OfCallee ==
    IF Top.kind \in {"call", "direct"} THEN [now EXCEPT !.depth = @ - 1]
    ELSE [now EXCEPT !.contract = Top.was.contract, !.effect = Top.was.effect]

Restored ==
    IF ~Pops THEN OfCallee
    ELSE IF registered THEN Last(frames).was
    ELSE [OfCallee EXCEPT !.trace = Untraced]

Popped == IF Pops /\ registered THEN Front(frames) ELSE frames

(* with_transaction and the host look at what their call gave.                *)
Results == IF failed THEN {"failed"} ELSE {"whole"} \cup (IF streams # <<>> THEN {"stream"} ELSE {})

Receive(below, result) ==
    IF Last(below).kind \in {"transaction", "host"}
    THEN [below EXCEPT ![Len(below)].result = result] ELSE below

Return(result) ==
    /\ Running /\ Top.kind \in {"call", "direct", "builtin"}
    /\ result \in Results
    /\ Recycle(EndOwn, EndDeferred)
    /\ now' = Restored /\ frames' = Popped
    /\ stack' = Receive(Front(stack), result)
    /\ temps' = IF Top.kind = "builtin" THEN temps - Top.handle ELSE temps
    /\ KeepBoundary /\ UNCHANGED <<bounded, failed, closures, streams, handles, modules, steps>>

(* A commit that does not look at the value of the callback.                *)
WholeMutant == ~failed

Whole == ~failed /\ Top.result = "whole"

(* The transaction is committed when the callback gave a value that is not a   *)
(* stream; otherwise it is rolled back.  After a commit that fails the handle  *)
(* stays until the scope of the boundary ends.                               *)
EndTransaction(commits) ==
    LET ended == IF ~Whole THEN "rolledback" ELSE IF commits THEN "committed" ELSE "open"
    IN  /\ Running /\ Top.kind = "transaction" /\ (failed \/ Top.result # "begun")
        /\ handles' = IF Top.handle = 0 THEN handles ELSE [handles EXCEPT ![Top.handle] = ended]
        /\ failed' = (failed \/ (Top.handle # 0 /\ ended # "committed"))
        /\ Recycle(EndOwn, EndDeferred)
        /\ now' = Restored /\ frames' = Popped
        /\ stack' = Front(stack)
        /\ KeepBoundary /\ UNCHANGED <<bounded, closures, streams, temps, modules, steps>>

-----------------------------------------------------------------------------
(***************************************************************************)
(* Modules.                                                                *)
(***************************************************************************)
(* module_load: a file that cannot be read leaves no entry, one that does not *)
(* parse leaves one that is still loading.                                   *)
Import(m, runs) ==
    /\ InCode /\ ~failed /\ Counted
    /\ IF modules[m] = "absent"
       THEN /\ runs => Free # Nil
            /\ modules' \in {[modules EXCEPT ![m] = "loading"]} \cup (IF runs THEN {} ELSE {modules})
            /\ failed' = ~runs
       ELSE runs = (modules[m] = "loaded") /\ failed' = ~runs /\ UNCHANGED modules
    /\ IF runs /\ modules[m] = "absent"
       THEN /\ heap' = [heap EXCEPT ![Free] = NewEnv(Nil, 0)]
            /\ now' = [now EXCEPT !.source = m]
            /\ stack' = Append(stack, Activation("module", Free, Free, m))
       ELSE UNCHANGED <<heap, now, stack>>
    /\ KeepBoundary
    /\ UNCHANGED <<bounded, pool, retained, frames, closures, streams, temps, handles>>

(* Its top level has run: the exports are complete, or it stays loading.      *)
LeaveModule ==
    /\ Running /\ Top.kind = "module"
    /\ modules' = [modules EXCEPT ![Top.name] = IF failed THEN @ ELSE "loaded"]
    /\ now' = [now EXCEPT !.source = Top.was.source]
    /\ stack' = Front(stack)
    /\ KeepBoundary /\ KeepFrames
    /\ UNCHANGED <<bounded, failed, frames, closures, streams, temps, handles, steps>>

-----------------------------------------------------------------------------
(***************************************************************************)
(* The host.                                                               *)
(***************************************************************************)
(* runtime_memory_limit: longjmp to the host, over every C activation.        *)
MemoryJump ==
    /\ Running
    /\ failed' = TRUE /\ stack' = <<>>
    /\ KeepFrames /\ KeepRun /\ KeepData

(* The program has run to its end, or the call of the host has returned.      *)
Finish ==
    /\ Running
    /\ Top.kind = "program" \/ (Top.kind = "host" /\ (failed \/ Top.result # "begun"))
    /\ stack' = <<>>
    /\ UNCHANGED failed /\ KeepFrames /\ KeepRun /\ KeepData

Left == phase \in {"load", "call"} /\ stack = <<>>

(* runtime_call_unwind_to: each frame the jump left gives back what it kept.  *)
UnwindFrame ==
    /\ Left /\ frames # <<>>
    /\ Recycle(TopFrameEnv, Nil)
    /\ now' = Last(frames).was /\ frames' = Front(frames)
    /\ KeepBoundary /\ KeepData /\ UNCHANGED <<bounded, failed, stack, steps>>

(* runtime_release closes what is left.                                      *)
Release ==
    /\ phase' = "released"
    /\ temps' = 0 /\ streams' = <<>>
    /\ UNCHANGED <<host, registered, dryRun, checkpoint, step, scope, entries, bounded, failed,
                   now, stack, frames, closures, handles, modules, steps>>
    /\ KeepFrames

(* A program ends here; so does a context whose load failed or whose top       *)
(* level declares something mutable.                                         *)
EndLoad(mutable) ==
    /\ phase = "load" /\ Left /\ frames = <<>>
    /\ IF host = "program" \/ failed \/ mutable THEN Release
       ELSE /\ phase' = "idle"
            /\ UNCHANGED <<host, registered, dryRun, checkpoint, step, scope, entries, bounded,
                           failed, now, stack, frames, steps>>
            /\ KeepFrames /\ KeepData

(* A call that begins no scope of the extensions.                            *)
EnterCallMutant ==
    /\ phase = "idle" /\ Main \in closures /\ entries < MaxEntries /\ Counted
    /\ phase' = "call" /\ entries' = entries + 1
    /\ failed' = FALSE /\ scope' = FALSE /\ step' = 0
    /\ now' = [now EXCEPT !.depth = 0, !.trace = 0]
    /\ checkpoint' = [streams |-> Len(streams), temps |-> temps, was |-> now']
    /\ stack' = <<[Activation("host", Nil, Main, NoContract) EXCEPT !.result = "begun"]>>
    /\ KeepFrames /\ KeepData
    /\ UNCHANGED <<host, registered, dryRun, bounded, frames>>

(* hhy_context_call_json: what an earlier call left is reset, and what is      *)
(* there is remembered.  Its arguments are converted before the call, and may *)
(* fail.                                                                    *)
EnterCall ==
    /\ phase = "idle" /\ Main \in closures /\ entries < MaxEntries /\ Counted
    /\ phase' = "call" /\ entries' = entries + 1
    /\ failed' = FALSE /\ scope' = TRUE /\ step' = 0
    /\ now' = [now EXCEPT !.depth = 0, !.trace = 0]
    /\ checkpoint' = [streams |-> Len(streams), temps |-> temps, was |-> now']
    /\ stack' = <<[Activation("host", Nil, Main, NoContract) EXCEPT !.result = "begun"]>>
    /\ KeepFrames /\ KeepData
    /\ UNCHANGED <<host, registered, dryRun, bounded, frames>>

BeginUnwind ==
    /\ phase = "call" /\ Left /\ frames = <<>>
    /\ phase' = "unwind"
    /\ UNCHANGED <<host, registered, dryRun, checkpoint, step, scope, entries, bounded, failed,
                   now, stack, frames, steps>>
    /\ KeepFrames /\ KeepData

(* hhy_runtime_boundary_unwind.                                              *)
BoundaryTable == <<"streams", "temporaries", "scope", "state">>

Unwind ==
    LET action == BoundaryTable[step + 1]
    IN  /\ phase = "unwind" /\ step < Len(BoundaryTable)
        /\ step' = step + 1
        /\ streams' = IF action = "streams" THEN SubSeq(streams, 1, checkpoint.streams) ELSE streams
        /\ temps' = IF action = "temporaries" THEN checkpoint.temps ELSE temps
        /\ scope' = (scope /\ action # "scope")
        /\ handles' = IF action = "scope"
                      THEN [h \in DOMAIN handles |->
                              IF handles[h] = "open" THEN "rolledback" ELSE handles[h]]
                      ELSE handles
        /\ now' = IF action = "state" THEN checkpoint.was ELSE now
        /\ UNCHANGED <<host, registered, dryRun, phase, checkpoint, entries, bounded, failed,
                       stack, frames, closures, modules, steps>>
        /\ KeepFrames

EndUnwind ==
    /\ phase = "unwind" /\ step = Len(BoundaryTable)
    /\ phase' = "idle"
    /\ UNCHANGED <<host, registered, dryRun, checkpoint, step, scope, entries, bounded, failed,
                   now, stack, frames, steps>>
    /\ KeepFrames /\ KeepData

(* hhy_context_free.                                                         *)
FreeContext == phase = "idle" /\ Release

-----------------------------------------------------------------------------
Next ==
    \/ \E p, e \in Places, c \in Capacities : Call(p, c, e) \/ CallDirect(p, c, e)
    \/ TooDeep \/ EnterBlock \/ LeaveBlock \/ Declare \/ MakeClosure \/ Fail \/ Catch
    \/ \E c \in Contracts, t \in {0, 1} : Builtin(c, t)
    \/ \E g \in {"handle", "error", "nothing"} : Begin(g)
    \/ \E e \in Places : DropClosure(e)
    \/ \E rows \in BOOLEAN : MakeStream(rows)
    \/ \E r \in {"whole", "stream", "failed"} : Return(r)
    \/ \E commits \in BOOLEAN : EndTransaction(commits)
    \/ \E m \in Modules, runs \in BOOLEAN : Import(m, runs)
    \/ LeaveModule \/ MemoryJump \/ Finish \/ UnwindFrame
    \/ \E mutable \in BOOLEAN : EndLoad(mutable)
    \/ EnterCall \/ BeginUnwind \/ Unwind \/ EndUnwind \/ FreeContext

Spec == Init /\ [][Next]_vars

-----------------------------------------------------------------------------
(***************************************************************************)
(* What must hold.                                                         *)
(***************************************************************************)
NowType ==
    [contract : Contracts \cup {NoContract, Transaction}, effect : BOOLEAN,
     source : Modules \cup {Source}, depth : 0 .. MaxRecursion, trace : 0 .. TraceLimit]

(* The shape of the state; depth and trace stay inside their limits.          *)
TypeOK ==
    /\ FramesType /\ bounded \in BOOLEAN
    /\ host \in {"program", "context"} /\ {registered, dryRun, failed, scope} \subseteq BOOLEAN
    /\ phase \in {"load", "idle", "call", "unwind", "released"}
    /\ now \in NowType
    /\ \A i \in DOMAIN stack :
          /\ stack[i].kind \in {"program", "host", "call", "direct", "builtin", "transaction", "module"}
          /\ stack[i].frame \in Places \cup {Nil} /\ stack[i].scope \in Places
          /\ stack[i].was \in NowType
    /\ \A i \in DOMAIN frames : frames[i].env \in Places \cup {Nil} /\ frames[i].was \in NowType
    /\ closures \subseteq Places /\ temps \in Nat
    /\ \A h \in DOMAIN handles : handles[h] \in {"open", "committed", "rolledback"}
    /\ modules \in [Modules -> {"absent", "loading", "loaded"}]

Count(kinds) == Cardinality({i \in DOMAIN stack : stack[i].kind \in kinds})

InnermostName(kinds, none) ==
    LET at == {i \in DOMAIN stack : stack[i].kind \in kinds}
    IN IF at = {} THEN none ELSE stack[Max(at)].name

(* At every moment of a run, however the calls so far ended, the runtime's     *)
(* depth, trace and registered frames are those of the calls on the stack,    *)
(* its contract and effect those of the innermost builtin, and its source     *)
(* that of the innermost module, which is not yet loaded.                     *)
InStep ==
    Running =>
        /\ now.depth = Count({"call", "direct"})
        /\ now.trace = Min({TraceLimit, Count({"call", "builtin", "transaction"})})
        /\ registered => Len(frames) = Count({"call", "builtin", "transaction"})
        /\ now.contract = InnermostName({"builtin", "transaction"}, NoContract)
        /\ now.effect = Allowed(now.contract)
        /\ now.source = InnermostName({"module"}, Source)
        /\ \A i \in DOMAIN stack : stack[i].kind = "module" => modules[stack[i].name] = "loading"

(* No environment in the pool can be reached by anything alive, and none is    *)
(* in it twice: the next call that takes it changes nobody's variables.        *)
PoolIsPrivate ==
    /\ Pooled \cap Reached(Roots \ {Nil}) = {}
    /\ \A f, g \in Spots : InSpot(f) = InSpot(g) => f = g

(* Between the calls of an application its context is as it was after loading: *)
(* no stream, temporary, frame or transaction of an ended call, whichever way  *)
(* it ended; and a released runtime holds nothing.                            *)
IdleIsClean ==
    /\ phase = "idle" =>
          /\ stack = <<>> /\ frames = <<>> /\ ~scope
          /\ now = [contract |-> NoContract, effect |-> TRUE, source |-> Source, depth |-> 0, trace |-> 0]
          /\ entries > 0 =>
                /\ Len(streams) = checkpoint.streams /\ temps = checkpoint.temps
                /\ \A h \in DOMAIN handles : handles[h] # "open"
    /\ phase = "released" => streams = <<>> /\ temps = 0 /\ stack = <<>> /\ frames = <<>>

(* The runtime keeps its books of calls: on the stack, in the pool, and none *)
(* between calls.                                                            *)
BooksKept == TypeOK /\ InStep /\ PoolAgrees /\ IdleIsClean

(* A stream of rows of this call is closed while the extension still knows the *)
(* handles of the call ("Streams may own extension handles: close them before *)
(* ending that scope").                                                      *)
ScopeOutlivesStreams ==
    phase \in {"call", "unwind"} =>
        \A i \in checkpoint.streams + 1 .. Len(streams) : streams[i].rows => scope

(* A transaction is committed only in the step that ends the with_transaction  *)
(* which began it, when its callback returned a value that is not a stream    *)
(* and no error is under way; and what was ended stays so.                   *)
CommitOnlyWhole ==
    [][\A h \in DOMAIN handles :
          /\ handles[h] # "open" => handles'[h] = handles[h]
          /\ handles[h] = "open" /\ handles'[h] = "committed" =>
                /\ Top.kind = "transaction" /\ Top.handle = h /\ Top.result = "whole"
                /\ ~failed /\ ~failed']_vars
=============================================================================
