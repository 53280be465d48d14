------------------------------ MODULE Engines ------------------------------
(* The two engines on the same program: hhy_profile_program_engine of       *)
(* src/src/runtime.c, hhy_bytecode_runtime_prepare of                       *)
(* src/src/bytecode_runtime.c and `hhy check`.                              *)
(*                                                                          *)
(* A program is checked, run over its tree, and then compiled, prepared and *)
(* run as bytecode with some options.  What the checker says does not stop  *)
(* a run: `hhy check` is a command of its own.  A fault may be injected     *)
(* into the chunk before it is prepared, as HHY_TEST_BYTECODE_FAULT does.   *)
EXTENDS Interpreter, Resolver

CONSTANTS
    Programs,      \* the syntax trees that are tried
    Options        \* the sets of options that are tried
ASSUME OptionsAssumption ==
    Options \subseteq SUBSET {"plans", "tables", "typed", "scalar", "unfused"}

VARIABLES
    source,        \* the tree of the program, its nodes numbered
    report,        \* what the checker said of it, or None
    oracle,        \* the outcome of the run over the tree, or None
    phase,         \* how far the program is
    options,       \* its options
    fault,         \* the fault injected into its chunk, "none" for none
    chunk,         \* its code
    outcome        \* its outcome, or None
vars == <<source, report, oracle, phase, options, fault, chunk, outcome>>

None == <<>>

Init ==
    /\ source \in {Numbered(p, 1) : p \in Programs}
    /\ report = None /\ oracle = None /\ phase = "parsed"
    /\ options = {} /\ fault = "none" /\ chunk = EmptyChunk /\ outcome = None

(* hhy check *)
CheckSource ==
    /\ phase = "parsed"
    /\ phase' = "checked"
    /\ report' = CheckProgram(source)
    /\ UNCHANGED <<source, oracle, options, fault, chunk, outcome>>

(* hhy run --engine ast *)
RunTree ==
    /\ phase = "checked"
    /\ phase' = "interpreted"
    /\ oracle' = ByTree(ResolveSlots(source))
    /\ UNCHANGED <<source, report, options, fault, chunk, outcome>>

(* hhy_bytecode_runtime_prepare: compile and verify, damage the chunk when  *)
(* told to, verify again and prepare.                                       *)
Completed(direct) ==
    IF direct.ok THEN [direct EXCEPT !.ok = Verifies(direct), !.typed = TypedPlansOf(direct)] ELSE direct
CompiledFrom(program) == Completed(CompileDirect(program))
(* Mutant: the damaged chunk is not verified again. *)
AcceptsMutant(c) == PlansVerify(c) /\ Prepares(c)
Accepts(c) == Verifies(c) /\ PlansVerify(c) /\ Prepares(c)

Injected(compiled, f) == IF f = "none" THEN compiled ELSE Damaged(compiled, f)
Fits(compiled, f) == compiled.ok /\ (f = "none" \/ FaultApplies(compiled, f))
PrepareChunk(compiled, f, damaged) ==
    /\ fault' = f
    /\ IF Fits(compiled, f) /\ Accepts(damaged)
       THEN phase' = "prepared" /\ chunk' = damaged
       ELSE phase' = "refused" /\ UNCHANGED chunk

Prepare ==
    /\ phase = "interpreted"
    /\ \E compiled \in {CompiledFrom(ResolveSlots(source))} : \E f \in Faults \cup {"none"} :
          PrepareChunk(compiled, f, Injected(compiled, f))
    /\ UNCHANGED <<source, report, oracle, options, outcome>>

RunBytecode ==
    /\ phase = "prepared"
    /\ phase' = "done"
    /\ options' \in Options
    /\ outcome' = ByBytecode(chunk, options')
    /\ UNCHANGED <<source, report, oracle, fault, chunk>>

Next == CheckSource \/ RunTree \/ Prepare \/ RunBytecode
Spec == Init /\ [][Next]_vars

----------------------------------------------------------------------------
(* What a user sees of a run: what it printed, and the error it ended with. *)
Seen(run) == [out |-> run.out, failed |-> run.failed, err |-> run.err]

(* A chunk that was accepted is what the compiler made of the program: a    *)
(* damaged chunk is refused (bytecode_runtime.c), and the chunk of every    *)
(* program within the nesting limit, and of no other, passes the verifier   *)
(* and the walk of the preparation (bytecode.c).                            *)
OnlyWholeChunks ==
    /\ phase \in {"parsed", "checked", "interpreted", "prepared", "refused", "done"}
    /\ phase \in {"prepared", "done"} =>
          /\ fault = "none" /\ Nesting(source) <= MaxNesting
          /\ Len(chunk.code) = Size(source) + 1
    /\ phase = "refused" => fault # "none" \/ Nesting(source) > MaxNesting

(* Both engines print the same and end with the same error, whatever the    *)
(* options (docs/BYTECODE.md); a fused pipeline drops no item.              *)
EnginesAgree ==
    /\ (oracle # None /\ outcome # None) => Seen(outcome) = Seen(oracle)
    /\ outcome # None => ~outcome.partial

(* A slot the resolver computed holds the binding that a search by name     *)
(* finds, at every evaluation of the identifier (resolver.c, runtime.c      *)
(* env_find_node).                                                          *)
SlotsAgree ==
    /\ oracle # None => oracle.slotsAgree
    /\ outcome # None => outcome.slotsAgree

(* A program that the checker accepts without a word meets no error of      *)
(* naming, declaration or loop control when it runs (checker.c).            *)
CheckedRunsCleanly ==
    (report # None /\ oracle # None /\ report.errors + report.warnings = 0)
        => oracle.err # Error("CheckError")

(* A handler that catches an error runs (docs/HHY_V1.en.md:858). *)
CatchRuns == oracle # None => ~oracle.skipped
=============================================================================
