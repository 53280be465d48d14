------------------------------ MODULE Bytecode ------------------------------
(* The compiler from trees to bytecode, its verifier and the preparation of *)
(* a chunk (src/src/bytecode.c, src/src/bytecode_runtime.c).                *)
(*                                                                          *)
(* An instruction is followed by the instructions of its children; `size`   *)
(* counts it and all of them.  A chunk has three side tables: the layout of *)
(* every callable, the regions of every TRY and ATTEMPT, and the kernels of *)
(* the closures a fused pipeline can run on integers.  Typed plans are a    *)
(* module of their own, TypedPlans.  Instructions are numbered from 1, and  *)
(* 0 is "no instruction" and "no constant".                                 *)
EXTENDS Syntax, FiniteSetsExt, SequencesExt

CONSTANT MaxNesting       \* HHY_BYTECODE_MAX_NESTING
ASSUME NestingAssumption == MaxNesting \in Nat

Kinds == {"PROGRAM", "LET_DECL", "FN_DECL", "IMPORT_DECL", "BLOCK", "IF", "FOR",
          "WHILE", "TRY", "RETURN", "BREAK", "CONTINUE", "EXPR_STMT", "ASSIGN",
          "PIPE", "BINARY", "UNARY", "RANGE", "CALL", "INDEX", "CLOSURE",
          "ATTEMPT", "LIST", "IDENTIFIER", "LITERAL"}
Callables == {"FN_DECL", "CLOSURE"}
Regions == {"TRY", "ATTEMPT"}

EmptyChunk == [ok |-> TRUE, code |-> <<>>, constants |-> <<>>,
               plans |-> <<>>, regions |-> <<>>, kernels |-> <<>>, typed |-> <<>>]

Instruction(kind, constant, n) ==
    [kind |-> kind, constant |-> constant, count |-> Len(n.kids), size |-> 0,
     slot |-> n.slot, frame |-> n.frame]
Halt == [kind |-> "HALT", constant |-> 0, count |-> 0, size |-> 1,
         slot |-> <<>>, frame |-> 0]

----------------------------------------------------------------------------
(* Reading a chunk. *)

(* hhy_bytecode_child: the children follow their parent, one after another. *)
ChildAt(code, parent, index) ==
    LET start[i \in 1..index] ==
          IF i = 1 THEN parent + 1 ELSE start[i - 1] + code[start[i - 1]].size
    IN start[index]

TokenAt(chunk, at) ==
    IF chunk.code[at].constant = 0 THEN NoToken ELSE chunk.constants[chunk.code[at].constant]

(* The entry of a table for an instruction; a default when it has none. *)
EntryOf(table, at, default) ==
    LET found == {i \in DOMAIN table : table[i].source = at}
    IN IF found = {} THEN default ELSE table[Min(found)]
HasEntry(table, at) == \E i \in DOMAIN table : table[i].source = at

----------------------------------------------------------------------------
(* Stream kernels: the closures `x => x * c` and `x => x % c == d`. *)

IntConstant(n) == n.kind = "LITERAL" /\ n.tok[1] = "int"
IsParameter(n, closure) == n.kind = "IDENTIFIER" /\ n.tok = Child(closure, 1).tok
IsBinary(n, op) == n.kind = "BINARY" /\ n.tok = OpOf(op)
SingleExpression(n) ==
    /\ n.kind = "CLOSURE" /\ Len(n.kids) = 2 /\ HasParameter(n)
    /\ Child(n, 2).kind = "EXPR_STMT"

TimesConstant(e, closure) ==
    IsBinary(e, "*") /\ IsParameter(Child(e, 1), closure) /\ IntConstant(Child(e, 2))
(* A modulus of zero is left to the expression, which reports it. *)
RemainderIsConstant(e, closure) ==
    /\ IsBinary(e, "==") /\ IsBinary(Child(e, 1), "%")
    /\ IsParameter(Child(Child(e, 1), 1), closure)
    /\ IntConstant(Child(Child(e, 1), 2)) /\ Text(Child(Child(e, 1), 2)) # 0
    /\ IntConstant(Child(e, 2))

KernelOf(closure, at) ==
    LET e == Child(Child(closure, 2), 1)
    IN CASE TimesConstant(e, closure) ->
              [source |-> at, result |-> "int",
               code |-> <<<<"item", 0>>, <<"int", Text(Child(e, 2))>>, <<"*", 0>>, <<"return", 0>>>>]
         [] RemainderIsConstant(e, closure) ->
              [source |-> at, result |-> "bool",
               code |-> <<<<"item", 0>>, <<"int", Text(Child(Child(e, 1), 2))>>, <<"%", 0>>,
                          <<"int", Text(Child(e, 2))>>, <<"==", 0>>, <<"return", 0>>>>]
HasKernel(n) ==
    SingleExpression(n) /\ LET e == Child(Child(n, 2), 1)
                           IN TimesConstant(e, n) \/ RemainderIsConstant(e, n)

----------------------------------------------------------------------------
(* compile_node *)

(* add_constant: equal texts share an entry. *)
WithConstant(constants, token) ==
    IF token = NoToken \/ Contains(constants, token) THEN constants
    ELSE Append(constants, token)
ConstantOf(constants, token) ==
    IF token = NoToken THEN 0 ELSE CHOOSE i \in DOMAIN constants : constants[i] = token

RECURSIVE Emit(_, _, _)
Emit(chunk, n, depth) ==
    IF ~chunk.ok THEN chunk
    ELSE IF depth > MaxNesting THEN [chunk EXCEPT !.ok = FALSE]
    ELSE LET at == Len(chunk.code) + 1
             constants == WithConstant(chunk.constants, n.tok)
             begun == [chunk EXCEPT
                         !.constants = constants,
                         !.code = Append(@, Instruction(n.kind, ConstantOf(constants, n.tok), n))]
             filled == FoldLeft(LAMBDA c, kid : Emit(c, kid, depth + 1), begun, n.kids)
             sized == [filled EXCEPT !.code[at].size = Len(filled.code) + 1 - at]
         IN IF sized.ok /\ HasKernel(n)
            THEN [sized EXCEPT !.kernels = Append(@, KernelOf(n, at))]
            ELSE sized

(* call_layout of a callable: where its parameters and its body begin. *)
Layout(code, at) ==
    LET callable == code[at]
        parameters == IF callable.kind = "FN_DECL" THEN callable.count - 2 ELSE 1
        explicit == callable.kind = "CLOSURE" /\ callable.count > 0
                      /\ code[at + 1].kind = "IDENTIFIER"
        first == CASE callable.kind = "FN_DECL" -> IF parameters > 0 THEN at + 2 ELSE 0
                   [] OTHER -> IF explicit THEN at + 1 ELSE 0
        bodies == CASE callable.kind = "FN_DECL" -> 1
                    [] OTHER -> IF explicit THEN callable.count - 1 ELSE callable.count
    IN [source |-> at, parameters |-> parameters, first |-> first, bodies |-> bodies,
        body |-> IF bodies = 0 THEN 0 ELSE ChildAt(code, at, callable.count - bodies + 1),
        capacity |-> Max({callable.frame, parameters})]

CallPlans(code) ==
    LET callables == SelectSeq([i \in DOMAIN code |-> i], LAMBDA i : code[i].kind \in Callables)
    IN [i \in DOMAIN callables |-> Layout(code, callables[i])]

(* Mutant: the handler is taken to begin at the name it binds. *)
RegionAtMutant(code, at, owner, parent) ==
    LET binding == at + 1 + code[at + 1].size
        try == code[at].kind = "TRY"
    IN [source |-> at, owner |-> owner, parent |-> parent,
        begin |-> at + 1, end |-> binding,
        binding |-> IF try THEN binding ELSE 0, handler |-> IF try THEN binding ELSE 0]
(* exception_walk: the regions below an instruction, in the order of the  *)
(* code, with the callable that owns them and the region that protects    *)
(* them.  A handler is not protected by its own TRY.                      *)
RegionAt(code, at, owner, parent) ==
    LET binding == at + 1 + code[at + 1].size
        try == code[at].kind = "TRY"
    IN [source |-> at, owner |-> owner, parent |-> parent,
        begin |-> at + 1, end |-> binding,
        binding |-> IF try THEN binding ELSE 0, handler |-> IF try THEN binding + 1 ELSE 0]

RECURSIVE RegionsBelow(_, _, _, _)
RegionsBelow(code, at, owner, parent) ==
    LET callable == code[at].kind \in Callables
        inOwner == IF callable THEN at ELSE owner
        outer == IF callable THEN 0 ELSE parent
        region == code[at].kind \in Regions
        below[i \in 0..code[at].count] ==
            IF i = 0 THEN <<>>
            ELSE below[i - 1] \o RegionsBelow(code, ChildAt(code, at, i), inOwner,
                                              IF region /\ i = 1 THEN at ELSE outer)
    IN (IF region THEN <<RegionAt(code, at, inOwner, outer)>> ELSE <<>>) \o below[code[at].count]
ExceptionRegions(code) == RegionsBelow(code, 1, 1, 0)

(* hhy_bytecode_compile_direct up to its own verification. *)
CompileDirect(program) ==
    LET emitted == Emit(EmptyChunk, program, 0)
        code == Append(emitted.code, Halt)
    IN IF ~emitted.ok THEN emitted
       ELSE [emitted EXCEPT !.code = code, !.plans = CallPlans(code),
                            !.regions = ExceptionRegions(code)]

----------------------------------------------------------------------------
(* The verifier. *)

(* verify_node: the instruction after the subtree at `at`; 0 when the *)
(* subtree is not well formed.                                        *)
RECURSIVE EndOf(_, _, _)
EndOf(chunk, at, depth) ==
    LET i == chunk.code[at]
        after[k \in 0..i.count] ==
            IF k = 0 THEN at + 1
            ELSE IF after[k - 1] = 0 THEN 0 ELSE EndOf(chunk, after[k - 1], depth + 1)
    IN IF depth > MaxNesting \/ at > Len(chunk.code) THEN 0
       ELSE IF i.kind \notin Kinds \/ i.size \notin 1..Len(chunk.code) + 1 - at
                 \/ i.constant \notin 0..Len(chunk.constants) THEN 0
       ELSE IF after[i.count] = at + i.size THEN after[i.count] ELSE 0

(* verify_stream_kernel: the types on the stack, checked step by step. *)
KernelStep(stack, op) ==
    CASE op[1] = "item" -> Append(stack, <<"int", -1>>)
      [] op[1] = "int" -> Append(stack, <<"int", op[2]>>)
      [] op[1] \in {"*", "%", "=="} ->
           LET rest == SubSeq(stack, 1, Len(stack) - 2)
           IN IF Len(stack) < 2 \/ Last(stack)[1] # "int" \/ stack[Len(stack) - 1][1] # "int"
                 \/ (op[1] = "%" /\ Last(stack)[2] = 0)
              THEN <<<<"bad", 0>>>>
              ELSE Append(rest, <<IF op[1] = "==" THEN "bool" ELSE "int", -1>>)
KernelVerifies(chunk, at) ==
    LET kernel == chunk.kernels[at]
        steps == Front(kernel.code)
        stack == FoldLeft(KernelStep, <<>>, steps)
    IN /\ chunk.code[kernel.source].kind = "CLOSURE"
       /\ \A i \in 1..at - 1 : chunk.kernels[i].source # kernel.source
       /\ Last(kernel.code)[1] = "return"
       /\ \A i \in DOMAIN steps : steps[i][1] # "return"
       /\ Len(stack) = 1 /\ stack[1][1] = kernel.result

(* verify_call_plans: those that are there, in the order of the code. *)
CallPlansVerify(chunk) ==
    /\ \A i \in 2..Len(chunk.plans) : chunk.plans[i - 1].source < chunk.plans[i].source
    /\ ToSet(chunk.plans) \subseteq ToSet(CallPlans(chunk.code))

Verifies(chunk) ==
    /\ chunk.code # <<>>
    /\ LET end == EndOf(chunk, 1, 0)
       IN /\ end # 0 /\ chunk.code[1].kind = "PROGRAM"
          /\ end = Len(chunk.code) /\ chunk.code[end] = Halt
    /\ chunk.regions = ExceptionRegions(chunk.code)
    /\ CallPlansVerify(chunk)
    /\ \A i \in DOMAIN chunk.kernels : KernelVerifies(chunk, i)

(* hhy_bytecode_prepare_execution: the frames of a walk over the code; each *)
(* entry counts the children its instruction still has.                     *)
RECURSIVE Exhausted(_)
Exhausted(frames) ==
    IF frames # <<>> /\ Last(frames) = 0 THEN Exhausted(Front(frames)) ELSE frames
Entered(walk, instruction) ==
    LET frames == Exhausted(walk.frames)
        counted == IF frames = <<>> THEN frames
                   ELSE [frames EXCEPT ![Len(frames)] = @ - 1]
    IN IF ~walk.ok \/ Len(frames) >= MaxNesting + 1 THEN [walk EXCEPT !.ok = FALSE]
       ELSE [walk EXCEPT !.frames = Append(counted, instruction.count)]
Prepares(chunk) ==
    LET walk == FoldLeft(Entered, [ok |-> TRUE, frames |-> <<>>], Front(chunk.code))
    IN walk.ok /\ Exhausted(walk.frames) = <<>>

(* hhy_bytecode_runtime_prepare can be told to damage the chunk. *)
Faults == {"invalid-opcode", "missing-halt", "invalid-call-plan", "invalid-exception-region"}
FaultApplies(chunk, fault) ==
    /\ fault = "invalid-call-plan" => chunk.plans # <<>>
    /\ fault = "invalid-exception-region" => chunk.regions # <<>>
Damaged(chunk, fault) ==
    CASE fault = "invalid-opcode" -> [chunk EXCEPT !.code[1].kind = "COUNT"]
      [] fault = "missing-halt" -> [chunk EXCEPT !.code = Front(@)]
      [] fault = "invalid-call-plan" -> [chunk EXCEPT !.plans[1].body = -1]
      [] fault = "invalid-exception-region" -> [chunk EXCEPT !.regions[1].end = -1]
=============================================================================
