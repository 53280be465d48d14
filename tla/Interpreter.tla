----------------------------- MODULE Interpreter -----------------------------
(* The evaluator of src/src/runtime.c.  The code has it twice, once over    *)
(* syntax trees (eval, exec_node) and once over bytecode (bytecode_eval,    *)
(* bytecode_exec), line for line the same.  Here it is written once, over a *)
(* cursor: a node of the tree, or the number of an instruction.  What the   *)
(* engines do differently has operators of its own: how a name is looked    *)
(* up, how a callable is laid out, the expressions of closures evaluated    *)
(* without a scope, typed plans, exception tables and fused pipelines.      *)
(*                                                                          *)
(* Options of a run: "plans" (HHY_BYTECODE_CALL_PLANS), "tables" (the       *)
(* exception tables), "typed" and "scalar" (typed plans, with list          *)
(* reservations), "unfused" (HHY_BYTECODE_SPECIALIZATION=off).              *)
EXTENDS Values, Checker, TypedPlans

IsTree(st) == st.engine = "tree"
With(st, option) == option \in st.options

Instr(st, n) == IF IsTree(st) THEN n ELSE st.chunk.code[n]
KindAt(st, n) == Instr(st, n).kind
Token(st, n) == IF IsTree(st) THEN n.tok ELSE TokenAt(st.chunk, n)
NameAt(st, n) == Token(st, n)[2]
Count(st, n) == IF IsTree(st) THEN Len(n.kids) ELSE st.chunk.code[n].count
Kid(st, n, i) == IF IsTree(st) THEN n.kids[i] ELSE ChildAt(st.chunk.code, n, i)
KidsFrom(st, n, first) == [i \in 1..Count(st, n) + 1 - first |-> Kid(st, n, first + i - 1)]

Stopped(st) == st.failed \/ st.signal # "none"

----------------------------------------------------------------------------
(* env_find_node: << place of the binding or << >>, the run >>.  A resolved *)
(* slot is taken as it is.  A tree remembers, per node, where it found the  *)
(* name, and believes it while a binding of that name is still there.       *)
Remembered(st, n) ==
    IF IsTree(st) /\ n.id \in DOMAIN st.cache THEN st.cache[n.id] ELSE <<>>
Remember(st, n, place) ==
    IF ~IsTree(st) THEN st
    ELSE [st EXCEPT !.cache = [k \in DOMAIN st.cache \cup {n.id} |->
                                  IF k = n.id THEN place ELSE st.cache[k]]]
Lookup(st, env, n) ==
    LET slot == Instr(st, n).slot
        cached == Remembered(st, n)
        found == Search(st, env, NameAt(st, n), 0)
    IN CASE slot # <<>> /\ Holds(st, env, slot) ->
              <<slot, [st EXCEPT !.slotsAgree = @ /\ slot = found]>>
         [] cached # <<>> /\ Holds(st, env, cached)
              /\ Binding(st, env, cached).name = NameAt(st, n) -> <<cached, st>>
         [] OTHER -> <<found, Remember(st, n, found)>>

----------------------------------------------------------------------------
(* Callables.  A function value keeps the cursor of its text, its scope and *)
(* whether it is a closure.                                                 *)
Callable(n, env, closure) == <<"function", [node |-> n, env |-> env, closure |-> closure]>>
BuiltInValue(x) == <<"builtin", x>>

Explicit(st, n) == Count(st, n) > 0 /\ KindAt(st, Kid(st, n, 1)) = "IDENTIFIER"
Planned(st) == ~IsTree(st) /\ With(st, "plans")
PlanFor(st, n) == EntryOf(st.chunk.plans, n, [parameters |-> 0])

(* The names of the parameters: from the layout, or from the children. *)
ParametersOf(st, f) ==
    LET plan == PlanFor(st, f.node)
        first == IF Planned(st) THEN plan.first ELSE IF f.closure THEN 1 ELSE 2
        count == IF Planned(st) THEN plan.parameters
                 ELSE IF f.closure THEN 1 ELSE Count(st, f.node) - 2
        implicit == IF Planned(st) THEN f.closure /\ plan.first = 0
                    ELSE f.closure /\ ~Explicit(st, f.node)
    IN IF implicit THEN <<"it">>
       ELSE [k \in 1..count |-> IF Planned(st) THEN NameAt(st, first + k - 1)
                                ELSE NameAt(st, Kid(st, f.node, first + k - 1))]

(* The statements of the body; the block of a function opens no scope. *)
RECURSIVE Siblings(_, _, _)
Siblings(code, at, count) ==
    IF count = 0 THEN <<>> ELSE <<at>> \o Siblings(code, at + code[at].size, count - 1)
StatementsOf(st, f) ==
    LET plan == PlanFor(st, f.node)
        closureBody == IF Planned(st) THEN Siblings(st.chunk.code, plan.body, plan.bodies)
                       ELSE KidsFrom(st, f.node, IF Explicit(st, f.node) THEN 2 ELSE 1)
        block == IF Planned(st) THEN plan.body ELSE Kid(st, f.node, Count(st, f.node))
    IN IF f.closure THEN closureBody ELSE KidsFrom(st, block, 1)

TakeReturn(st) ==
    IF st.signal = "return" THEN [st EXCEPT !.signal = "none", !.val = st.signalled] ELSE st

(* bytecode_eval_argument_expression: the expression of a closure over its  *)
(* one argument v, without a scope.  It gives up (ok = FALSE) at any other  *)
(* name and at anything but literals and operators.                         *)
Evaluated(st) == [ok |-> TRUE, st |-> st]
GivenUp(st) == [ok |-> FALSE, st |-> st]
RECURSIVE Argument(_, _, _, _)
Argument(st, n, x, v) ==
    LET i == st.chunk.code[n]
        op == NameAt(st, n)
        left == Argument(st, n + 1, x, v)
        right == Argument(left.st, Kid(st, n, 2), x, v)
        a == left.st.val
        b == right.st.val
    IN CASE i.kind = "IDENTIFIER" ->
              IF i.constant = x THEN Evaluated(Give(st, v)) ELSE GivenUp(st)
         [] i.kind = "LITERAL" -> Evaluated(Give(st, Token(st, n)))
         [] i.kind = "UNARY" ->
              IF left.ok THEN Evaluated(Unary(left.st, op, a)) ELSE left
         [] i.kind = "BINARY" ->
              IF ~left.ok \/ Decided(op, a) THEN left
              ELSE IF ~right.ok THEN right
              ELSE IF IsInt(a) /\ IsInt(b) /\ op \in {"==", "!="}
                   THEN Evaluated(Give(right.st, Bool((a = b) = (op = "=="))))
              ELSE Evaluated(Binary(right.st, op, a, b))
         [] OTHER -> GivenUp(st)

(* bytecode_function_target: closures with one expression and a parameter. *)
IsFast(st, f) ==
    /\ ~IsTree(st) /\ f.closure
    /\ Count(st, f.node) = 2 /\ Explicit(st, f.node)
    /\ KindAt(st, Kid(st, f.node, 2)) = "EXPR_STMT"
FastExpression(st, f, v) ==
    Argument(st, Kid(st, f.node, 2) + 1, st.chunk.code[f.node + 1].constant, v)

(* hhy_typed_execute: an operation that overflows is left to binary_value, *)
(* which reports it.                                                       *)
PlanStepped(args, done, step) ==
    LET a == done.regs[step.lhs]
        b == done.regs[step.rhs]
        result == CASE step.op = "int" -> Give(done.st, Number(step.value))
                    [] step.op = "arg" -> Give(done.st, args[step.value])
                    [] step.op = "reserve" -> Give(done.st, Number(0))
                    [] step.op = "copy" -> Give(done.st, a)
                    [] step.op = "neg" -> Unary(done.st, "-", a)
                    [] step.op = "<" -> Give(done.st, Bool(a[2] < b[2]))
                    [] OTHER -> Binary(done.st, step.op, a, b)
    IN IF done.st.failed THEN done
       ELSE [st |-> result, regs |-> Append(done.regs, result.val)]
PlanEnd(plan, done) == IF done.st.failed THEN done.st ELSE Give(done.st, done.regs[plan.result])
PlanResult(st, plan, args) ==
    PlanEnd(plan, FoldLeft(LAMBDA d, s : PlanStepped(args, d, s), [st |-> st, regs |-> <<>>], plan.code))

Reserves(plan) == \E i \in DOMAIN plan.code : plan.code[i].op = "reserve"
TypedPlan(st, n) == EntryOf(st.chunk.typed, n, NoPlan)
(* typed_call: << whether the plan ran, the run >>.  The call is counted in *)
(* the profile in any case.                                                 *)
TypedCall(st, f, args) ==
    LET integers == \A k \in DOMAIN args : IsInt(args[k])
        observed == [st EXCEPT !.typed = Observed(@, f.node, integers)]
        plan == TypedPlan(st, f.node)
    IN IF ~With(st, "typed") \/ st.failed THEN <<FALSE, st>>
       ELSE IF /\ integers /\ Ready(observed.typed, f.node)
               /\ plan # NoPlan /\ Len(args) = plan.parameters
               /\ Reserves(plan) => With(st, "scalar")
            THEN <<TRUE, PlanResult(observed, plan, args)>>
       ELSE <<FALSE, observed>>

----------------------------------------------------------------------------
(* Streams: a list, a range, or a stage over another stream. *)
NewStream(st, kind, source, fn) ==
    LET made == [kind |-> kind, source |-> source, fn |-> fn,
                 index |-> 0, claimed |-> FALSE, closed |-> FALSE]
        claimed == IF Kind(source) = "stream" THEN [st EXCEPT !.streams[source[2]].claimed = TRUE]
                   ELSE st
    IN [claimed EXCEPT !.streams = Append(@, made),
                       !.val = <<"stream", Len(claimed.streams) + 1>>]

Claimed(st, v) ==
    IF Kind(v) # "stream" THEN Fail(st, "TypeError")
    ELSE IF st.streams[v[2]].claimed THEN Fail(st, "ValueError")
    ELSE [st EXCEPT !.streams[v[2]].claimed = TRUE]

RECURSIVE CloseStream(_, _)
CloseStream(st, id) ==
    LET closed == [st EXCEPT !.streams[id].closed = TRUE]
    IN IF st.streams[id].closed THEN st
       ELSE IF Kind(st.streams[id].source) = "stream"
            THEN CloseStream(closed, st.streams[id].source[2])
       ELSE closed

(* The items of a list or a range still to come: << >> when there are none. *)
Upcoming(s) ==
    LET from == s.source[2]
    IN IF s.kind = "list" THEN IF s.index < Len(from) THEN <<from[s.index + 1]>> ELSE <<>>
       ELSE IF from[1] + s.index < from[2] THEN <<Number(from[1] + s.index)>> ELSE <<>>
Advanced(st, id) ==
    LET item == Upcoming(st.streams[id])
    IN Give([st EXCEPT !.streams[id].index = @ + 1], item[1])

RECURSIVE CallValue(_, _, _)
(* stream_next: << whether there is an item, the run with the item >>.      *)
RECURSIVE StreamNext(_, _)
(* A stage has called its closure for the item above.                       *)
StageAnswers(s, id, item, called) ==
    IF s.kind = "map" THEN <<~called.failed, called>>
    ELSE IF Kind(called.val) # "bool" THEN <<FALSE, Fail(called, "TypeError")>>
    ELSE IF called.val[2] THEN <<TRUE, Give(called, item)>>
    ELSE StreamNext(called, id)
(* A stage has read the stream above it.                                    *)
StageReads(s, id, above) ==
    IF ~above[1] THEN <<FALSE, CloseStream(above[2], id)>>
    ELSE StageAnswers(s, id, above[2].val, CallValue(above[2], s.fn, <<above[2].val>>))
StreamNext(st, id) ==
    LET s == st.streams[id]
        checked == CheckCancel(st)
    IN IF s.closed \/ checked.failed THEN <<FALSE, checked>>
       ELSE IF s.kind \in {"map", "where"}
            THEN StageReads(s, id, StreamNext(checked, s.source[2]))
       ELSE IF Upcoming(s) = <<>> THEN <<FALSE, CloseStream(checked, id)>>
       ELSE <<TRUE, Advanced(checked, id)>>

(* All items to the end or to a failure, and the close that follows. *)
RECURSIVE Drained(_, _, _)
DrainedFrom(next, id, items) ==
    IF next[1] THEN Drained(next[2], id, Append(items, next[2].val))
    ELSE Give(CloseStream(next[2], id), <<"list", items>>)
Drained(st, id, items) == DrainedFrom(StreamNext(st, id), id, items)

----------------------------------------------------------------------------
(* stream_collect in the bytecode engine: a pipeline of closures that have  *)
(* kernels, over a list or a range, is run in one loop.                     *)

(* The stages below a stream, outermost first, and what they start from. *)
RECURSIVE StagesOf(_, _)
StagesOf(st, id) ==
    LET s == st.streams[id]
    IN IF s.kind \in {"list", "range"} THEN <<id>> ELSE <<id>> \o StagesOf(st, s.source[2])
HasKernelFor(st, fn) ==
    Kind(fn) = "function" /\ fn[2].closure /\ HasEntry(st.chunk.kernels, fn[2].node)
Fusable(st, stages) ==
    /\ ~IsTree(st) /\ ~With(st, "unfused")
    /\ \A i \in DOMAIN stages :
          st.streams[stages[i]].kind \in {"map", "where"} => HasKernelFor(st, st.streams[stages[i]].fn)

(* The kernel's stack machine: << the result >>, or << >> when it refuses. *)
KernelOp(stack, op, item) ==
    LET a == stack[Len(stack) - 1]
        b == stack[Len(stack)]
        below == SubSeq(stack, 1, Len(stack) - 2)
    IN CASE op[1] = "item" -> Append(stack, item)
         [] op[1] = "int" -> Append(stack, op[2])
         [] op[1] = "*" -> IF InWidth(a * b) THEN Append(below, a * b) ELSE <<>>
         [] op[1] = "%" -> Append(below, Remainder(a, b))
         [] op[1] = "==" -> Append(below, IF a = b THEN 1 ELSE 0)
KernelResult(kernel, v) ==
    LET stacks[i \in 0..Len(kernel.code) - 1] ==
          IF i = 0 THEN <<>>
          ELSE IF i > 1 /\ stacks[i - 1] = <<>> THEN <<>>
          ELSE KernelOp(stacks[i - 1], kernel.code[i], v[2])
        left == stacks[Len(kernel.code) - 1]
    IN IF ~IsInt(v) \/ left = <<>> THEN <<>>
       ELSE <<IF kernel.result = "bool" THEN Bool(left[1] = 1) ELSE Number(left[1])>>

(* One item through one stage. *)
Stage(st, stream, item) ==
    LET kernel == EntryOf(st.chunk.kernels, stream.fn[2].node, NoPlan)
        result == KernelResult(kernel, item)
        expression == FastExpression(st, stream.fn[2], item)
    IN IF result # <<>> THEN Evaluated(Give(st, result[1])) ELSE expression
Filtered(done, stream, evaluated) ==
    IF ~evaluated.ok THEN [done EXCEPT !.st = [evaluated.st EXCEPT !.partial = TRUE]]
    ELSE IF stream.kind = "map" THEN [done EXCEPT !.st = evaluated.st, !.item = evaluated.st.val]
    ELSE IF Kind(evaluated.st.val) # "bool" THEN [done EXCEPT !.st = Fail(evaluated.st, "TypeError")]
    ELSE [done EXCEPT !.st = evaluated.st, !.keep = evaluated.st.val[2]]
Through(done, stream) ==
    IF ~done.keep \/ done.st.failed \/ done.st.partial THEN done
    ELSE Filtered(done, stream, Stage(done.st, stream, done.item))

RECURSIVE Fused(_, _, _)
FusedEnd(st, stages, items) == Give(CloseStream(st, stages[1]), <<"list", items>>)
(* An item has passed the stages, or not.                                   *)
FusedFrom(done, stages, items) ==
    IF done.st.failed \/ done.st.partial THEN FusedEnd(done.st, stages, items)
    ELSE Fused(done.st, stages, IF done.keep THEN Append(items, done.item) ELSE items)
FusedItem(begun, stages, items) ==
    LET base == Last(stages)
        item == Upcoming(begun.streams[base])
        inner == [i \in 1..Len(stages) - 1 |-> begun.streams[stages[Len(stages) - i]]]
    IN IF begun.failed \/ item = <<>> THEN FusedEnd(begun, stages, items)
       ELSE FusedFrom(FoldLeft(Through, [st |-> Advanced(begun, base), item |-> item[1], keep |-> TRUE], inner),
                      stages, items)
Fused(st, stages, items) == FusedItem(Safepoint(st), stages, items)

CollectClaimed(claimed, id) ==
    LET stages == StagesOf(claimed, id)
    IN IF claimed.failed THEN Give(claimed, Null)
       ELSE IF Fusable(claimed, stages) THEN Fused(claimed, stages, <<>>)
       ELSE Drained(claimed, id, <<>>)
Collect(st, v) == CollectClaimed(Claimed(st, v), v[2])

----------------------------------------------------------------------------
(* Built-in functions. *)
RECURSIVE WriteStream(_, _)
WriteItem(next, id) ==
    IF next[1] THEN WriteStream([next[2] EXCEPT !.out = Append(@, <<Shown(next[2].val)>>)], id)
    ELSE Give(CloseStream(next[2], id), Null)
WriteStream(st, id) == WriteItem(StreamNext(st, id), id)
Write(st, args) ==
    LET claimed == Claimed(st, args[1])
        streams == {k \in DOMAIN args : Kind(args[k]) = "stream"}
    IN CASE Len(args) = 1 /\ streams # {} ->
              IF claimed.failed THEN Give(claimed, Null) ELSE WriteStream(claimed, args[1][2])
         [] streams # {} -> Fail(st, "TypeError")
         [] OTHER -> Give([st EXCEPT !.out = Append(@, [k \in DOMAIN args |-> Shown(args[k])])],
                          IF args = <<>> THEN Null ELSE args[Len(args)])

Flow(st, kind, args) ==
    IF Kind(args[1]) # "stream" \/ ~IsFunction(args[2]) THEN Fail(st, "TypeError")
    ELSE IF st.streams[args[1][2]].claimed THEN Fail(st, "ValueError")
    ELSE NewStream(st, kind, args[1], args[2])

(* on_error over a stream is left out. *)
Apply(st, x, args) ==
    CASE x = "print" -> Write(st, args)
      [] x = "throw" -> [Give(st, Null) EXCEPT !.failed = TRUE, !.err = args[1]]
      [] x = "length" -> IF Kind(args[1]) = "list" THEN Give(st, Number(Len(args[1][2])))
                         ELSE Fail(st, "TypeError")
      [] x = "stream" -> IF Kind(args[1]) \in {"list", "range"}
                         THEN NewStream(st, Kind(args[1]), args[1], Null)
                         ELSE Fail(st, "TypeError")
      [] x \in {"map", "where"} -> Flow(st, x, args)
      [] x = "collect" -> Collect(st, args[1])
      [] x = "cancel" -> Give(CheckCancel([st EXCEPT !.cancelled = TRUE]), Null)
      [] x = "on_error" -> Fail(st, "TypeError")

----------------------------------------------------------------------------
(* call_function and call_closure after the recursion check. *)
RECURSIVE Run(_, _, _)
RunAll(st, env, statements) ==
    FoldLeft(LAMBDA s, n : IF Stopped(s) THEN s ELSE Run(s, env, n), Give(st, Null), statements)

(* The body in its scope, unless a typed plan has run instead.              *)
BodyIn(typed, scope, f) ==
    TakeReturn(IF typed[1] THEN typed[2] ELSE RunAll(typed[2], scope, StatementsOf(typed[2], f)))
InNewScope(st, f, args) ==
    LET names == ParametersOf(st, f)
        scope == Newest(st) + 1
        bound == FoldLeft(LAMBDA s, k : Define(s, scope, names[k], args[k], FALSE),
                          NewScope(st, f.env), [k \in DOMAIN args |-> k])
    IN BodyIn(IF IsTree(st) THEN <<FALSE, bound>> ELSE TypedCall(bound, f, args), scope, f)

FastBody(f, args, fast) == IF fast.ok THEN fast.st ELSE InNewScope(fast.st, f, args)
(* bytecode_function_target has seen the closure: its plan or its expression *)
(* answers without a scope.                                                 *)
FastCall(f, args, typed) ==
    IF typed[1] THEN typed[2] ELSE FastBody(f, args, FastExpression(typed[2], f, args[1]))
CallBody(st, f, args) ==
    LET plan == TypedPlan(st, f.node)
    IN IF Len(args) # Len(ParametersOf(st, f)) THEN Fail(st, "TypeError")
       ELSE IF ~IsFast(st, f) THEN InNewScope(st, f, args)
       ELSE FastCall(f, args, IF plan # NoPlan /\ ~Reserves(plan) THEN TypedCall(st, f, args)
                              ELSE <<FALSE, st>>)

(* call_value *)
CallValue(st, callee, args) ==
    LET entered == CallBody([st EXCEPT !.depth = @ + 1], callee[2], args)
    IN CASE ~IsFunction(callee) -> Fail(st, "TypeError")
         [] Kind(callee) = "builtin" ->
              IF Len(args) \in Arities[callee[2]] THEN Apply(st, callee[2], args)
              ELSE Fail(st, "TypeError")
         [] st.depth >= MaxRecursion -> Fail(st, "ResourceLimitError")
         [] OTHER -> [entered EXCEPT !.depth = st.depth]

(* eval_call, with the value a pipe injects in front of the arguments. *)
RunCall(st, env, n, injected) ==
    LET callee == Run(st, env, Kid(st, n, 1))
        given == FoldLeft(LAMBDA g, k : LET s == Run(g.st, env, k)
                                        IN [st |-> s, args |-> Append(g.args, s.val)],
                          [st |-> callee, args |-> injected], KidsFrom(st, n, 2))
    IN IF given.st.failed THEN Give(given.st, Null)
       ELSE CallValue(given.st, callee.val, given.args)

(* A stage on_error(h) catches what the left side throws, by its name alone. *)
CatchesError(st, stage) ==
    /\ KindAt(st, stage) = "CALL" /\ Count(st, stage) >= 2
    /\ Token(st, Kid(st, stage, 1)) = Name("on_error")
RunPipe(st, env, n) ==
    LET stage == Kid(st, n, 2)
        catches == CatchesError(st, stage)
        left == Run(st, env, Kid(st, n, 1))
        handler == Run([left EXCEPT !.failed = FALSE], env, Kid(st, stage, Count(st, stage)))
        callee == Run(left, env, stage)
    IN CASE catches /\ left.failed /\ ~left.cancelled ->
              IF handler.failed THEN Give(handler, Null)
              ELSE CallValue(handler, handler.val, <<left.err>>)
         [] catches /\ ~left.failed /\ Kind(left.val) # "stream" -> left
         [] KindAt(st, stage) = "CALL" -> RunCall(left, env, stage, <<left.val>>)
         [] OTHER -> CallValue(callee, callee.val, <<left.val>>)

----------------------------------------------------------------------------
(* Loops.  A body's `break` and `continue` end here; `return` and a failure *)
(* go on outwards.                                                          *)
AfterBody(st) == IF st.signal \in {"break", "continue"} THEN [st EXCEPT !.signal = "none"] ELSE st
LeavesLoop(st) == st.signal \in {"break", "return"}

RECURSIVE RunWhile(_, _, _, _)
RunWhile(st, env, n, result) ==
    LET begun == Safepoint(st)
        tested == Run(begun, env, Kid(st, n, 1))
        body == Run(tested, env, Kid(st, n, 2))
        onward == Kind(tested.val) = "bool" /\ tested.val[2] /\ ~tested.failed
    IN IF begun.failed THEN Give(begun, result)
       ELSE IF Kind(tested.val) # "bool" THEN Give(Fail(tested, "TypeError"), result)
       ELSE IF ~onward THEN Give(tested, result)
       ELSE IF LeavesLoop(body) THEN AfterBody(body)
       ELSE RunWhile(AfterBody(body), env, n, body.val)

(* The next item of what a FOR walks: a list by index, or a stream. *)
NextOf(st, iterable, index) ==
    IF Kind(iterable) = "stream" THEN StreamNext(st, iterable[2])
    ELSE IF index < Len(iterable[2]) THEN <<TRUE, Give(st, iterable[2][index + 1])>>
    ELSE <<FALSE, st>>
RECURSIVE RunFor(_, _, _, _, _, _)
ForBody(st, env, n, value) ==
    LET entered == NewScope(st, env)
        scope == Newest(entered)
        bound == Define(entered, scope, NameAt(st, Kid(st, n, 1)), value, FALSE)
    IN Run(bound, scope, Kid(st, n, 3))
ForContinues(body, env, n, iterable, index) ==
    IF LeavesLoop(body) \/ body.failed THEN AfterBody(body)
    ELSE RunFor(AfterBody(body), env, n, iterable, index + 1, body.val)
ForItem(next, env, n, iterable, index, result) ==
    IF ~next[1] THEN Give(next[2], result)
    ELSE ForContinues(ForBody(next[2], env, n, next[2].val), env, n, iterable, index)
RunFor(st, env, n, iterable, index, result) ==
    LET begun == Safepoint(st)
    IN IF begun.failed THEN Give(begun, result)
       ELSE ForItem(NextOf(begun, iterable, index), env, n, iterable, index, result)

BeginFor(st, env, n) ==
    LET given == Run(st, env, Kid(st, n, 2))
        opened == IF Kind(given.val) = "range" THEN NewStream(given, "range", given.val, Null) ELSE given
        iterable == opened.val
        claimed == IF Kind(iterable) = "stream" THEN Claimed(opened, iterable) ELSE opened
    IN IF Kind(iterable) \notin {"list", "stream"} THEN Fail(opened, "TypeError")
       ELSE IF Kind(iterable) = "stream" /\ claimed.failed THEN Give(claimed, Null)
       ELSE RunFor(claimed, env, n, iterable, 0, Null)

----------------------------------------------------------------------------
(* TRY and ATTEMPT, by the exception tables or by their children.  A signal *)
(* raised on the way to the error stays: the handler's block runs none of   *)
(* its statements then, which `skipped` records.                            *)
Tabled(st) == ~IsTree(st) /\ With(st, "tables")
RegionFor(st, n) == EntryOf(st.chunk.regions, n, NoPlan)
Protected(st, n) == IF Tabled(st) THEN RegionFor(st, n).begin ELSE Kid(st, n, 1)

RunTry(st, env, n) ==
    LET tried == Run(st, env, Protected(st, n))
        entered == NewScope([tried EXCEPT !.failed = FALSE], env)
        scope == Newest(entered)
        binding == IF Tabled(st) THEN RegionFor(st, n).binding ELSE Kid(st, n, 2)
        handler == IF Tabled(st) THEN RegionFor(st, n).handler ELSE Kid(st, n, 3)
        caught == Define(entered, scope, NameAt(st, binding), tried.err, FALSE)
    IN IF ~tried.failed THEN tried
       ELSE Run([caught EXCEPT !.skipped = @ \/ tried.signal # "none"], scope, handler)

RunAttempt(st, env, n) ==
    LET tried == Run(st, env, Protected(st, n))
    IN Give([tried EXCEPT !.failed = FALSE, !.err = st.err],
            <<"result", <<Bool(~tried.failed), IF tried.failed THEN Null ELSE tried.val,
                          IF tried.failed THEN tried.err ELSE Null>>>>)

----------------------------------------------------------------------------
(* Statements and expressions. *)
RunIdentifier(st, env, n) ==
    LET found == Lookup(st, env, n)
    IN IF found[1] # <<>> THEN Give(found[2], Binding(st, env, found[1]).val)
       ELSE IF BuiltIn(NameAt(st, n)) THEN Give(found[2], BuiltInValue(NameAt(st, n)))
       ELSE Fail(found[2], "CheckError")

RunBinary(st, env, n) ==
    LET op == NameAt(st, n)
        left == Run(st, env, Kid(st, n, 1))
        right == Run(left, env, Kid(st, n, 2))
    IN IF Decided(op, left.val) THEN left ELSE Binary(right, op, left.val, right.val)

(* The binding is found before the value is computed, and written even when *)
(* that fails.                                                              *)
RunAssign(st, env, n) ==
    LET found == Lookup(st, env, Kid(st, n, 1))
        place == found[1]
        value == Run(found[2], env, Kid(st, n, 2))
    IN IF place = <<>> THEN Fail(found[2], "CheckError")
       ELSE IF ~Binding(st, env, place).mutable THEN Fail(found[2], "CheckError")
       ELSE [value EXCEPT !.envs[Ancestor(st, env, place[1])].items[place[2]].val = value.val]

RunIf(st, env, n) ==
    LET tested == Run(st, env, Kid(st, n, 1))
    IN IF Kind(tested.val) # "bool" THEN Fail(tested, "TypeError")
       ELSE IF tested.val[2] THEN Run(tested, env, Kid(st, n, 2))
       ELSE IF Count(st, n) > 2 THEN Run(tested, env, Kid(st, n, 3))
       ELSE Give(tested, Null)

RunLet(st, env, n) ==
    LET at == IF Count(st, n) = 3 THEN 2 ELSE 1
        value == Run(st, env, Kid(st, n, at + 1))
    IN Define(value, env, NameAt(st, Kid(st, n, at)), value.val, Count(st, n) = 3)

RunList(st, env, n) ==
    LET items == FoldLeft(LAMBDA g, k : LET s == Run(g.st, env, k)
                                        IN [st |-> s, items |-> Append(g.items, s.val)],
                          [st |-> st, items |-> <<>>], KidsFrom(st, n, 1))
    IN Give(items.st, <<"list", items.items>>)

(* The import of a standard module that the scope does not see yet. *)
RunImport(st, env, n) ==
    LET x == NameAt(st, n)
    IN IF Search(st, env, x, 0) # <<>> THEN Give(st, Null)
       ELSE Give(Define(st, env, x, <<"module", x>>, FALSE), Null)

(* RETURN, BREAK and CONTINUE set their signal even when the value failed. *)
RunReturn(st, env, n) ==
    LET value == IF Count(st, n) = 0 THEN Give(st, Null) ELSE Run(st, env, Kid(st, n, 1))
    IN [value EXCEPT !.signal = "return", !.signalled = value.val]

(* The two operands of an index or a range, in order.                       *)
Operands(st, env, n) ==
    LET left == Run(st, env, Kid(st, n, 1))
    IN <<left.val, Run(left, env, Kid(st, n, 2))>>

RunIndex(st, env, n) ==
    LET both == Operands(st, env, n) IN Index(both[2], both[1], both[2].val)
RunRange(st, env, n) ==
    LET both == Operands(st, env, n) IN RangeOf(both[2], both[1], both[2].val)

Run(st, env, n) ==
    LET kind == KindAt(st, n)
        value == Run(st, env, Kid(st, n, 1))
        scope == NewScope(st, env)
    IN CASE st.failed -> Give(st, Null)
         [] kind = "PROGRAM" -> RunAll(st, env, KidsFrom(st, n, 1))
         [] kind = "BLOCK" -> RunAll(scope, Newest(scope), KidsFrom(st, n, 1))
         [] kind = "EXPR_STMT" -> value
         [] kind = "LITERAL" -> Give(st, Token(st, n))
         [] kind = "IDENTIFIER" -> RunIdentifier(st, env, n)
         [] kind = "LIST" -> RunList(st, env, n)
         [] kind = "INDEX" -> RunIndex(st, env, n)
         [] kind = "RANGE" -> RunRange(st, env, n)
         [] kind = "UNARY" -> Unary(value, NameAt(st, n), value.val)
         [] kind = "BINARY" -> RunBinary(st, env, n)
         [] kind = "CALL" -> RunCall(st, env, n, <<>>)
         [] kind = "PIPE" -> RunPipe(st, env, n)
         [] kind = "ASSIGN" -> RunAssign(st, env, n)
         [] kind = "ATTEMPT" -> RunAttempt(st, env, n)
         [] kind = "TRY" -> RunTry(st, env, n)
         [] kind = "LET_DECL" -> RunLet(st, env, n)
         [] kind = "FN_DECL" ->
              LET f == Callable(n, env, FALSE)
              IN Define(Give(st, f), env, NameAt(st, Kid(st, n, 1)), f, FALSE)
         [] kind = "CLOSURE" -> Give(st, Callable(n, env, TRUE))
         [] kind = "IMPORT_DECL" -> RunImport(st, env, n)
         [] kind = "IF" -> RunIf(st, env, n)
         [] kind = "WHILE" -> RunWhile(st, env, n, Null)
         [] kind = "FOR" -> BeginFor(st, env, n)
         [] kind = "RETURN" -> RunReturn(st, env, n)
         [] kind \in {"BREAK", "CONTINUE"} ->
              [Give(st, Null) EXCEPT !.signal = IF kind = "BREAK" THEN "break" ELSE "continue"]

----------------------------------------------------------------------------
(* A whole run (hhy_profile_program), and what can be seen of it. *)
ShownOf(st) ==
    [failed |-> st.failed, err |-> IF st.failed THEN Shown(st.err) ELSE Null,
     out |-> st.out, slotsAgree |-> st.slotsAgree, skipped |-> st.skipped, partial |-> st.partial]
Ended(st) == IF st.signal \in {"break", "continue"} THEN Fail(st, "CheckError") ELSE st
Executed(st, root) ==
    LET begun == NewScope(st, NoScope) IN ShownOf(Ended(Run(begun, Newest(begun), root)))
ByTree(program) == Executed(Fresh("tree", <<>>, {}), program)
ByBytecode(chunk, options) == Executed(Fresh("byte", chunk, options), 1)
=============================================================================
