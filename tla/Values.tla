------------------------------- MODULE Values -------------------------------
(* The values a program computes with, the state of one run and the scopes  *)
(* it allocates (src/src/runtime.c).                                        *)
(*                                                                          *)
(* A value is a pair of its kind and its contents.  Int is a signed integer *)
(* of a small width; Exact is the largest integer a double represents       *)
(* exactly (2^53 in the build).  Strings, paths, floats, units and maps are *)
(* left out: they follow the path of the kinds kept here.                   *)
EXTENDS Integers, Sequences, FiniteSetsExt

CONSTANTS
    MaxInt,        \* largest Int; the smallest is -MaxInt - 1
    Exact,         \* integers up to here convert to double without rounding
    MaxRecursion,  \* limits.max_recursion
    Cadence,       \* a loop looks at the clock at every Cadence-th iteration
    Deadline       \* loop iterations of a run when max_runtime is over

ASSUME ValuesAssumption ==
    /\ MaxInt \in Nat \ {0} /\ Exact \in Nat \ {0}
    /\ MaxRecursion \in Nat \ {0}
    /\ Cadence \in Nat \ {0} /\ Deadline \in Nat \ {0}

MinInt == -MaxInt - 1

Null == <<"null", 0>>
Number(n) == <<"int", n>>
Bool(b) == <<"bool", b>>
Error(kind) == <<"error", kind>>
Kind(v) == v[1]
IsInt(v) == Kind(v) = "int"
IsFunction(v) == Kind(v) \in {"function", "builtin"}

----------------------------------------------------------------------------
(* The run: Runtime of runtime.c, with the value of the last expression.    *)
(* envs are the scopes ever allocated; streams the pipelines; `out` is what *)
(* was printed.  The last three fields record what the properties speak of. *)
NoScope == 0
Fresh(engine, chunk, options) ==
    [engine |-> engine, chunk |-> chunk, options |-> options,
     envs |-> <<>>, streams |-> <<>>, val |-> Null,
     failed |-> FALSE, err |-> Null, cancelled |-> FALSE,
     signal |-> "none", signalled |-> Null,
     depth |-> 0, ticks |-> 0, cache |-> <<>>, typed |-> <<>>, out |-> <<>>,
     slotsAgree |-> TRUE, skipped |-> FALSE, partial |-> FALSE]

Give(st, v) == [st EXCEPT !.val = v]

(* runtime_error_kind: the first error of a run wins. *)
Raise(st, error) ==
    IF st.failed THEN Give(st, Null)
    ELSE [st EXCEPT !.failed = TRUE, !.err = error, !.val = Null]
Fail(st, kind) == Raise(st, Error(kind))

(* runtime_check_cancel: max_runtime first, then a cancellation that was not *)
(* reported yet; the safepoint of a loop looks at every Cadence-th iteration. *)
CheckCancel(st) ==
    IF ~st.failed /\ st.ticks >= Deadline
    THEN [Fail(st, "TimeoutError") EXCEPT !.cancelled = TRUE]
    ELSE IF ~st.failed /\ st.cancelled THEN Fail(st, "CancelledError")
    ELSE st
Safepoint(st) ==
    LET ticked == [st EXCEPT !.ticks = @ + 1]
    IN IF ticked.ticks % Cadence = 0 THEN CheckCancel(ticked) ELSE ticked

----------------------------------------------------------------------------
(* Scopes: bindings in the order they were declared. *)
NewScope(st, parent) ==
    [st EXCEPT !.envs = Append(@, [parent |-> parent, items |-> <<>>])]
Newest(st) == Len(st.envs)

At(st, env, name) ==
    {i \in DOMAIN st.envs[env].items : st.envs[env].items[i].name = name}

(* env_define_n: a name already declared in this scope is refused. *)
Define(st, env, name, v, mutable) ==
    IF At(st, env, name) # {} THEN Give(Fail(st, "CheckError"), v)
    ELSE [st EXCEPT !.envs[env].items =
              Append(@, [name |-> name, val |-> v, mutable |-> mutable]),
                    !.val = v]

(* The scope `depth` levels outwards. *)
RECURSIVE Ancestor(_, _, _)
Ancestor(st, env, depth) ==
    IF env = NoScope \/ depth = 0 THEN env
    ELSE Ancestor(st, st.envs[env].parent, depth - 1)

(* The search by name, innermost scope first: << depth, position >>, or     *)
(* << >> when no scope declares the name.                                   *)
RECURSIVE Search(_, _, _, _)
Search(st, env, name, depth) ==
    IF env = NoScope THEN <<>>
    ELSE IF At(st, env, name) # {} THEN <<depth, Min(At(st, env, name))>>
    ELSE Search(st, st.envs[env].parent, name, depth + 1)

Holds(st, env, place) ==
    LET scope == Ancestor(st, env, place[1])
    IN scope # NoScope /\ place[2] <= Len(st.envs[scope].items)
Binding(st, env, place) == st.envs[Ancestor(st, env, place[1])].items[place[2]]

----------------------------------------------------------------------------
(* Operators. *)

(* The double an Int becomes: half-way integers go to the even neighbour. *)
AsDouble(n) ==
    IF n \in -Exact..Exact \/ n % 2 = 0 THEN n
    ELSE CHOOSE m \in {n - 1, n + 1} : m % 4 = 0

RECURSIVE Equal(_, _)
Equal(a, b) ==
    /\ Kind(a) = Kind(b)
    /\ CASE IsInt(a) -> AsDouble(a[2]) = AsDouble(b[2])
         [] Kind(a) \in {"null", "bool", "range"} -> a = b
         [] Kind(a) \in {"list", "result"} ->
              /\ Len(a[2]) = Len(b[2])
              /\ \A i \in DOMAIN a[2] : Equal(a[2][i], b[2][i])
         [] OTHER -> FALSE

InWidth(n) == n \in MinInt..MaxInt

(* The remainder of C: its sign is that of the dividend. *)
Magnitude(n) == IF n < 0 THEN -n ELSE n
Remainder(a, b) ==
    IF a < 0 THEN -(Magnitude(a) % Magnitude(b)) ELSE a % Magnitude(b)

Arithmetic(op, a, b) ==
    CASE op = "+" -> a + b
      [] op = "-" -> a - b
      [] op = "*" -> a * b

(* binary_value *)
Binary(st, op, a, b) ==
    CASE op = "==" -> Give(st, Bool(Equal(a, b)))
      [] op = "!=" -> Give(st, Bool(~Equal(a, b)))
      [] op \in {"and", "or"} ->
           IF Kind(a) # "bool" \/ Kind(b) # "bool" THEN Fail(st, "TypeError")
           ELSE Give(st, Bool(IF op = "and" THEN a[2] /\ b[2] ELSE a[2] \/ b[2]))
      [] op \in {"<", "+", "-", "*", "%"} /\ ~(IsInt(a) /\ IsInt(b)) ->
           Fail(st, "TypeError")
      [] op = "<" -> Give(st, Bool(a[2] < b[2]))
      [] op \in {"+", "-", "*"} ->
           IF InWidth(Arithmetic(op, a[2], b[2]))
           THEN Give(st, Number(Arithmetic(op, a[2], b[2])))
           ELSE Fail(st, "ValueError")
      [] op = "%" -> IF b[2] = 0 THEN Fail(st, "ValueError")
                     ELSE Give(st, Number(Remainder(a[2], b[2])))

(* `not` and the unary minus *)
Unary(st, op, v) ==
    CASE op = "not" -> IF Kind(v) = "bool" THEN Give(st, Bool(~v[2]))
                       ELSE Fail(st, "TypeError")
      [] op = "-" -> IF ~IsInt(v) THEN Fail(st, "TypeError")
                     ELSE IF v[2] = MinInt THEN Fail(st, "ValueError")
                     ELSE Give(st, Number(-v[2]))

(* A logical operator does not evaluate its right side. *)
Decided(op, left) ==
    \/ op = "and" /\ left = Bool(FALSE)
    \/ op = "or" /\ left = Bool(TRUE)

Index(st, list, index) ==
    IF Kind(list) # "list" \/ ~IsInt(index) THEN Fail(st, "TypeError")
    ELSE IF index[2] < 0 \/ index[2] >= Len(list[2]) THEN Fail(st, "IndexError")
    ELSE Give(st, list[2][index[2] + 1])

RangeOf(st, from, to) ==
    IF ~IsInt(from) \/ ~IsInt(to) THEN Fail(st, "TypeError")
    ELSE IF to[2] < from[2] THEN Fail(st, "ValueError")
    ELSE Give(st, <<"range", <<from[2], to[2]>>>>)

(* What print writes: a function shows no more than that it is one. *)
RECURSIVE Shown(_)
Shown(v) ==
    CASE IsFunction(v) \/ Kind(v) = "stream" -> <<Kind(v), 0>>
      [] Kind(v) \in {"list", "result"} -> <<Kind(v), [i \in DOMAIN v[2] |-> Shown(v[2][i])]>>
      [] OTHER -> v
=============================================================================
