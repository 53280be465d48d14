----------------------------- MODULE TypedPlans -----------------------------
(* Integer plans for callables that were given integers again and again     *)
(* (src/src/typed_plan.c): a register program for the body of a function    *)
(* `return e` or of a closure with one expression, its execution, and the   *)
(* profile that decides when it is used.                                    *)
(*                                                                          *)
(* A plan's code is a sequence of [op, source, lhs, rhs, value]; registers  *)
(* are numbered from 1 and 0 is no register.                                *)
EXTENDS Bytecode

CONSTANTS
    PlanOps,      \* HHY_TYPED_OPS: instructions of a plan
    Sites,        \* HHY_TYPED_SITES: entries of the profile
    Stable,       \* integer calls in a row before a plan is used (8)
    Misses        \* other calls after which a site is disabled (8)
ASSUME PlanAssumption ==
    /\ PlanOps \in Nat \ {0} /\ Sites \in Nat \ {0}
    /\ Stable \in Nat \ {0} /\ Misses \in Nat \ {0}

NoPlan == [source |-> 0]
Comparisons == {"<"}
PlanStep(op, source, lhs, rhs, value) ==
    [op |-> op, source |-> source, lhs |-> lhs, rhs |-> rhs, value |-> value]

(* A plan under construction: `at` is the register of the value, 0 when the *)
(* expression has no plan.                                                  *)
Refused(p) == [p EXCEPT !.at = 0]
Appended(p, step) ==
    IF Len(p.code) = PlanOps THEN Refused(p)
    ELSE [p EXCEPT !.code = Append(@, step), !.at = Len(p.code) + 1]
Compares(p, register) == p.code[register].op \in Comparisons

RECURSIVE PlanExpression(_, _, _, _)
(* [ a, b ][ i ] with a literal index: its elements are computed in registers *)
(* and the list is only reserved.                                             *)
PlanSelection(chunk, p, at, depth) ==
    LET list == at + 1
        index == ChildAt(chunk.code, at, 2)
        size == chunk.code[list].count
        wanted == TokenAt(chunk, index)
        fits == /\ chunk.code[list].kind = "LIST" /\ chunk.code[index].kind = "LITERAL"
                /\ wanted[1] = "int" /\ wanted[2] < size
                /\ \A i \in DOMAIN p.code : p.code[i].op # "reserve"
        reserved == Appended(p, PlanStep("reserve", list, 0, 0, size))
        (* << the plan so far, the register of the selected element >> *)
        items[i \in 0..size] ==
            IF i = 0 THEN <<reserved, 0>>
            ELSE LET before == items[i - 1]
                     item == PlanExpression(chunk, before[1], ChildAt(chunk.code, list, i), depth + 1)
                 IN IF before[1].at = 0 THEN before
                    ELSE IF item.at = 0 \/ Compares(item, item.at) THEN <<Refused(item), 0>>
                    ELSE <<item, IF i = wanted[2] + 1 THEN item.at ELSE before[2]>>
    IN IF ~fits \/ items[size][1].at = 0 THEN Refused(p)
       ELSE Appended(items[size][1], PlanStep("copy", at, items[size][2], 0, 0))

PlanExpression(chunk, p, at, depth) ==
    LET i == chunk.code[at]
        token == TokenAt(chunk, at)
        a == PlanExpression(chunk, p, at + 1, depth + 1)
        b == PlanExpression(chunk, a, ChildAt(chunk.code, at, 2), depth + 1)
        register == a.at
    IN IF p.at = 0 \/ depth >= PlanOps THEN Refused(p)
       ELSE CASE i.kind = "LITERAL" /\ token[1] = "int" ->
                   Appended(p, PlanStep("int", at, 0, 0, token[2]))
              [] i.kind = "IDENTIFIER" ->
                   (* a captured name is no parameter and has no plan *)
                   IF Contains(p.parameters, i.constant)
                   THEN Appended(p, PlanStep("arg", at, 0, 0,
                            CHOOSE k \in DOMAIN p.parameters : p.parameters[k] = i.constant))
                   ELSE Refused(p)
              [] i.kind = "INDEX" /\ p.scalar ->
                   PlanSelection(chunk, p, at, depth)
              [] i.kind = "UNARY" /\ token[2] = "-" ->
                   IF a.at = 0 \/ Compares(a, a.at) THEN Refused(p)
                   ELSE Appended(a, PlanStep("neg", at, a.at, 0, 0))
              [] i.kind = "BINARY" /\ token[2] \in {"+", "-", "*", "%", "<"} ->
                   IF a.at = 0 THEN Refused(p)
                   ELSE IF b.at = 0 \/ Compares(b, register) \/ Compares(b, b.at) THEN Refused(p)
                   ELSE Appended(b, PlanStep(token[2], at, register, b.at, 0))
              [] OTHER -> Refused(p)

(* hhy_typed_build: the body of a callable, when it is one expression. *)
PlannedBody(code, at) ==
    LET i == code[at]
        body == ChildAt(code, at, i.count)
    IN CASE i.kind = "FN_DECL" ->
              IF code[body].count = 1 /\ code[body + 1].kind = "RETURN" /\ code[body + 1].count = 1
              THEN body + 1 ELSE 0
         [] i.kind = "CLOSURE" ->
              IF i.count = 2 /\ code[at + 1].kind = "IDENTIFIER"
                 /\ code[body].kind \in {"EXPR_STMT", "RETURN"} /\ code[body].count = 1
              THEN body ELSE 0
PlanOf(chunk, at) ==
    LET body == PlannedBody(chunk.code, at)
        layout == Layout(chunk.code, at)
        names == [k \in 1..layout.parameters |-> chunk.code[layout.first + k - 1].constant]
        start == [code |-> <<>>, parameters |-> names, at |-> -1, scalar |-> TRUE]
        built == PlanExpression(chunk, start, body + 1, 0)
    IN IF body = 0 \/ built.at = 0 THEN NoPlan
       ELSE [source |-> at, parameters |-> Len(names), code |-> built.code, result |-> built.at]

(* Plans are built for the chunk as a whole; verification rebuilds them. *)
TypedPlansOf(chunk) ==
    LET callables == SelectSeq([i \in DOMAIN chunk.code |-> i],
                               LAMBDA i : chunk.code[i].kind \in Callables
                                            /\ PlanOf(chunk, i) # NoPlan)
    IN [i \in DOMAIN callables |-> PlanOf(chunk, callables[i])]
PlansVerify(chunk) == \A i \in DOMAIN chunk.typed : chunk.typed[i] = PlanOf(chunk, chunk.typed[i].source)

----------------------------------------------------------------------------
(* hhy_typed_observe: the profile has an entry for a callable unless another *)
(* one has taken its place.  The entry tells whether the plan may run.       *)
SiteOf(at) == at % Sites
NoSite == [owner |-> 0, stable |-> 0, misses |-> 0]
ProfileAt(profile, at) == IF SiteOf(at) \in DOMAIN profile THEN profile[SiteOf(at)] ELSE NoSite
Taken(profile, at) == ProfileAt(profile, at).owner \notin {0, at}
Observed(profile, at, integers) ==
    LET site == ProfileAt(profile, at)
        next == IF integers THEN [site EXCEPT !.owner = at, !.stable = @ + 1]
                ELSE [site EXCEPT !.owner = at, !.stable = 0, !.misses = @ + 1]
    IN IF Taken(profile, at) THEN profile
       ELSE [s \in DOMAIN profile \cup {SiteOf(at)} |-> IF s = SiteOf(at) THEN next ELSE profile[s]]
Ready(profile, at) ==
    LET site == ProfileAt(profile, at)
    IN site.owner = at /\ site.stable >= Stable /\ site.misses < Misses
=============================================================================
