------------------------------- MODULE Checker -------------------------------
(* The static checker of `hhy check` (src/src/checker.c): scopes, names,    *)
(* arities, loop control and returns.  It is a command of its own: a run    *)
(* does not start with it.                                                  *)
(*                                                                          *)
(* The state of a check is a record: the open scopes, innermost last, the   *)
(* counts of errors and warnings, and how deep functions and loops nest.    *)
(* Left out: what a parallel closure may capture, and the modules that an   *)
(* import reads.                                                            *)
EXTENDS Syntax, FiniteSetsExt, SequencesExt

(* Built-in functions of the registry, with the numbers of their arguments. *)
Many == 8                      \* no call of a model has more arguments
Arities == [print |-> 0..Many, throw |-> {1}, length |-> {1}, stream |-> {1},
            map |-> {2}, where |-> {2}, collect |-> {1}, cancel |-> {0},
            on_error |-> {2}]
BuiltIn(x) == x \in DOMAIN Arities

AnyNumber == -1                \* arity of a name that is not a function
NewCheck == [scopes |-> <<{}>>, errors |-> 0, warnings |-> 0,
             functions |-> 0, loops |-> 0]

Error1(c) == [c EXCEPT !.errors = @ + 1]
Require(c, condition) == IF condition THEN c ELSE Error1(c)

Open(c) == [c EXCEPT !.scopes = Append(@, {})]
Close(c) == [c EXCEPT !.scopes = Front(@)]

Declares(scope, x) == \E b \in scope : b.name = x
InnerScopes(c, x) == {i \in DOMAIN c.scopes : Declares(c.scopes[i], x)}

(* The innermost binding of a name that has one. *)
Declared(c, x) == CHOOSE b \in c.scopes[Max(InnerScopes(c, x))] : b.name = x

(* Mutant: a name may be declared twice in a scope. *)
DeclareMutant(c, x, mutable, arity) ==
    [c EXCEPT !.scopes[Len(c.scopes)] =
        {b \in @ : b.name # x} \cup {[name |-> x, mutable |-> mutable, arity |-> arity]}]
Declare(c, x, mutable, arity) ==
    IF Declares(Last(c.scopes), x) THEN Error1(c)
    ELSE [c EXCEPT !.warnings = IF InnerScopes(c, x) # {} THEN @ + 1 ELSE @,
                   !.scopes[Len(c.scopes)] =
                       @ \cup {[name |-> x, mutable |-> mutable, arity |-> arity]}]

(* A call of a declared function or, failing that, of a built-in. *)
AcceptsArguments(c, callee, count) ==
    callee.kind = "IDENTIFIER" =>
        LET x == Text(callee)
            function == InnerScopes(c, x) # {} /\ Declared(c, x).arity # AnyNumber
        IN IF function THEN Declared(c, x).arity = count
           ELSE BuiltIn(x) => count \in Arities[x]

AssignsVariable(c, target) ==
    /\ target.kind = "IDENTIFIER"
    /\ InnerScopes(c, Text(target)) # {}
    /\ Declared(c, Text(target)).mutable

RECURSIVE Check(_, _)
CheckFrom(c, n, first) ==
    FoldLeft(LAMBDA d, i : Check(d, n.kids[i]), c, [i \in 1..Len(n.kids) + 1 - first |-> first + i - 1])

(* The body of a function or a closure: what it declares is its own. *)
CheckBody(c, n, first) ==
    LET inside == CheckFrom([c EXCEPT !.functions = @ + 1], n, first)
    IN Close([inside EXCEPT !.functions = c.functions])

InLoop(c, body) ==
    LET inside == Check([c EXCEPT !.loops = @ + 1], body)
    IN [inside EXCEPT !.loops = c.loops]

CheckCall(c, call, injected) ==
    LET inside == CheckFrom(c, call, 1)
    IN Require(inside, AcceptsArguments(inside, Child(call, 1), Len(call.kids) - 1 + injected))

Check(c, n) ==
    CASE n.kind = "BLOCK" -> Close(CheckFrom(Open(c), n, 1))
      [] n.kind = "LET_DECL" ->
           LET at == NameIn(n)
           IN Declare(Check(c, Child(n, at + 1)), Text(Child(n, at)), IsMutable(n), AnyNumber)
      [] n.kind = "FN_DECL" ->
           LET named == Declare(c, Text(Child(n, 1)), FALSE, Len(Parameters(n)))
               entered == FoldLeft(LAMBDA d, p : Declare(d, Text(p), FALSE, AnyNumber),
                                   Open(named), Parameters(n))
           IN CheckBody(entered, n, Len(n.kids))
      [] n.kind = "CLOSURE" ->
           CheckBody(Declare(Open(c), ParameterOf(n), FALSE, AnyNumber), n, FirstStatement(n))
      [] n.kind = "IMPORT_DECL" -> Declare(c, Text(n), FALSE, AnyNumber)
      [] n.kind = "FOR" ->
           LET entered == Declare(Open(Check(c, Child(n, 2))), Text(Child(n, 1)), FALSE, AnyNumber)
           IN Close(InLoop(entered, Child(n, 3)))
      [] n.kind = "WHILE" -> InLoop(Check(c, Child(n, 1)), Child(n, 2))
      [] n.kind = "TRY" ->
           LET entered == Declare(Open(Check(c, Child(n, 1))), Text(Child(n, 2)), FALSE, AnyNumber)
           IN Close(Check(entered, Child(n, 3)))
      [] n.kind = "RETURN" -> CheckFrom(Require(c, c.functions > 0), n, 1)
      [] n.kind \in {"BREAK", "CONTINUE"} -> Require(c, c.loops > 0)
      [] n.kind = "ASSIGN" -> Check(Require(c, AssignsVariable(c, Child(n, 1))), Child(n, 2))
      [] n.kind = "CALL" -> CheckCall(c, n, 0)
      [] n.kind = "PIPE" ->
           LET left == Check(c, Child(n, 1))
               stage == Child(n, 2)
           IN IF stage.kind = "CALL" THEN CheckCall(left, stage, 1)
              ELSE Require(Check(left, stage), AcceptsArguments(left, stage, 1))
      [] n.kind = "IDENTIFIER" ->
           Require(c, BuiltIn(Text(n)) \/ InnerScopes(c, Text(n)) # {})
      [] OTHER -> CheckFrom(c, n, 1)

CheckProgram(program) == CheckFrom(NewCheck, program, 1)
=============================================================================
