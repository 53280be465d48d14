------------------------------ MODULE Resolver ------------------------------
(* Slot resolution (src/src/resolver.c): an identifier whose binding is in  *)
(* a scope of the same function, with a layout known before the run, gets   *)
(* the number of scopes to leave and the position of the binding there.     *)
(*                                                                          *)
(* The state is the open scopes, innermost last, and the number of          *)
(* functions met.  Resolving a node gives the state and the annotated node. *)
EXTENDS Syntax, FiniteSetsExt, SequencesExt

Scope(function, dynamic, names) ==
    [function |-> function, dynamic |-> dynamic, names |-> names]
TopScope(r) == Last(r.scopes)
Enter(r, scope) == [r EXCEPT !.scopes = Append(@, scope)]
Leave(r) == [r EXCEPT !.scopes = Front(@)]
Declaring(r, x) == [r EXCEPT !.scopes[Len(r.scopes)].names = Append(@, x)]

(* Mutant: the imports of a block are not looked for. *)
DynamicLayoutMutant(n) == FALSE
(* An import declares names when it runs, which moves the later slots. *)
DynamicLayout(n) == \E i \in DOMAIN n.kids : n.kids[i].kind = "IMPORT_DECL"

(* The innermost scope that declares the name decides; the latest *)
(* declaration in it is found first.                              *)
ResolveIdentifier(r, n) ==
    LET owners == {i \in DOMAIN r.scopes : Contains(r.scopes[i].names, Text(n))}
        owner == Max(owners)
        scope == r.scopes[owner]
        position == Max({i \in DOMAIN scope.names : scope.names[i] = Text(n)})
    IN IF owners = {} \/ scope.function # TopScope(r).function \/ scope.dynamic THEN n
       ELSE [n EXCEPT !.slot = <<Len(r.scopes) - owner, position>>]

RECURSIVE Resolve(_, _)
ResolveKids(r, n, indices) ==
    FoldLeft(LAMBDA done, i :
                 LET kid == Resolve(done.r, done.n.kids[i])
                 IN [r |-> kid.r, n |-> [done.n EXCEPT !.kids[i] = kid.n]],
             [r |-> r, n |-> n], indices)
Kids(first, last) == [i \in 1..last + 1 - first |-> first + i - 1]

(* Resolves children of n in a scope of its own and notes its size in n. *)
InScope(r, n, scope, indices) ==
    LET inside == ResolveKids(Enter(r, scope), n, indices)
    IN [r |-> Leave(inside.r),
        n |-> [inside.n EXCEPT !.frame = Len(TopScope(inside.r).names)]]
(* A FOR or a TRY keeps no size: its scope has one name. *)
UnderName(r, n, x, index) ==
    LET inside == InScope(r, n, Scope(TopScope(r).function, FALSE, <<x>>), <<index>>)
    IN [inside EXCEPT !.n.frame = n.frame]

(* The block of a function is not a scope: it shares the parameters'. *)
ResolveFunction(r, n) ==
    LET counted == [r EXCEPT !.functions = @ + 1]
        parameters == [i \in DOMAIN Parameters(n) |-> Text(Parameters(n)[i])]
        scope == Scope(counted.functions, DynamicLayout(BodyOf(n)), parameters)
        body == ResolveKids(Enter(counted, scope), BodyOf(n), Kids(1, Len(BodyOf(n).kids)))
    IN [r |-> Leave(body.r),
        n |-> [n EXCEPT !.kids[Len(n.kids)] = body.n,
                        !.frame = Len(TopScope(body.r).names)]]

ResolveClosure(r, n) ==
    LET counted == [r EXCEPT !.functions = @ + 1]
    IN InScope(counted, n, Scope(counted.functions, FALSE, <<ParameterOf(n)>>),
               Kids(FirstStatement(n), Len(n.kids)))

Resolve(r, n) ==
    CASE n.kind = "BLOCK" ->
           InScope(r, n, Scope(TopScope(r).function, DynamicLayout(n), <<>>), Kids(1, Len(n.kids)))
      [] n.kind = "LET_DECL" ->
           LET value == ResolveKids(r, n, <<NameIn(n) + 1>>)
           IN [value EXCEPT !.r = Declaring(@, Text(Child(n, NameIn(n))))]
      [] n.kind = "FN_DECL" -> ResolveFunction(Declaring(r, Text(Child(n, 1))), n)
      [] n.kind = "CLOSURE" -> ResolveClosure(r, n)
      [] n.kind = "FOR" ->
           LET iterable == ResolveKids(r, n, <<2>>)
           IN UnderName(iterable.r, iterable.n, Text(Child(n, 1)), 3)
      [] n.kind = "TRY" ->
           LET body == ResolveKids(r, n, <<1>>)
           IN UnderName(body.r, body.n, Text(Child(n, 2)), 3)
      [] n.kind = "IDENTIFIER" -> [r |-> r, n |-> ResolveIdentifier(r, n)]
      [] n.kind \in {"IMPORT_DECL", "LITERAL", "BREAK", "CONTINUE"} -> [r |-> r, n |-> n]
      [] OTHER -> ResolveKids(r, n, Kids(1, Len(n.kids)))

(* The scope of the program is dynamic: the core environment is above it. *)
ResolveSlots(program) ==
    Resolve([scopes |-> <<Scope(0, TRUE, <<>>)>>, functions |-> 0], program).n
=============================================================================
