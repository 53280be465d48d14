------------------------------- MODULE Syntax -------------------------------
(* Syntax trees (src/include/hhy/ast.h), with one constructor per form the  *)
(* parser builds, and the layout of their children.                         *)
(*                                                                          *)
(* A token is a pair of its class and its text; << "none", 0 >> is the      *)
(* token of a node whose text no engine reads.  Members, maps and exports   *)
(* are left out: their evaluation adds no scope and no control.             *)
EXTENDS Integers, Sequences

NoToken == <<"none", 0>>
Name(x) == <<"id", x>>
OpOf(text) == <<"op", text>>

(* id is the identity of the node; slot and frame are the resolver's. *)
Node(kind, tok, kids) ==
    [kind |-> kind, tok |-> tok, kids |-> kids,
     id |-> 0, slot |-> <<>>, frame |-> 0]
Leaf(kind, tok) == Node(kind, tok, <<>>)

Id(x) == Leaf("IDENTIFIER", Name(x))
Num(n) == Leaf("LITERAL", <<"int", n>>)
Truth(b) == Leaf("LITERAL", <<"bool", b>>)
Bin(op, a, b) == Node("BINARY", OpOf(op), <<a, b>>)
Un(op, a) == Node("UNARY", OpOf(op), <<a>>)
CallOf(f, args) == Node("CALL", NoToken, <<f>> \o args)
App(x, args) == CallOf(Id(x), args)
Pipe(left, stage) == Node("PIPE", NoToken, <<left, stage>>)
Items(kids) == Node("LIST", NoToken, kids)
At0(list, n) == Node("INDEX", NoToken, <<list, n>>)
Between(a, b) == Node("RANGE", NoToken, <<a, b>>)
Fun(x, body) == Node("CLOSURE", NoToken, <<Id(x)>> \o body)
FunIt(body) == Node("CLOSURE", NoToken, body)
AttemptOf(body) == Node("ATTEMPT", NoToken, <<Node("BLOCK", NoToken, body)>>)
Set(x, e) == Node("ASSIGN", NoToken, <<Id(x), e>>)

Do(e) == Node("EXPR_STMT", NoToken, <<e>>)
Let(x, e) == Node("LET_DECL", NoToken, <<Id(x), e>>)
LetMut(x, e) == Node("LET_DECL", NoToken, <<Leaf("IDENTIFIER", NoToken), Id(x), e>>)
Block(body) == Node("BLOCK", NoToken, body)
Fn(f, params, body) ==
    Node("FN_DECL", NoToken, <<Id(f)>> \o [i \in DOMAIN params |-> Id(params[i])] \o <<Block(body)>>)
If(c, body) == Node("IF", NoToken, <<c, Block(body)>>)
IfElse(c, body, other) == Node("IF", NoToken, <<c, Block(body), Block(other)>>)
While(c, body) == Node("WHILE", NoToken, <<c, Block(body)>>)
For(x, e, body) == Node("FOR", NoToken, <<Id(x), e, Block(body)>>)
Try(body, x, handler) == Node("TRY", NoToken, <<Block(body), Id(x), Block(handler)>>)
Return(e) == Node("RETURN", NoToken, <<e>>)
Break == Leaf("BREAK", NoToken)
Continue == Leaf("CONTINUE", NoToken)
Import(x) == Leaf("IMPORT_DECL", Name(x))
Program(body) == Node("PROGRAM", NoToken, body)

----------------------------------------------------------------------------
RECURSIVE Size(_)
Size(n) ==
    LET sum[i \in 0..Len(n.kids)] == IF i = 0 THEN 0 ELSE sum[i - 1] + Size(n.kids[i])
    IN 1 + sum[Len(n.kids)]

RECURSIVE Nesting(_)
Nesting(n) ==
    LET deepest[i \in 0..Len(n.kids)] ==
          IF i = 0 THEN 0
          ELSE IF Nesting(n.kids[i]) > deepest[i - 1] THEN Nesting(n.kids[i])
          ELSE deepest[i - 1]
    IN IF n.kids = <<>> THEN 0 ELSE 1 + deepest[Len(n.kids)]

(* Nodes numbered in the order of the text, the first one `from`. *)
RECURSIVE Numbered(_, _)
Numbered(n, from) ==
    LET start[i \in 1..Len(n.kids)] ==
          IF i = 1 THEN from + 1 ELSE start[i - 1] + Size(n.kids[i - 1])
    IN [n EXCEPT !.id = from,
                 !.kids = [i \in DOMAIN n.kids |-> Numbered(n.kids[i], start[i])]]

----------------------------------------------------------------------------
(* Where the children are. *)
Child(n, i) == n.kids[i]
Text(n) == n.tok[2]
NameIn(n) == IF Len(n.kids) = 3 THEN 2 ELSE 1       \* of a LET_DECL
IsMutable(n) == Len(n.kids) = 3
Parameters(fn) == [i \in 1..Len(fn.kids) - 2 |-> fn.kids[i + 1]]
BodyOf(fn) == fn.kids[Len(fn.kids)]
HasParameter(closure) == closure.kids # <<>> /\ closure.kids[1].kind = "IDENTIFIER"
ParameterOf(closure) == IF HasParameter(closure) THEN Text(closure.kids[1]) ELSE "it"
FirstStatement(closure) == IF HasParameter(closure) THEN 2 ELSE 1
=============================================================================
