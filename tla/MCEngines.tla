----------------------------- MODULE MCEngines -----------------------------
(* The programs of the runs over Engines.  Each is written with a hazard of *)
(* one engine in mind: signals through nested constructs, bindings that     *)
(* shadow, streams consumed twice, kernels and plans that overflow.         *)
EXTENDS Engines

Say(e) == Do(App("print", <<e>>))
Plus1 == Bin("+", Id("x"), Num(1))
Numbers == Items(<<Num(1), Num(2), Num(3)>>)
Source(e) == App("stream", <<e>>)
Mapped(e, f) == Pipe(e, App("map", <<f>>))
Kept(e, f) == Pipe(e, App("where", <<f>>))
Collected(e) == Pipe(e, Id("collect"))
Double == Fun("x", <<Do(Bin("*", Id("x"), Num(2)))>>)
IsEven == Fun("x", <<Do(Bin("==", Bin("%", Id("x"), Num(2)), Num(0)))>>)
Nest(n) == LET deep[i \in 0..n] == IF i = 0 THEN Num(0) ELSE Un("-", deep[i - 1]) IN deep[n]

(* Functions, closures and scopes. *)
Scoping == {
  Program(<<Fn("f", <<"a", "b">>, <<Return(Bin("-", Id("a"), Id("b")))>>),
            Say(App("f", <<Num(5), Num(2)>>)), Say(App("f", <<Num(1)>>))>>),
  Program(<<LetMut("n", Num(0)),
            Fn("next", <<>>, <<Do(Set("n", Bin("+", Id("n"), Num(1)))), Return(Id("n"))>>),
            Do(App("next", <<>>)), Say(App("next", <<>>)), Say(Id("n"))>>),
  Program(<<Fn("adder", <<"a">>, <<Let("k", Id("a")),
                                   Return(Fun("x", <<Do(Bin("+", Id("x"), Id("k")))>>))>>),
            Let("g", App("adder", <<Num(2)>>)), Say(App("g", <<Num(3)>>)), Say(Id("g"))>>),
  Program(<<Let("x", Num(1)),
            Fn("f", <<>>, <<Let("y", Num(2)),
                            IfElse(Truth(TRUE), <<Let("z", Num(3)), Say(Bin("+", Id("y"), Id("z")))>>, <<>>),
                            Let("z", Num(4)), Return(Bin("*", Id("x"), Id("z")))>>),
            Say(App("f", <<>>)), Say(Id("z"))>>),
  Program(<<Let("g", FunIt(<<Let("y", Bin("+", Id("it"), Num(1))), Do(Bin("*", Id("y"), Id("y")))>>)),
            Say(App("g", <<Num(1)>>)), Say(CallOf(Num(1), <<>>))>>),
  Program(<<Fn("f", <<"n">>, <<If(Bin("<", Id("n"), Num(1)), <<Return(Num(0))>>),
                               Return(Bin("+", Num(1), App("f", <<Bin("-", Id("n"), Num(1))>>)))>>),
            Say(App("f", <<Num(2)>>)), Say(App("f", <<Num(6)>>))>>),
  Program(<<Fn("f", <<>>, <<Import("database"), Let("y", Num(1)), Return(Id("y"))>>),
            Say(App("f", <<>>)), Say(Id("missing"))>>),
  Program(<<Let("x", Num(1)), Let("x", Num(2)), Say(Id("x"))>>),
  Program(<<Let("x", Num(1)), Do(Set("x", Num(2)))>>),
  Program(<<Fn("f", <<"a">>, <<For("i", Numbers, <<Let("a", Bin("+", Id("i"), Num(1))), Say(Id("a"))>>),
                               Return(Id("a"))>>), Say(App("f", <<Num(7)>>))>>),
  Program(<<Say(Un("not", Bin("==", Items(<<Num(1), Truth(TRUE)>>), Items(<<Num(1), Truth(TRUE)>>)))),
            Say(Bin("and", Truth(FALSE), Id("missing"))), Say(At0(Numbers, Num(3)))>>),
  Program(<<Say(Nest(9))>>), Program(<<Say(Nest(10))>>) }

(* Loops, errors and the signals that cross them. *)
Control == {
  Program(<<LetMut("i", Num(0)),
            While(Bin("<", Id("i"), Num(3)), <<Do(Set("i", Bin("+", Id("i"), Num(1)))),
                If(Bin("==", Id("i"), Num(2)), <<Continue>>), Say(Id("i"))>>)>>),
  Program(<<Fn("f", <<>>, <<For("i", Between(Num(1), Num(5)),
                <<If(Bin("==", Id("i"), Num(3)), <<Return(Id("i"))>>), Say(Id("i"))>>), Return(Num(0))>>),
            Say(App("f", <<>>))>>),
  Program(<<For("i", Numbers, <<For("j", Numbers, <<If(Bin("<", Num(1), Id("j")), <<Break>>), Say(Id("j"))>>)>>)>>),
  Program(<<Try(<<Say(Num(1)), Do(App("throw", <<Num(4)>>)), Say(Num(2))>>, "e", <<Say(Id("e"))>>), Say(Num(3))>>),
  Program(<<Fn("f", <<>>, <<Try(<<Return(Num(1))>>, "e", <<Return(Num(2))>>), Return(Num(3))>>),
            Say(App("f", <<>>))>>),
  Program(<<Try(<<Try(<<Do(App("throw", <<Num(1)>>))>>, "e", <<Do(App("throw", <<Bin("+", Id("e"), Num(1))>>))>>)>>,
                "d", <<Say(Id("d"))>>)>>),
  Program(<<Fn("f", <<>>, <<For("i", Numbers, <<Try(<<Do(App("throw", <<Id("i")>>))>>, "e",
                <<If(Bin("==", Id("e"), Num(2)), <<Return(Id("e"))>>), Continue>>)>>), Return(Num(0))>>),
            Say(App("f", <<>>))>>),
  Program(<<Say(AttemptOf(<<Do(Bin("%", Num(1), Num(0)))>>)), Say(AttemptOf(<<Do(Num(2))>>)),
            Say(AttemptOf(<<Try(<<Do(Id("gone"))>>, "e", <<Do(App("throw", <<Id("e")>>))>>)>>))>>),
  Program(<<Fn("bad", <<>>, <<Do(App("throw", <<Num(2)>>))>>),
            Say(Pipe(App("bad", <<>>), App("on_error", <<Fun("e", <<Do(Bin("+", Id("e"), Num(1)))>>)>>))),
            Say(Pipe(Num(4), App("on_error", <<Fun("e", <<Do(Num(0))>>)>>)))>>),
  Program(<<While(Truth(TRUE), <<Say(Num(1)), Let("k", Num(2))>>)>>),
  Program(<<Try(<<Do(App("cancel", <<>>))>>, "e", <<Say(Num(1))>>), While(Truth(TRUE), <<>>)>>),
  Program(<<If(Num(1), <<Say(Num(1))>>)>>), Program(<<Break>>),
  Program(<<For("i", Num(3), <<>>)>>),
  Program(<<Say(Bin("+", Num(MaxInt), Num(1)))>>),
  Program(<<Say(Un("-", Bin("-", Un("-", Num(MaxInt)), Num(1))))>>) }

(* Streams: fused or not, consumed twice, failing half-way. *)
Flows == {
  Program(<<Say(Collected(Kept(Mapped(Source(Numbers), Double), IsEven)))>>),
  Program(<<Say(Collected(Mapped(Source(Between(Num(0), Num(5))), Double)))>>),
  Program(<<LetMut("all", Num(0)),
            Try(<<Do(Set("all", Collected(Mapped(Source(Items(<<Num(1), Num(5)>>)), Double))))>>, "e", <<Say(Id("e"))>>),
            Say(Id("all"))>>),
  Program(<<Let("k", Num(2)), Say(Collected(Mapped(Source(Numbers), Fun("x", <<Do(Bin("*", Id("x"), Id("k")))>>))))>>),
  Program(<<Let("s", Source(Numbers)), Say(Collected(Id("s"))), Say(Collected(Id("s")))>>),
  Program(<<Let("s", Source(Numbers)), Let("t", Mapped(Id("s"), Double)), For("x", Id("t"), <<Say(Id("x"))>>),
            Say(Collected(Kept(Id("s"), IsEven)))>>),
  Program(<<Say(Collected(Kept(Source(Items(<<Num(2), Truth(TRUE)>>)), IsEven)))>>),
  Program(<<Say(Collected(Mapped(Kept(Source(Items(<<Num(2), Num(3)>>)), Fun("x", <<Do(Id("x"))>>)), Double)))>>),
  Program(<<Do(Pipe(Mapped(Source(Numbers), Fun("x", <<Say(Id("x")), Do(Plus1)>>)), Id("print")))>>),
  Program(<<Say(App("length", <<Collected(Kept(Source(Items(<<Num(1), Num(2)>>)), Fun("x", <<Do(Bin("<", Id("x"), Num(2)))>>)))>>))>>),
  Program(<<Fn("f", <<"s">>, <<For("x", Id("s"), <<If(Bin("==", Id("x"), Num(2)), <<Return(Id("x"))>>)>>)>>),
            Let("s", Mapped(Source(Numbers), Fun("x", <<Do(Id("x"))>>))), Say(App("f", <<Id("s")>>)),
            Say(Collected(Id("s")))>>) }

(* Calls repeated until a typed plan takes them. *)
Repeated(f, body) == Program(<<f, For("i", Items(<<Num(1), Num(2), Num(3), Num(6)>>), body)>>)
Typed == {
  Repeated(Fn("f", <<"a">>, <<Return(Bin("+", Id("a"), Num(2)))>>), <<Say(App("f", <<Id("i")>>))>>),
  Repeated(Fn("f", <<"a", "b">>, <<Return(Bin("<", Bin("-", Id("a"), Id("b")), Num(1)))>>),
           <<Say(App("f", <<Id("i"), Num(2)>>))>>),
  Repeated(Let("g", Fun("x", <<Do(At0(Items(<<Id("x"), Un("-", Id("x"))>>), Num(1)))>>)), <<Say(App("g", <<Id("i")>>))>>),
  Repeated(Let("g", Fun("x", <<Do(Bin("*", Id("x"), Id("x")))>>)),
           <<Say(AttemptOf(<<Do(App("g", <<Id("i")>>))>>))>>),
  Repeated(Fn("f", <<"a">>, <<Return(Bin("+", Id("a"), Num(1)))>>),
           <<Say(App("f", <<Id("i")>>)), Say(AttemptOf(<<Do(App("f", <<Truth(TRUE)>>))>>))>>) }

MCPrograms == Scoping \cup Control \cup Flows \cup Typed
MCOptions == {{}, {"plans", "tables"}, {"typed"}, {"typed", "scalar", "plans"}, {"unfused"}}

(* Returns and leaves whose value fails inside a TRY. *)
Swallowed == {
  Program(<<Fn("f", <<>>, <<Do(App("throw", <<Num(1)>>))>>),
            Fn("g", <<>>, <<Try(<<Return(App("f", <<>>))>>, "e", <<Return(Num(2))>>)>>),
            Say(App("g", <<>>))>>) }
(* An import in the body of a closure. *)
Shifted == {
  Program(<<Let("g", Fun("x", <<Import("database"), Let("y", Num(1)), Do(Id("y"))>>)),
            Say(App("g", <<Num(3)>>))>>) }
=============================================================================
