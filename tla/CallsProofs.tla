------------------------------ MODULE CallsProofs ------------------------------
(***************************************************************************)
(* Theorems about Calls, for every program, every depth and every number   *)
(* of calls: the runtime's registers agree with the C stack, an embedded   *)
(* context is clean between calls, streams end before the scope they need, *)
(* only a whole transaction is committed, no environment in the frame pool *)
(* is reached by anything alive, and the pool's counters say what it has.  *)
(*                                                                         *)
(* The first four do not depend on which environments there are: for them  *)
(* frames and scopes are members of any set.                               *)
(***************************************************************************)
EXTENDS Calls, FiniteSetTheorems, SequenceTheorems, WellFoundedInduction, TLAPS

FunctionKinds == {"call", "direct"}
BuiltinKinds == {"builtin", "transaction"}
FrameKinds == {"call", "builtin", "transaction"}

Act(A) ==
    [kind : {"program", "host", "call", "direct", "builtin", "transaction", "module"},
     frame : A, scope : A, name : Contracts \cup Modules \cup {NoContract, Transaction},
     was : NowType, handle : Nat, result : {"none", "begun", "whole", "stream", "failed"}]

FrameOf(A) == [env : A, was : NowType]

StreamOf(A) == [env : A, rows : BOOLEAN]

ShapeIn(A) ==
    /\ stack \in Seq(Act(A))
    /\ frames \in Seq(FrameOf(A))
    /\ streams \in Seq(StreamOf(A))

Shape == \E A : ShapeIn(A)

CallType ==
    /\ host \in {"program", "context"} /\ registered \in BOOLEAN /\ failed \in BOOLEAN
    /\ phase \in {"load", "idle", "call", "unwind", "released"}
    /\ now \in NowType
    /\ checkpoint.streams \in Nat /\ checkpoint.was \in NowType
    /\ step \in 0..4
    /\ handles \in Seq({"open", "committed", "rolledback"})
    /\ modules \in [Modules -> {"absent", "loading", "loaded"}]
    /\ entries \in Nat

-----------------------------------------------------------------------------
(* The registers and the stack.                                              *)

Clean == [contract |-> NoContract, effect |-> TRUE, source |-> Source, depth |-> 0, trace |-> 0]

(* The registers n are those inside an activation a.                         *)
Within(n, a) ==
    /\ n.depth = a.was.depth + (IF a.kind \in FunctionKinds THEN 1 ELSE 0)
    /\ n.trace = a.was.trace
                    + (IF a.kind \in FrameKinds /\ a.was.trace < TraceLimit THEN 1 ELSE 0)
    /\ n.contract = IF a.kind \in BuiltinKinds THEN a.name ELSE a.was.contract
    /\ n.effect = IF a.kind \in BuiltinKinds THEN Allowed(a.name) ELSE a.was.effect
    /\ n.source = IF a.kind = "module" THEN a.name ELSE a.was.source

(* The activations of some kinds among the outermost i of a stack.           *)
At(s, i, kinds) == {j \in 1..i : s[j].kind \in kinds}

Innermost(s, i, kinds, none, name) ==
    \/ At(s, i, kinds) = {} /\ name = none
    \/ \E j \in At(s, i, kinds) : name = s[j].name /\ \A k \in At(s, i, kinds) : k <= j

(* They say what the outermost i activations are.                            *)
Says(n, s, i) ==
    /\ n.depth = Cardinality(At(s, i, FunctionKinds))
    /\ n.trace = IF Cardinality(At(s, i, FrameKinds)) < TraceLimit
                 THEN Cardinality(At(s, i, FrameKinds)) ELSE TraceLimit
    /\ Innermost(s, i, BuiltinKinds, NoContract, n.contract)
    /\ n.effect = Allowed(n.contract)
    /\ Innermost(s, i, {"module"}, Source, n.source)

(* The registers inside activation i, when n are those of now.               *)
Inside(s, n, i) == IF i < Len(s) THEN s[i + 1].was ELSE n

Books(s, n) ==
    \A i \in 1..Len(s) : Within(Inside(s, n, i), s[i]) /\ Says(Inside(s, n, i), s, i)

(* The registered frames are the calls of the stack that registered one.     *)
FramesMatch(s, fs) ==
    /\ Len(fs) = Cardinality(At(s, Len(s), FrameKinds))
    /\ \A i \in 1..Len(s) : s[i].kind \in FrameKinds =>
          fs[Cardinality(At(s, i, FrameKinds))].was = s[i].was

FrameBooks ==
    /\ ~registered => frames = <<>>
    /\ registered /\ stack # <<>> => FramesMatch(stack, frames)

(* Program and host are at the bottom and nowhere else.                      *)
Bottom ==
    stack # <<>> =>
        /\ \/ phase = "load" /\ stack[1].kind = "program"
           \/ phase = "call" /\ stack[1].kind = "host"
        /\ \A i \in 2..Len(stack) : stack[i].kind \notin {"program", "host"}

(* A module on the stack is loading, and on it once.                         *)
ModuleBooks ==
    \A i \in 1..Len(stack) : stack[i].kind = "module" =>
        /\ stack[i].name \in Modules /\ modules[stack[i].name] = "loading"
        /\ \A j \in 1..Len(stack) :
              stack[j].kind = "module" /\ stack[j].name = stack[i].name => j = i

(* A transaction on the stack is open, and on it once.                       *)
HandleBooks ==
    \A i \in 1..Len(stack) : stack[i].kind = "transaction" /\ stack[i].handle # 0 =>
        /\ stack[i].handle \in 1..Len(handles) /\ handles[stack[i].handle] = "open"
        /\ \A j \in 1..Len(stack) :
              stack[j].kind = "transaction" /\ stack[j].handle = stack[i].handle => j = i

(* What the boundary of a context knows in each phase.                       *)
NoneOpen == \A h \in 1..Len(handles) : handles[h] # "open"

Boundary ==
    /\ phase = "load" =>
          /\ ~scope /\ entries = 0
          /\ stack = <<>> /\ ~failed => now = Clean /\ frames = <<>>
    /\ phase = "idle" =>
          /\ stack = <<>> /\ frames = <<>> /\ ~scope /\ now = Clean
          /\ entries > 0 => Len(streams) = checkpoint.streams /\ temps = checkpoint.temps /\ NoneOpen
    /\ phase \in {"call", "unwind"} => checkpoint.was = Clean /\ checkpoint.streams <= Len(streams)
    /\ phase = "call" => scope /\ step = 0
    /\ phase = "unwind" =>
          /\ stack = <<>> /\ frames = <<>> /\ (scope <=> step < 3)
          /\ step >= 1 => Len(streams) = checkpoint.streams
          /\ step >= 2 => temps = checkpoint.temps
          /\ step >= 3 => NoneOpen
          /\ step >= 4 => now = Clean
    /\ phase = "released" => streams = <<>> /\ temps = 0 /\ stack = <<>> /\ frames = <<>>

Agreement == Books(stack, now) /\ FrameBooks /\ Bottom /\ ModuleBooks /\ HandleBooks /\ Boundary

IInv == CallType /\ Shape /\ Agreement

-----------------------------------------------------------------------------
(* Counting on a stack.                                                      *)

LEMMA MinIs ==
    ASSUME NEW S \in SUBSET Int, NEW x \in S, \A y \in S : x <= y
    PROVE  Min(S) = x
<1> DEFINE m == Min(S)
<1>1. m \in S /\ \A y \in S : m <= y
  BY DEF Min
<1>2. m \in Int /\ x \in Int /\ m <= x /\ x <= m
  BY <1>1
<1> HIDE DEF m
<1>3. m = x
  BY <1>2
<1> QED BY <1>3 DEF m

LEMMA MaxIs ==
    ASSUME NEW S \in SUBSET Int, NEW x \in S, \A y \in S : y <= x
    PROVE  Max(S) = x
<1> DEFINE m == Max(S)
<1>1. m \in S /\ \A y \in S : m >= y
  BY DEF Max
<1>2. m \in Int /\ x \in Int /\ m <= x /\ x <= m
  BY <1>1
<1> HIDE DEF m
<1>3. m = x
  BY <1>2
<1> QED BY <1>3 DEF m

LEMMA AtCounts ==
    ASSUME NEW s, NEW i \in Nat, NEW kinds
    PROVE  /\ At(s, i, kinds) \subseteq 1..i /\ IsFiniteSet(At(s, i, kinds))
           /\ Cardinality(At(s, i, kinds)) \in Nat
           /\ Cardinality(At(s, i, kinds)) = 0 <=> At(s, i, kinds) = {}
<1>1. At(s, i, kinds) \in SUBSET (1..i) /\ IsFiniteSet(1..i)
  BY FS_Interval DEF At
<1>2. IsFiniteSet(At(s, i, kinds))
  BY <1>1, FS_Subset
<1> QED BY <1>1, <1>2, FS_CardinalityType, FS_EmptySet

(* One activation more.                                                      *)
LEMMA AtOneMore ==
    ASSUME NEW s, NEW i \in Nat, NEW kinds
    PROVE  /\ s[i + 1].kind \in kinds =>
                 /\ At(s, i + 1, kinds) = At(s, i, kinds) \cup {i + 1}
                 /\ Cardinality(At(s, i + 1, kinds)) = Cardinality(At(s, i, kinds)) + 1
           /\ s[i + 1].kind \notin kinds => At(s, i + 1, kinds) = At(s, i, kinds)
<1>1. \A j : j \in 1..(i + 1) <=> j \in 1..i \/ j = i + 1
  OBVIOUS
<1>2. i + 1 \notin At(s, i, kinds)
  BY DEF At
<1>3. ASSUME s[i + 1].kind \in kinds
      PROVE  At(s, i + 1, kinds) = At(s, i, kinds) \cup {i + 1}
  BY <1>1, <1>3 DEF At
<1>4. ASSUME s[i + 1].kind \notin kinds
      PROVE  At(s, i + 1, kinds) = At(s, i, kinds)
  BY <1>1, <1>4 DEF At
<1>5. Cardinality(At(s, i, kinds) \cup {i + 1}) = Cardinality(At(s, i, kinds)) + 1
  BY <1>2, AtCounts, FS_AddElement
<1> QED BY <1>3, <1>4, <1>5

(* Stacks that agree on the outermost n activations.                         *)
Alike(s, t, n) ==
    \A i \in 1..n : /\ t[i].kind = s[i].kind /\ t[i].name = s[i].name
                    /\ t[i].was = s[i].was /\ t[i].handle = s[i].handle

LEMMA AtAlike ==
    ASSUME NEW s, NEW t, NEW n \in Nat, Alike(s, t, n), NEW i \in 0..n, NEW kinds
    PROVE  At(t, i, kinds) = At(s, i, kinds)
BY DEF At, Alike

LEMMA SaysAlike ==
    ASSUME NEW s, NEW t, NEW n \in Nat, Alike(s, t, n), NEW i \in 0..n, NEW r
    PROVE  Says(r, t, i) <=> Says(r, s, i)
<1>1. \A kinds : At(t, i, kinds) = At(s, i, kinds)
  BY AtAlike
<1>2. \A kinds : \A j \in At(s, i, kinds) : t[j].name = s[j].name
  BY DEF At, Alike
<1> QED BY <1>1, <1>2 DEF Says, Innermost

LEMMA BooksAlike ==
    ASSUME NEW s, NEW t, NEW n, Len(s) \in Nat, Len(t) = Len(s), Alike(s, t, Len(s)), Books(s, n)
    PROVE  Books(t, n)
<1> SUFFICES ASSUME NEW i \in 1..Len(s)
             PROVE  Within(Inside(t, n, i), t[i]) /\ Says(Inside(t, n, i), t, i)
  BY DEF Books
<1>1. Inside(t, n, i) = Inside(s, n, i)
  BY DEF Inside, Alike
<1>2. Within(Inside(s, n, i), s[i]) /\ Says(Inside(s, n, i), s, i)
  BY DEF Books
<1>3. Within(Inside(s, n, i), t[i])
  BY <1>2 DEF Within, Alike
<1>4. Says(Inside(s, n, i), t, i)
  BY <1>2, SaysAlike
<1> QED BY <1>1, <1>3, <1>4

LEMMA BooksPopped ==
    ASSUME NEW s, NEW t, NEW n, Len(t) \in Nat, Len(s) = Len(t) + 1, Alike(s, t, Len(t)), Books(s, n)
    PROVE  Books(t, s[Len(s)].was)
<1> DEFINE r == s[Len(s)].was
<1> SUFFICES ASSUME NEW i \in 1..Len(t)
             PROVE  Within(Inside(t, r, i), t[i]) /\ Says(Inside(t, r, i), t, i)
  BY DEF Books
<1>1. Inside(t, r, i) = Inside(s, n, i)
  <2>1. i < Len(s) /\ (i < Len(t) => i + 1 \in 1..Len(t)) /\ (~(i < Len(t)) => i + 1 = Len(s))
    OBVIOUS
  <2> QED BY <2>1 DEF Inside, Alike
<1>2. i \in 1..Len(s)
  OBVIOUS
<1>3. Within(Inside(s, n, i), s[i]) /\ Says(Inside(s, n, i), s, i)
  BY <1>2 DEF Books
<1>4. Within(Inside(s, n, i), t[i])
  BY <1>3 DEF Within, Alike
<1>5. Says(Inside(s, n, i), t, i)
  BY <1>3, SaysAlike
<1> HIDE DEF r
<1> QED BY <1>1, <1>4, <1>5

LEMMA InnermostMore ==
    ASSUME NEW s, NEW i \in Nat, NEW kinds, NEW none, NEW old, NEW new,
           Innermost(s, i, kinds, none, old),
           new = IF s[i + 1].kind \in kinds THEN s[i + 1].name ELSE old
    PROVE  Innermost(s, i + 1, kinds, none, new)
<1>1. CASE s[i + 1].kind \in kinds
  <2>1. At(s, i + 1, kinds) = At(s, i, kinds) \cup {i + 1}
    <3>1. \A j : j \in 1..(i + 1) <=> j \in 1..i \/ j = i + 1
      OBVIOUS
    <3> QED BY <1>1, <3>1 DEF At
  <2>2. \A k \in At(s, i + 1, kinds) : k <= i + 1
    <3>1. At(s, i, kinds) \subseteq 1..i
      BY AtCounts
    <3> QED BY <2>1, <3>1
  <2> QED BY <1>1, <2>1, <2>2 DEF Innermost
<1>2. CASE s[i + 1].kind \notin kinds
  <2>1. At(s, i + 1, kinds) = At(s, i, kinds)
    BY <1>2, AtOneMore
  <2> QED BY <1>2, <2>1 DEF Innermost
<1> QED BY <1>1, <1>2

(* The registers inside a new activation.                                    *)
LEMMA SaysMore ==
    ASSUME NEW s, NEW i \in Nat, NEW n, NEW m, n \in NowType, m \in NowType,
           Says(n, s, i), s[i + 1].was = n, Within(m, s[i + 1])
    PROVE  Says(m, s, i + 1)
<1> DEFINE a == s[i + 1]
<1>0. n.depth \in Int /\ n.trace \in 0..TraceLimit /\ TraceLimit \in Nat /\ m.trace \in 0..TraceLimit
  BY CallsAssumption DEF NowType
<1>1. m.depth = Cardinality(At(s, i + 1, FunctionKinds))
  <2>1. n.depth = Cardinality(At(s, i, FunctionKinds))
    BY DEF Says
  <2>2. m.depth = n.depth + (IF a.kind \in FunctionKinds THEN 1 ELSE 0)
    BY DEF Within
  <2> HIDE DEF a
  <2>3. /\ a.kind \in FunctionKinds =>
              Cardinality(At(s, i + 1, FunctionKinds)) = Cardinality(At(s, i, FunctionKinds)) + 1
        /\ a.kind \notin FunctionKinds => At(s, i + 1, FunctionKinds) = At(s, i, FunctionKinds)
    BY AtOneMore DEF a
  <2> QED BY <1>0, <2>1, <2>2, <2>3
<1>2. m.trace = IF Cardinality(At(s, i + 1, FrameKinds)) < TraceLimit
                THEN Cardinality(At(s, i + 1, FrameKinds)) ELSE TraceLimit
  <2> DEFINE c == Cardinality(At(s, i, FrameKinds))
  <2>1. c \in Nat /\ n.trace = IF c < TraceLimit THEN c ELSE TraceLimit
    BY AtCounts DEF Says
  <2>2. m.trace = n.trace + (IF a.kind \in FrameKinds /\ n.trace < TraceLimit THEN 1 ELSE 0)
    BY DEF Within
  <2>3. /\ a.kind \in FrameKinds => Cardinality(At(s, i + 1, FrameKinds)) = c + 1
        /\ a.kind \notin FrameKinds => Cardinality(At(s, i + 1, FrameKinds)) = c
    BY AtOneMore
  <2> HIDE DEF a, c
  <2> QED BY <1>0, <2>1, <2>2, <2>3
<1>4. Innermost(s, i + 1, BuiltinKinds, NoContract, m.contract)
  <2>1. Innermost(s, i, BuiltinKinds, NoContract, n.contract)
    BY DEF Says
  <2>2. m.contract = IF a.kind \in BuiltinKinds THEN a.name ELSE n.contract
    BY DEF Within
  <2> QED BY <2>1, <2>2, InnermostMore
<1>5. Innermost(s, i + 1, {"module"}, Source, m.source)
  <2>1. Innermost(s, i, {"module"}, Source, n.source)
    BY DEF Says
  <2>2. m.source = IF a.kind \in {"module"} THEN a.name ELSE n.source
    BY DEF Within
  <2> QED BY <2>1, <2>2, InnermostMore
<1>6. m.effect = Allowed(m.contract)
  BY DEF Within, Says
<1> QED BY <1>1, <1>2, <1>4, <1>5, <1>6 DEF Says

LEMMA BooksPushed ==
    ASSUME NEW s, NEW t, NEW n, NEW m, n \in NowType, m \in NowType, Len(s) \in Nat \ {0},
           Len(t) = Len(s) + 1, Alike(s, t, Len(s)), Books(s, n),
           t[Len(t)].was = n, Within(m, t[Len(t)])
    PROVE  Books(t, m)
<1> SUFFICES ASSUME NEW i \in 1..Len(t)
             PROVE  Within(Inside(t, m, i), t[i]) /\ Says(Inside(t, m, i), t, i)
  BY DEF Books
<1>1. CASE i \in 1..Len(s)
  <2>1. Inside(t, m, i) = Inside(s, n, i)
    <3>1. i < Len(t) /\ (i < Len(s) => i + 1 \in 1..Len(s)) /\ (~(i < Len(s)) => i + 1 = Len(t))
      BY <1>1
    <3> QED BY <3>1 DEF Inside, Alike
  <2>2. Within(Inside(s, n, i), s[i]) /\ Says(Inside(s, n, i), s, i)
    BY <1>1 DEF Books
  <2>3. Within(Inside(s, n, i), t[i])
    BY <1>1, <2>2 DEF Within, Alike
  <2>4. Says(Inside(s, n, i), t, i)
    BY <1>1, <2>2, SaysAlike
  <2> QED BY <2>1, <2>3, <2>4
<1>2. CASE i = Len(t)
  <2>1. Inside(t, m, i) = m
    BY <1>2 DEF Inside
  <2>2. Inside(s, n, Len(s)) = n /\ Len(s) \in 1..Len(s)
    BY DEF Inside
  <2>3. Says(n, s, Len(s))
    BY <2>2 DEF Books
  <2>4. Says(n, t, Len(s))
    BY <2>3, SaysAlike
  <2>5. Says(m, t, Len(s) + 1)
    BY <2>4, SaysMore
  <2> QED BY <1>2, <2>1, <2>5
<1> QED BY <1>1, <1>2

-----------------------------------------------------------------------------
(* The registered frames of a stack.                                         *)

LEMMA FrameIndex ==
    ASSUME NEW s, NEW n \in Nat, NEW i \in 1..n, NEW kinds, s[i].kind \in kinds
    PROVE  Cardinality(At(s, i, kinds)) \in 1..Cardinality(At(s, n, kinds))
<1>1. At(s, i, kinds) \in SUBSET At(s, n, kinds) /\ i \in At(s, i, kinds)
  BY DEF At
<1>2. IsFiniteSet(At(s, n, kinds)) /\ Cardinality(At(s, n, kinds)) \in Nat
  BY AtCounts
<1>3. Cardinality(At(s, i, kinds)) <= Cardinality(At(s, n, kinds))
  BY <1>1, <1>2, FS_Subset
<1>4. Cardinality(At(s, i, kinds)) \in Nat \ {0}
  BY <1>1, AtCounts
<1> QED BY <1>2, <1>3, <1>4

LEMMA FramesAlike ==
    ASSUME NEW s, NEW t, NEW fs, NEW gs, Len(s) \in Nat, Len(t) = Len(s), Alike(s, t, Len(s)),
           FramesMatch(s, fs), Len(gs) = Len(fs), \A k \in 1..Len(fs) : gs[k].was = fs[k].was
    PROVE  FramesMatch(t, gs)
<1>1. Len(gs) = Cardinality(At(t, Len(t), FrameKinds))
  BY AtAlike DEF FramesMatch
<1>2. ASSUME NEW i \in 1..Len(s), t[i].kind \in FrameKinds
      PROVE  gs[Cardinality(At(t, i, FrameKinds))].was = t[i].was
  <2>1. s[i].kind \in FrameKinds /\ t[i].was = s[i].was
    BY <1>2 DEF Alike
  <2>2. Cardinality(At(s, i, FrameKinds)) \in 1..Len(fs)
    BY <2>1, FrameIndex DEF FramesMatch
  <2>3. At(t, i, FrameKinds) = At(s, i, FrameKinds)
    BY AtAlike
  <2> QED BY <2>1, <2>2, <2>3 DEF FramesMatch
<1> QED BY <1>1, <1>2 DEF FramesMatch

LEMMA FramesPushed ==
    ASSUME NEW s, NEW t, NEW fs, NEW gs, Len(s) \in Nat, Len(t) = Len(s) + 1, Alike(s, t, Len(s)),
           FramesMatch(s, fs), \A k \in 1..Len(fs) : gs[k].was = fs[k].was,
           \/ /\ t[Len(t)].kind \in FrameKinds
              /\ Len(gs) = Len(fs) + 1 /\ gs[Len(gs)].was = t[Len(t)].was
           \/ t[Len(t)].kind \notin FrameKinds /\ Len(gs) = Len(fs)
    PROVE  FramesMatch(t, gs)
<1> DEFINE c == Cardinality(At(s, Len(s), FrameKinds))
<1>0. c \in Nat /\ Len(fs) = c
  BY AtCounts DEF FramesMatch
<1>1. At(t, Len(s), FrameKinds) = At(s, Len(s), FrameKinds)
  BY AtAlike
<1>2. Cardinality(At(t, Len(t), FrameKinds)) =
         c + (IF t[Len(t)].kind \in FrameKinds THEN 1 ELSE 0)
  BY <1>0, <1>1, AtOneMore
<1>3. ASSUME NEW i \in 1..Len(s), t[i].kind \in FrameKinds
      PROVE  gs[Cardinality(At(t, i, FrameKinds))].was = t[i].was
  <2>1. s[i].kind \in FrameKinds /\ t[i].was = s[i].was
    BY <1>3 DEF Alike
  <2>2. Cardinality(At(s, i, FrameKinds)) \in 1..Len(fs)
    BY <2>1, FrameIndex DEF FramesMatch
  <2>3. At(t, i, FrameKinds) = At(s, i, FrameKinds)
    BY AtAlike
  <2> QED BY <2>1, <2>2, <2>3 DEF FramesMatch
<1>4. \A i \in 1..Len(t) : i \in 1..Len(s) \/ i = Len(t)
  OBVIOUS
<1>5. t[Len(t)].kind \in FrameKinds => gs[Cardinality(At(t, Len(t), FrameKinds))].was = t[Len(t)].was
  BY <1>0, <1>2
<1>6. Len(gs) = Cardinality(At(t, Len(t), FrameKinds))
  BY <1>0, <1>2
<1> QED BY <1>3, <1>4, <1>5, <1>6 DEF FramesMatch

LEMMA FramesPopped ==
    ASSUME NEW s, NEW t, NEW fs, Len(t) \in Nat, Len(s) = Len(t) + 1, Alike(s, t, Len(t)),
           FramesMatch(s, fs)
    PROVE  /\ s[Len(s)].kind \in FrameKinds =>
                 /\ Len(fs) \in Nat \ {0} /\ fs[Len(fs)].was = s[Len(s)].was
                 /\ \A gs : Len(gs) = Len(fs) - 1 /\ (\A k \in 1..Len(gs) : gs[k].was = fs[k].was)
                               => FramesMatch(t, gs)
           /\ s[Len(s)].kind \notin FrameKinds => FramesMatch(t, fs)
<1> DEFINE c == Cardinality(At(t, Len(t), FrameKinds))
<1>0. c \in Nat
  BY AtCounts
<1>1. At(t, Len(t), FrameKinds) = At(s, Len(t), FrameKinds)
  BY AtAlike
<1>2. Len(fs) = c + (IF s[Len(s)].kind \in FrameKinds THEN 1 ELSE 0)
  BY <1>0, <1>1, AtOneMore DEF FramesMatch
<1>3. ASSUME NEW i \in 1..Len(t), t[i].kind \in FrameKinds
      PROVE  /\ fs[Cardinality(At(t, i, FrameKinds))].was = t[i].was
             /\ Cardinality(At(t, i, FrameKinds)) \in 1..c
  <2>1. i \in 1..Len(s) /\ s[i].kind \in FrameKinds /\ t[i].was = s[i].was
    BY <1>3 DEF Alike
  <2>2. Cardinality(At(t, i, FrameKinds)) \in 1..c
    BY <1>3, FrameIndex
  <2>3. At(t, i, FrameKinds) = At(s, i, FrameKinds)
    BY AtAlike
  <2> QED BY <2>1, <2>2, <2>3 DEF FramesMatch
<1>4. ASSUME s[Len(s)].kind \in FrameKinds
      PROVE  /\ Len(fs) = c + 1 /\ fs[Len(fs)].was = s[Len(s)].was
             /\ \A gs : Len(gs) = Len(fs) - 1 /\ (\A k \in 1..Len(gs) : gs[k].was = fs[k].was)
                           => FramesMatch(t, gs)
  <2>1. Len(fs) = c + 1 /\ Len(s) \in 1..Len(s)
    BY <1>0, <1>2, <1>4
  <2>2. fs[Len(fs)].was = s[Len(s)].was
    BY <1>4, <2>1 DEF FramesMatch
  <2>3. ASSUME NEW gs, Len(gs) = Len(fs) - 1, \A k \in 1..Len(gs) : gs[k].was = fs[k].was
        PROVE  FramesMatch(t, gs)
    <3>1. Len(gs) = c
      BY <1>0, <2>1, <2>3
    <3> QED BY <1>3, <2>3, <3>1 DEF FramesMatch
  <2> QED BY <2>1, <2>2, <2>3
<1>5. ASSUME s[Len(s)].kind \notin FrameKinds
      PROVE  FramesMatch(t, fs)
  <2>1. Len(fs) = c
    BY <1>0, <1>2, <1>5
  <2> QED BY <1>3, <2>1 DEF FramesMatch
<1> QED BY <1>0, <1>4, <1>5

-----------------------------------------------------------------------------
(* Steps of a running program.                                               *)

LEMMA LastOfSeq ==
    ASSUME NEW S, NEW s \in Seq(S), s # <<>>
    PROVE  /\ Len(s) \in Nat \ {0} /\ Last(s) = s[Len(s)] /\ Last(s) \in S
           /\ Front(s) \in Seq(S) /\ Len(Front(s)) = Len(s) - 1
           /\ \A k \in 1..Len(Front(s)) : Front(s)[k] = s[k]
           /\ \A a \in S :
                 /\ [s EXCEPT ![Len(s)] = a] \in Seq(S)
                 /\ Len([s EXCEPT ![Len(s)] = a]) = Len(s)
                 /\ \A k \in 1..Len(s) :
                       [s EXCEPT ![Len(s)] = a][k] = IF k = Len(s) THEN a ELSE s[k]
<1>1. Len(s) \in Nat \ {0}
  BY EmptySeq
<1>2. Last(s) = s[Len(s)] /\ Last(s) \in S
  BY <1>1, ElementOfSeq DEF Last
<1>3. Front(s) = SubSeq(s, 1, Len(s) - 1)
  BY DEF Front
<1>4. \A k \in 1..Len(s) - 1 : s[k] \in S
  BY <1>1, ElementOfSeq
<1>5. /\ SubSeq(s, 1, Len(s) - 1) \in Seq(S)
      /\ Len(SubSeq(s, 1, Len(s) - 1)) = IF 1 <= Len(s) - 1 THEN (Len(s) - 1) - 1 + 1 ELSE 0
      /\ \A k \in 1..(Len(s) - 1) - 1 + 1 : SubSeq(s, 1, Len(s) - 1)[k] = s[1 + k - 1]
  <2>1. Len(s) - 1 \in Int /\ 1 \in Int
    BY <1>1
  <2> QED BY <1>4, <2>1, SubSeqProperties
<1>6. Len(Front(s)) = Len(s) - 1 /\ \A k \in 1..Len(Front(s)) : Front(s)[k] = s[k]
  <2> DEFINE f == SubSeq(s, 1, Len(s) - 1)
           l == Len(f)
           n == Len(s) - 1
  <2>1. Len(f) = Len(s) - 1
    <3>1. l = (IF 1 <= n THEN n - 1 + 1 ELSE 0) /\ n \in Nat
      BY <1>1, <1>5
    <3> HIDE DEF l, n
    <3>2. l = n
      BY <3>1
    <3> QED BY <3>2 DEF l, n
  <2>2. \A k \in 1..Len(s) - 1 : k \in 1..(Len(s) - 1) - 1 + 1 /\ 1 + k - 1 = k
    BY <1>1
  <2>3. \A k \in 1..Len(s) - 1 : f[k] = s[k]
    BY <1>5, <2>2
  <2> HIDE DEF f
  <2>4. Front(s) = f
    BY <1>3 DEF f
  <2> QED BY <2>1, <2>3, <2>4
<1>7. \A a \in S :
         /\ [s EXCEPT ![Len(s)] = a] \in Seq(S)
         /\ Len([s EXCEPT ![Len(s)] = a]) = Len(s)
         /\ \A k \in 1..Len(s) :
               [s EXCEPT ![Len(s)] = a][k] = IF k = Len(s) THEN a ELSE s[k]
  <2>1. Len(s) \in 1..Len(s)
    BY <1>1
  <2> QED BY <2>1, ExceptSeq
<1> QED BY <1>1, <1>2, <1>3, <1>5, <1>6, <1>7

(* The same for the frames of the runtime.                                   *)
LEMMA FramesPushedNow ==
    ASSUME Len(stack) \in Nat, Len(stack') = Len(stack) + 1, Alike(stack, stack', Len(stack)),
           FramesMatch(stack, frames), \A k \in 1..Len(frames) : frames'[k].was = frames[k].was,
           \/ /\ stack'[Len(stack')].kind \in FrameKinds
              /\ Len(frames') = Len(frames) + 1 /\ frames'[Len(frames')].was = stack'[Len(stack')].was
           \/ stack'[Len(stack')].kind \notin FrameKinds /\ Len(frames') = Len(frames)
    PROVE  FramesMatch(stack', frames')
BY FramesPushed, Zenon

LEMMA FramesPoppedNow ==
    ASSUME Len(stack') \in Nat, Len(stack) = Len(stack') + 1, Alike(stack, stack', Len(stack')),
           FramesMatch(stack, frames)
    PROVE  /\ stack[Len(stack)].kind \in FrameKinds =>
                 /\ Len(frames) \in Nat \ {0} /\ frames[Len(frames)].was = stack[Len(stack)].was
                 /\ Len(frames') = Len(frames) - 1
                    /\ (\A k \in 1..Len(frames') : frames'[k].was = frames[k].was)
                       => FramesMatch(stack', frames')
           /\ stack[Len(stack)].kind \notin FrameKinds => FramesMatch(stack', frames)
<1>1. /\ stack[Len(stack)].kind \in FrameKinds =>
            /\ Len(frames) \in Nat \ {0} /\ frames[Len(frames)].was = stack[Len(stack)].was
            /\ \A gs : Len(gs) = Len(frames) - 1 /\ (\A k \in 1..Len(gs) : gs[k].was = frames[k].was)
                          => FramesMatch(stack', gs)
      /\ stack[Len(stack)].kind \notin FrameKinds => FramesMatch(stack', frames)
  BY FramesPopped, Zenon
<1> QED BY <1>1, Zenon

(* The innermost registered frame is that of the innermost call.             *)
LEMMA FrameOnTop ==
    ASSUME Len(stack) \in Nat \ {0}, FramesMatch(stack, frames), Top = stack[Len(stack)],
           Top.kind \in FrameKinds
    PROVE  frames[Len(frames)].was = Top.was /\ Len(frames) \in Nat \ {0}
<1>1. Len(stack) \in 1..Len(stack)
  OBVIOUS
<1>2. Len(frames) = Cardinality(At(stack, Len(stack), FrameKinds))
  BY DEF FramesMatch
<1>3. Cardinality(At(stack, Len(stack), FrameKinds)) \in Nat \ {0}
  <2>1. Len(stack) \in At(stack, Len(stack), FrameKinds)
    BY <1>1 DEF At
  <2> QED BY <2>1, AtCounts
<1> QED BY <1>1, <1>2, <1>3 DEF FramesMatch

LEMMA FrontOfFrames ==
    ASSUME NEW S, frames \in Seq(S), frames # <<>>
    PROVE  /\ Front(frames) \in Seq(S) /\ Len(Front(frames)) = Len(frames) - 1
           /\ \A k \in 1..Len(Front(frames)) : Front(frames)[k] = frames[k]
           /\ Len(frames) \in Nat \ {0} /\ Last(frames) = frames[Len(frames)]
BY LastOfSeq, Zenon

LEMMA LastChanged ==
    ASSUME NEW S, NEW s \in Seq(S), s # <<>>, NEW a \in S, NEW t, t = [s EXCEPT ![Len(s)] = a]
    PROVE  /\ t \in Seq(S) /\ Len(t) = Len(s)
           /\ \A k \in 1..Len(s) : t[k] = IF k = Len(s) THEN a ELSE s[k]
BY LastOfSeq

LEMMA TopChanged ==
    ASSUME NEW S, stack \in Seq(S), stack # <<>>, NEW a \in S,
           stack' = [stack EXCEPT ![Len(stack)] = a]
    PROVE  /\ stack' \in Seq(S) /\ Len(stack') = Len(stack)
           /\ \A k \in 1..Len(stack) : stack'[k] = IF k = Len(stack) THEN a ELSE stack[k]
BY LastChanged

LEMMA AppendToSeq ==
    ASSUME NEW S, NEW s \in Seq(S), NEW a \in S
    PROVE  /\ Append(s, a) \in Seq(S) /\ Len(s) \in Nat /\ Len(Append(s, a)) = Len(s) + 1
           /\ \A k \in 1..Len(s) : Append(s, a)[k] = s[k]
           /\ Append(s, a)[Len(s) + 1] = a
<1>1. Len(s) \in Nat
  BY LenProperties
<1> QED BY <1>1

(* A wider set of environments.                                              *)
LEMMA Wider ==
    ASSUME NEW A, NEW B, A \subseteq B, ShapeIn(A)
    PROVE  ShapeIn(B)
<1>1. Act(A) \subseteq Act(B)
  BY DEF Act
<1>2. FrameOf(A) \subseteq FrameOf(B)
  BY DEF FrameOf
<1>3. StreamOf(A) \subseteq StreamOf(B)
  BY DEF StreamOf
<1> QED BY <1>1, <1>2, <1>3, SeqMonotonic DEF ShapeIn

(* The operator Allowed looks at dryRun, which never changes.                *)
LEMMA BooksNext ==
    ASSUME Books(stack', now'), dryRun' = dryRun
    PROVE  Books(stack, now)'
BY DEF Books, Within, Says, Innermost, At, Inside, Allowed

(* The activation of the code that runs.                                     *)
LEMMA TopIs ==
    ASSUME IInv, Running, NEW B, ShapeIn(B)
    PROVE  /\ Len(stack) \in Nat \ {0} /\ Top = stack[Len(stack)] /\ Top \in Act(B)
           /\ Top.was \in NowType /\ Within(now, Top)
           /\ Top.kind \notin {"program", "host"} => Len(stack) > 1
<1>1. stack \in Seq(Act(B)) /\ stack # <<>>
  BY DEF ShapeIn, Running
<1>2. Len(stack) \in Nat \ {0} /\ Top = stack[Len(stack)] /\ Top \in Act(B)
  BY <1>1, LastOfSeq DEF Top
<1>3. Within(now, Top)
  <2>1. Inside(stack, now, Len(stack)) = now /\ Len(stack) \in 1..Len(stack)
    BY <1>2 DEF Inside
  <2> QED BY <1>2, <2>1 DEF IInv, Agreement, Books
<1>4. Top.was \in NowType
  BY <1>2 DEF Act
<1>5. Top.kind \notin {"program", "host"} => Len(stack) > 1
  <2>1. Bottom
    BY DEF IInv, Agreement
  <2>2. Len(stack) = 1 => Top = stack[1]
    BY <1>2
  <2> QED BY <1>1, <1>2, <2>1, <2>2 DEF Bottom
<1> QED BY <1>2, <1>3, <1>4, <1>5

(* Nothing is called and nothing ends.                                       *)
LEMMA QuietStep ==
    ASSUME IInv, Running, NEW B, ShapeIn(B)', Len(stack) \in Nat \ {0},
           Len(stack') = Len(stack), Alike(stack, stack', Len(stack)),
           UNCHANGED <<now, frames, handles>>, KeepBoundary, failed' \in BOOLEAN,
           Len(streams) <= Len(streams'), Len(streams) \in Nat, Len(streams') \in Nat,
           modules' \in [Modules -> {"absent", "loading", "loaded"}],
           \A m \in Modules : modules[m] = "loading" => modules'[m] = "loading"
    PROVE  IInv'
<1>0. /\ CallType /\ Books(stack, now) /\ FrameBooks /\ Bottom /\ ModuleBooks /\ HandleBooks /\ Boundary
      /\ UNCHANGED <<host, registered, dryRun, phase, checkpoint, step, scope, entries>>
      /\ stack # <<>> /\ stack' # <<>>
      /\ phase \in {"load", "call"}
  <2>1. Len(<<>>) = 0
    BY EmptySeq
  <2>2. stack # <<>> /\ stack' # <<>>
    BY <2>1
  <2> QED BY <2>2 DEF IInv, Agreement, KeepBoundary, Running
<1>1. CallType' /\ Shape'
  BY <1>0 DEF CallType, Shape
<1>2. Books(stack, now)'
  BY <1>0, BooksAlike, BooksNext
<1>3. FrameBooks'
  BY <1>0, FramesAlike DEF FrameBooks
<1>4. Bottom'
  <2>1. 1 \in 1..Len(stack) /\ \A i \in 2..Len(stack) : i \in 1..Len(stack)
    OBVIOUS
  <2> QED BY <1>0, <2>1 DEF Bottom, Alike
<1>5. ModuleBooks'
  BY <1>0 DEF ModuleBooks, Alike
<1>6. HandleBooks'
  BY <1>0 DEF HandleBooks, Alike
<1>7. Boundary'
  <2>1. checkpoint.streams \in Nat
    BY <1>0 DEF CallType
  <2> QED BY <1>0, <2>1 DEF Boundary
<1> QED BY <1>1, <1>2, <1>3, <1>4, <1>5, <1>6, <1>7 DEF IInv, Agreement

(* A call begins.                                                            *)
LEMMA PushStep ==
    ASSUME IInv, Running, NEW B, ShapeIn(B), NEW a \in Act(B), stack' = Append(stack, a),
           a.was = now, a.kind \notin {"program", "host"}, now' \in NowType, Within(now', a),
           KeepBoundary, UNCHANGED streams, failed' \in BOOLEAN,
           frames' \in Seq(FrameOf(B)),
           \A k \in 1..Len(frames) : frames'[k].was = frames[k].was,
           \/ /\ registered /\ a.kind \in FrameKinds
              /\ Len(frames') = Len(frames) + 1 /\ frames'[Len(frames')].was = now
           \/ (~registered \/ a.kind \notin FrameKinds) /\ Len(frames') = Len(frames),
           modules' \in [Modules -> {"absent", "loading", "loaded"}],
           \A m \in Modules : modules[m] = "loading" => modules'[m] = "loading",
           a.kind = "module" =>
              /\ a.name \in Modules /\ modules[a.name] # "loading" /\ modules'[a.name] = "loading",
           handles' \in Seq({"open", "committed", "rolledback"}), Len(handles) <= Len(handles'),
           \A h \in 1..Len(handles) : handles'[h] = handles[h],
           a.kind = "transaction" /\ a.handle # 0 =>
              /\ a.handle = Len(handles) + 1 /\ a.handle = Len(handles')
              /\ handles'[a.handle] = "open"
    PROVE  IInv'
<1>0. /\ CallType /\ Books(stack, now) /\ FrameBooks /\ Bottom /\ ModuleBooks /\ HandleBooks /\ Boundary
      /\ UNCHANGED <<host, registered, dryRun, phase, checkpoint, step, scope, entries>>
      /\ stack # <<>> /\ phase \in {"load", "call"} /\ now \in NowType
      /\ stack \in Seq(Act(B)) /\ streams \in Seq(StreamOf(B))
      /\ frames \in Seq(FrameOf(B))
      /\ handles \in Seq({"open", "committed", "rolledback"})
  BY DEF IInv, Agreement, KeepBoundary, Running, CallType, ShapeIn
<1> DEFINE n == Len(stack)
<1>1. /\ n \in Nat \ {0} /\ stack' \in Seq(Act(B)) /\ Len(stack') = n + 1 /\ stack'[n + 1] = a
      /\ \A k \in 1..n : stack'[k] = stack[k]
  BY <1>0, AppendToSeq, EmptySeq
<1> HIDE DEF n
<1>2. Alike(stack, stack', n)
  BY <1>1 DEF Alike
<1>3. CallType' /\ Shape'
  BY <1>0, <1>1 DEF CallType, Shape, ShapeIn
<1>4. Books(stack, now)'
  <2>0. stack'[Len(stack')] = a
    BY <1>1
  <2>1. /\ Len(stack) \in Nat \ {0} /\ Len(stack') = Len(stack) + 1
        /\ Alike(stack, stack', Len(stack)) /\ Books(stack, now)
        /\ now \in NowType /\ now' \in NowType
        /\ stack'[Len(stack')].was = now /\ Within(now', stack'[Len(stack')])
    BY <1>0, <1>1, <1>2, <2>0 DEF n
  <2>2. Books(stack', now')
    BY <2>1, BooksPushed
  <2> QED BY <1>0, <2>2, BooksNext
<1>5. FrameBooks'
  <2>1. CASE ~registered
    <3>1. Len(frames) = 0
      BY <1>0, <2>1, EmptySeq DEF FrameBooks
    <3>2. frames' = <<>>
      BY <2>1, <3>1, EmptySeq
    <3> QED BY <1>0, <2>1, <3>2 DEF FrameBooks
  <2>2. CASE registered
    <3>1. FramesMatch(stack, frames)
      BY <1>0, <2>2 DEF FrameBooks
    <3>2. \/ /\ stack'[Len(stack')].kind \in FrameKinds
             /\ Len(frames') = Len(frames) + 1
             /\ frames'[Len(frames')].was = stack'[Len(stack')].was
          \/ stack'[Len(stack')].kind \notin FrameKinds /\ Len(frames') = Len(frames)
      BY <1>1, <2>2
    <3>3. /\ Len(stack) \in Nat /\ Len(stack') = Len(stack) + 1
          /\ Alike(stack, stack', Len(stack))
          /\ \A k \in 1..Len(frames) : frames'[k].was = frames[k].was
      BY <1>1, <1>2 DEF n
    <3>4. FramesMatch(stack', frames')
      BY <3>1, <3>2, <3>3, FramesPushedNow
    <3> QED BY <1>0, <2>2, <3>4 DEF FrameBooks, FramesMatch, At
  <2> QED BY <1>0, <2>1, <2>2 DEF CallType
<1>6. \A i \in 1..Len(stack') : i \in 1..n \/ i = n + 1
  BY <1>1
<1>7. Bottom'
  <2>1. stack'[1] = stack[1] /\ 1 # n + 1
    BY <1>1
  <2>2. \A i \in 2..Len(stack') : i \in 2..n \/ i = n + 1
    BY <1>1
  <2>3. \A i \in 2..Len(stack') : stack'[i].kind \notin {"program", "host"}
    BY <1>0, <1>1, <2>2 DEF Bottom, n
  <2> QED BY <1>0, <2>1, <2>3 DEF Bottom
<1>8. ModuleBooks'
  <2>1. \A i \in 1..n : stack[i].kind = "module" => stack[i].name # a.name \/ a.kind # "module"
    BY <1>0 DEF ModuleBooks, n
  <2>2. ASSUME NEW i \in 1..Len(stack'), stack'[i].kind = "module"
        PROVE  /\ stack'[i].name \in Modules /\ modules'[stack'[i].name] = "loading"
               /\ \A j \in 1..Len(stack') :
                     stack'[j].kind = "module" /\ stack'[j].name = stack'[i].name => j = i
    <3>1. CASE i \in 1..n
      <4>1. /\ stack[i].kind = "module" /\ stack[i].name \in Modules
            /\ modules[stack[i].name] = "loading"
            /\ \A j \in 1..n : stack[j].kind = "module" /\ stack[j].name = stack[i].name => j = i
        BY <1>0, <1>1, <2>2, <3>1 DEF ModuleBooks, n
      <4> QED BY <1>1, <1>6, <2>1, <3>1, <4>1
    <3>2. CASE i = n + 1
      BY <1>1, <1>6, <2>1, <2>2, <3>2
    <3> QED BY <1>6, <3>1, <3>2
  <2> QED BY <2>2 DEF ModuleBooks
<1>9. HandleBooks'
  <2>0. Len(handles) \in Nat /\ Len(handles') \in Nat
    BY <1>0, LenProperties
  <2>1. \A i \in 1..n : stack[i].kind = "transaction" /\ stack[i].handle # 0 =>
            stack[i].handle \in 1..Len(handles)
    BY <1>0 DEF HandleBooks, n
  <2>2. ASSUME NEW i \in 1..Len(stack'), stack'[i].kind = "transaction", stack'[i].handle # 0
        PROVE  /\ stack'[i].handle \in 1..Len(handles') /\ handles'[stack'[i].handle] = "open"
               /\ \A j \in 1..Len(stack') :
                     stack'[j].kind = "transaction" /\ stack'[j].handle = stack'[i].handle => j = i
    <3>1. CASE i \in 1..n
      <4>1. /\ stack[i].kind = "transaction" /\ stack[i].handle \in 1..Len(handles)
            /\ handles[stack[i].handle] = "open" /\ stack'[i].handle = stack[i].handle
            /\ stack[i].handle # 0
            /\ \A j \in 1..n :
                  stack[j].kind = "transaction" /\ stack[j].handle = stack[i].handle => j = i
        BY <1>0, <1>1, <2>2, <3>1 DEF HandleBooks, n
      <4>2. stack'[i].handle \in 1..Len(handles')
        BY <2>0, <4>1
      <4>3. a.kind = "transaction" => a.handle # stack[i].handle
        BY <2>0, <4>1
      <4> QED BY <1>1, <1>6, <3>1, <4>1, <4>2, <4>3
    <3>2. CASE i = n + 1
      <4>1. a.kind = "transaction" /\ a.handle = Len(handles) + 1 /\ a.handle = Len(handles')
            /\ handles'[a.handle] = "open" /\ stack'[i] = a
        BY <1>1, <2>2, <3>2
      <4>2. \A j \in 1..n : stack[j].kind = "transaction" => stack[j].handle # a.handle
        <5>1. a.handle \in Nat \ {0} /\ a.handle \notin 1..Len(handles)
          BY <2>0, <4>1
        <5> QED BY <2>1, <5>1
      <4>3. a.handle \in 1..Len(handles')
        BY <2>0, <4>1
      <4> QED BY <1>1, <1>6, <3>2, <4>1, <4>2, <4>3
    <3> QED BY <1>6, <3>1, <3>2
  <2> QED BY <2>2 DEF HandleBooks
<1>10. Boundary'
  <2>1. stack' # <<>>
    BY <1>1, EmptySeq
  <2> QED BY <1>0, <2>1 DEF Boundary
<1> QED BY <1>3, <1>4, <1>5, <1>7, <1>8, <1>9, <1>10 DEF IInv, Agreement

(* A call returns.                                                           *)
LEMMA PopStep ==
    ASSUME IInv, Running, Top.kind \notin {"program", "host"}, NEW B, ShapeIn(B),
           stack' \in Seq(Act(B)), Len(stack') = Len(stack) - 1, Alike(stack, stack', Len(stack')),
           now' = Top.was, KeepBoundary, UNCHANGED streams, failed' \in BOOLEAN,
           IF Top.kind \in FrameKinds /\ registered THEN frames' = Front(frames)
                                                    ELSE frames' = frames,
           modules' \in [Modules -> {"absent", "loading", "loaded"}],
           \A m \in Modules :
              modules'[m] = modules[m] \/ (Top.kind = "module" /\ Top.name = m),
           handles' \in Seq({"open", "committed", "rolledback"}), Len(handles') = Len(handles),
           \A h \in 1..Len(handles) :
              handles'[h] = handles[h] \/ (Top.kind = "transaction" /\ Top.handle = h)
    PROVE  IInv'
<1>0. /\ CallType /\ Books(stack, now) /\ FrameBooks /\ Bottom /\ ModuleBooks /\ HandleBooks /\ Boundary
      /\ UNCHANGED <<host, registered, dryRun, phase, checkpoint, step, scope, entries>>
      /\ phase \in {"load", "call"}
      /\ frames \in Seq(FrameOf(B))
  BY DEF IInv, Agreement, KeepBoundary, Running, ShapeIn
<1>1. /\ Len(stack) \in Nat /\ Len(stack) > 1 /\ Top = stack[Len(stack)] /\ Top.was \in NowType
  BY TopIs
<1>2. /\ Len(stack') \in Nat \ {0} /\ Len(stack) = Len(stack') + 1
      /\ \A i \in 1..Len(stack') : i \in 1..Len(stack) /\ i # Len(stack)
      /\ Len(stack) \in 1..Len(stack)
  BY <1>1
<1>3. \A i \in 1..Len(stack') : /\ stack'[i].kind = stack[i].kind /\ stack'[i].name = stack[i].name
                                /\ stack'[i].handle = stack[i].handle
  BY DEF Alike
<1>4. FrameBooks' /\ frames' \in Seq(FrameOf(B))
  <2>0. registered \in BOOLEAN
    BY <1>0 DEF CallType
  <2>1. CASE ~registered
    BY <1>0, <2>1 DEF FrameBooks
  <2>2. CASE registered
    <3>1. FramesMatch(stack, frames) /\ stack # <<>>
      BY <1>0, <2>2 DEF FrameBooks, Running
    <3>2. CASE Top.kind \in FrameKinds
      <4>1. /\ Len(stack') \in Nat /\ Len(stack) = Len(stack') + 1
            /\ Alike(stack, stack', Len(stack')) /\ stack[Len(stack)].kind \in FrameKinds
        BY <1>1, <1>2, <3>2
      <4>2. /\ Len(frames) \in Nat \ {0}
            /\ Len(frames') = Len(frames) - 1
               /\ (\A k \in 1..Len(frames') : frames'[k].was = frames[k].was)
                  => FramesMatch(stack', frames')
        BY <3>1, <4>1, FramesPoppedNow
      <4>3. frames # <<>>
        BY <4>2, EmptySeq
      <4>4. /\ Len(frames') = Len(frames) - 1 /\ frames' \in Seq(FrameOf(B))
            /\ \A k \in 1..Len(frames') : frames'[k] = frames[k]
        <5>1. frames' = Front(frames)
          BY <2>2, <3>2
        <5>2. /\ Front(frames) \in Seq(FrameOf(B))
              /\ Len(Front(frames)) = Len(frames) - 1
              /\ \A k \in 1..Len(Front(frames)) : Front(frames)[k] = frames[k]
          BY <1>0, <4>3, FrontOfFrames
        <5> QED BY <5>1, <5>2
      <4>5. FramesMatch(stack', frames')
        BY <4>2, <4>4
      <4> QED BY <1>0, <2>2, <4>4, <4>5 DEF FrameBooks, FramesMatch, At
    <3>3. CASE Top.kind \notin FrameKinds
      <4>1. FramesMatch(stack', frames)
        <5>1. /\ Len(stack') \in Nat /\ Len(stack) = Len(stack') + 1
              /\ Alike(stack, stack', Len(stack')) /\ stack[Len(stack)].kind \notin FrameKinds
          BY <1>1, <1>2, <3>3
        <5> QED BY <3>1, <5>1, FramesPoppedNow
      <4>2. FramesMatch(stack', frames')
        BY <3>3, <4>1
      <4> QED BY <1>0, <2>2, <3>3, <4>2 DEF FrameBooks, FramesMatch, At
    <3> QED BY <3>2, <3>3
  <2> QED BY <2>0, <2>1, <2>2
<1>5. CallType' /\ Shape'
  <2>1. CallType'
    BY <1>0, <1>1 DEF CallType
  <2>2. ShapeIn(B)'
    BY <1>4 DEF ShapeIn
  <2> QED BY <2>1, <2>2 DEF Shape
<1>6. Books(stack, now)'
  <2>1. Books(stack', stack[Len(stack)].was)
    BY <1>0, <1>2, BooksPopped
  <2> QED BY <1>0, <1>1, <2>1, BooksNext
<1>7. Bottom'
  <2>1. /\ 1 \in 1..Len(stack')
        /\ \A i \in 2..Len(stack') : i \in 1..Len(stack') /\ i \in 2..Len(stack)
    BY <1>2
  <2> QED BY <1>0, <1>3, <2>1 DEF Bottom, Running
<1>8. ModuleBooks'
  <2>1. ASSUME NEW i \in 1..Len(stack'), stack'[i].kind = "module"
        PROVE  /\ stack'[i].name \in Modules /\ modules'[stack'[i].name] = "loading"
               /\ \A j \in 1..Len(stack') :
                     stack'[j].kind = "module" /\ stack'[j].name = stack'[i].name => j = i
    <3>1. /\ stack[i].name \in Modules /\ modules[stack[i].name] = "loading"
          /\ \A j \in 1..Len(stack) :
                stack[j].kind = "module" /\ stack[j].name = stack[i].name => j = i
      BY <1>0, <1>2, <1>3, <2>1 DEF ModuleBooks
    <3>2. Top.kind = "module" => Top.name # stack[i].name
      BY <1>1, <1>2, <3>1
    <3> QED BY <1>2, <1>3, <3>1, <3>2
  <2> QED BY <2>1 DEF ModuleBooks
<1>9. HandleBooks'
  <2>1. ASSUME NEW i \in 1..Len(stack'), stack'[i].kind = "transaction", stack'[i].handle # 0
        PROVE  /\ stack'[i].handle \in 1..Len(handles') /\ handles'[stack'[i].handle] = "open"
               /\ \A j \in 1..Len(stack') :
                     stack'[j].kind = "transaction" /\ stack'[j].handle = stack'[i].handle => j = i
    <3>1. /\ stack[i].handle \in 1..Len(handles) /\ handles[stack[i].handle] = "open"
          /\ \A j \in 1..Len(stack) :
                stack[j].kind = "transaction" /\ stack[j].handle = stack[i].handle => j = i
      BY <1>0, <1>2, <1>3, <2>1 DEF HandleBooks
    <3>2. Top.kind = "transaction" => Top.handle # stack[i].handle
      BY <1>1, <1>2, <3>1
    <3> QED BY <1>2, <1>3, <3>1, <3>2
  <2> QED BY <2>1 DEF HandleBooks
<1>10. Boundary'
  <2>1. stack' # <<>>
    BY <1>2, EmptySeq
  <2> QED BY <1>0, <2>1 DEF Boundary
<1> QED BY <1>4, <1>5, <1>6, <1>7, <1>8, <1>9, <1>10 DEF IInv, Agreement

-----------------------------------------------------------------------------
(* Records.                                                                  *)

LEMMA SameNow ==
    ASSUME NEW m \in NowType, NEW n \in NowType, m.contract = n.contract, m.effect = n.effect,
           m.source = n.source, m.depth = n.depth, m.trace = n.trace
    PROVE  m = n
BY DEF NowType

LEMMA SameEnv ==
    ASSUME NEW B, NEW a \in Act(B), NEW x \in B
    PROVE  /\ [a EXCEPT !.scope = x] \in Act(B)
           /\ [a EXCEPT !.scope = x].kind = a.kind /\ [a EXCEPT !.scope = x].name = a.name
           /\ [a EXCEPT !.scope = x].was = a.was /\ [a EXCEPT !.scope = x].handle = a.handle
           /\ [a EXCEPT !.scope = x].result = a.result
BY DEF Act

LEMMA SameCall ==
    ASSUME NEW B, NEW a \in Act(B), NEW r \in {"whole", "stream", "failed"}
    PROVE  /\ [a EXCEPT !.result = r] \in Act(B)
           /\ [a EXCEPT !.result = r].kind = a.kind /\ [a EXCEPT !.result = r].name = a.name
           /\ [a EXCEPT !.result = r].was = a.was /\ [a EXCEPT !.result = r].handle = a.handle
BY DEF Act

LEMMA SameFrame ==
    ASSUME NEW B, NEW f \in FrameOf(B), NEW e \in B
    PROVE  [f EXCEPT !.env = e] \in FrameOf(B) /\ [f EXCEPT !.env = e].was = f.was
BY DEF FrameOf

(* The innermost activation goes on in another environment.                  *)
LEMMA PlaceStep ==
    ASSUME NEW B, NEW x \in B, ShapeIn(B), stack # <<>>, stack' = Place([Top EXCEPT !.scope = x])
    PROVE  /\ stack' \in Seq(Act(B)) /\ Len(stack) \in Nat \ {0} /\ Len(stack') = Len(stack)
           /\ Alike(stack, stack', Len(stack))
<1> DEFINE a == [Top EXCEPT !.scope = x]
<1>1. /\ stack \in Seq(Act(B)) /\ Len(stack) \in Nat \ {0}
      /\ Top = stack[Len(stack)] /\ Top \in Act(B)
  BY LastOfSeq DEF ShapeIn, Top
<1>2. /\ a \in Act(B) /\ a.kind = Top.kind /\ a.name = Top.name
      /\ a.was = Top.was /\ a.handle = Top.handle
  BY <1>1, SameEnv
<1>3. stack' = [stack EXCEPT ![Len(stack)] = a]
  BY DEF Place
<1> HIDE DEF a
<1>4. /\ stack' \in Seq(Act(B)) /\ Len(stack') = Len(stack)
      /\ \A k \in 1..Len(stack) : stack'[k] = IF k = Len(stack) THEN a ELSE stack[k]
  <2>1. stack # <<>>
    OBVIOUS
  <2> QED BY <1>1, <1>2, <1>3, <2>1, TopChanged
<1> QED BY <1>1, <1>2, <1>4 DEF Alike

(* The registers when a call begins.                                         *)
LEMMA DeeperIs ==
    ASSUME now \in NowType
    PROVE  /\ ~Deep => [now EXCEPT !.depth = @ + 1] \in NowType
           /\ Traced \in 0..TraceLimit
           /\ Traced = now.trace + (IF now.trace < TraceLimit THEN 1 ELSE 0)
<1>1. now.depth \in 0..MaxRecursion /\ now.trace \in 0..TraceLimit
      /\ MaxRecursion \in Nat /\ TraceLimit \in Nat
  BY CallsAssumption DEF NowType
<1>2. Traced \in 0..TraceLimit /\ Traced = now.trace + (IF now.trace < TraceLimit THEN 1 ELSE 0)
  BY <1>1 DEF Traced
<1>3. ~Deep => now.depth + 1 \in 0..MaxRecursion
  BY <1>1 DEF Deep
<1> QED BY <1>2, <1>3 DEF NowType

LEMMA AttachedIs ==
    ASSUME NEW B, NEW fs \in Seq(FrameOf(B)), NEW e \in B
    PROVE  /\ Attached(fs, e) \in Seq(FrameOf(B)) /\ Len(fs) \in Nat
           /\ Len(Attached(fs, e)) = Len(fs)
           /\ \A k \in 1..Len(fs) : Attached(fs, e)[k].was = fs[k].was
<1>0. Len(fs) \in Nat
  BY LenProperties
<1>1. CASE ~(registered /\ fs # <<>>)
  BY <1>0, <1>1 DEF Attached
<1>2. CASE registered /\ fs # <<>>
  <2> DEFINE f == fs[Len(fs)]
             g == [f EXCEPT !.env = e]
  <2>1. f \in FrameOf(B) /\ Len(fs) \in 1..Len(fs)
    BY <1>0, <1>2, EmptySeq, ElementOfSeq
  <2>2. g \in FrameOf(B) /\ g.was = f.was
    BY <2>1, SameFrame
  <2>3. Attached(fs, e) = [fs EXCEPT ![Len(fs)] = g]
    BY <1>2 DEF Attached
  <2> HIDE DEF f, g
  <2>4. /\ Attached(fs, e) \in Seq(FrameOf(B)) /\ Len(Attached(fs, e)) = Len(fs)
        /\ \A k \in 1..Len(fs) : Attached(fs, e)[k] = IF k = Len(fs) THEN g ELSE fs[k]
    BY <1>2, <2>2, <2>3, LastOfSeq
  <2> QED BY <1>0, <2>2, <2>4 DEF f
<1> QED BY <1>1, <1>2

LEMMA PushedIs ==
    ASSUME NEW B, Nil \in B, frames \in Seq(FrameOf(B)), now \in NowType
    PROVE  /\ Pushed \in Seq(FrameOf(B)) /\ Len(frames) \in Nat
           /\ registered => Len(Pushed) = Len(frames) + 1 /\ Pushed[Len(Pushed)].was = now
           /\ ~registered => Len(Pushed) = Len(frames)
           /\ \A k \in 1..Len(frames) : Pushed[k].was = frames[k].was
<1> DEFINE f == [env |-> Nil, was |-> now]
<1>1. f \in FrameOf(B) /\ f.was = now
  BY DEF FrameOf
<1>2. Pushed = IF registered THEN Append(frames, f) ELSE frames
  BY DEF Pushed
<1> HIDE DEF f
<1>3. /\ Append(frames, f) \in Seq(FrameOf(B)) /\ Len(frames) \in Nat
      /\ Len(Append(frames, f)) = Len(frames) + 1
      /\ \A k \in 1..Len(frames) : Append(frames, f)[k] = frames[k]
      /\ Append(frames, f)[Len(frames) + 1] = f
  BY <1>1, AppendToSeq
<1> QED BY <1>1, <1>2, <1>3

LEMMA ChangedNow ==
    ASSUME NEW n \in NowType, NEW d, NEW c, NEW e
    PROVE  /\ [n EXCEPT !.depth = d] =
                  [contract |-> n.contract, effect |-> n.effect, source |-> n.source,
                   depth |-> d, trace |-> n.trace]
           /\ [n EXCEPT !.contract = c, !.effect = e] =
                  [contract |-> c, effect |-> e, source |-> n.source,
                   depth |-> n.depth, trace |-> n.trace]
           /\ n = [contract |-> n.contract, effect |-> n.effect, source |-> n.source,
                   depth |-> n.depth, trace |-> n.trace]
<1> DEFINE r == [contract |-> n.contract, effect |-> n.effect, source |-> n.source,
                 depth |-> n.depth, trace |-> n.trace]
<1>1. n = r
  BY DEF NowType
<1>2. [r EXCEPT !.depth = d] = [contract |-> n.contract, effect |-> n.effect, source |-> n.source,
                                depth |-> d, trace |-> n.trace]
  OBVIOUS
<1>3. [r EXCEPT !.contract = c, !.effect = e] =
         [contract |-> c, effect |-> e, source |-> n.source, depth |-> n.depth, trace |-> n.trace]
  <2> DEFINE q == [contract |-> c, effect |-> n.effect, source |-> n.source,
                   depth |-> n.depth, trace |-> n.trace]
  <2>1. [r EXCEPT !.contract = c] = q
    OBVIOUS
  <2>2. [q EXCEPT !.effect = e] =
           [contract |-> c, effect |-> e, source |-> n.source, depth |-> n.depth, trace |-> n.trace]
    OBVIOUS
  <2>3. [r EXCEPT !.contract = c, !.effect = e] = [[r EXCEPT !.contract = c] EXCEPT !.effect = e]
    BY Zenon
  <2> HIDE DEF q, r
  <2> QED BY <2>1, <2>2, <2>3
<1> HIDE DEF r
<1>4. [n EXCEPT !.depth = d] = [r EXCEPT !.depth = d]
  BY <1>1
<1>5. [n EXCEPT !.contract = c, !.effect = e] = [r EXCEPT !.contract = c, !.effect = e]
  BY <1>1, Zenon
<1> QED BY <1>1, <1>2, <1>3, <1>4, <1>5 DEF r

(* However a call ends, it gives back the registers it found.                *)
LEMMA Restores ==
    ASSUME IInv, Running, NEW B, ShapeIn(B), Top.kind \in {"call", "direct", "builtin", "transaction"}
    PROVE  Restored = Top.was
<1> DEFINE w == Top.was
<1>0. /\ Len(stack) \in Nat \ {0} /\ Top = stack[Len(stack)] /\ w \in NowType /\ now \in NowType
      /\ Within(now, Top) /\ TraceLimit \in Nat /\ stack # <<>>
  BY TopIs, CallsAssumption DEF IInv, CallType, Running
<1>1. /\ Pops <=> Top.kind \in FrameKinds
      /\ Top.kind \in {"call", "direct"} <=> Top.kind \in FunctionKinds
      /\ Top.kind \notin FunctionKinds <=> Top.kind \in BuiltinKinds
  BY DEF Pops, FrameKinds, FunctionKinds, BuiltinKinds
<1>2. /\ now.depth = w.depth + (IF Top.kind \in FunctionKinds THEN 1 ELSE 0)
      /\ now.trace = w.trace + (IF Top.kind \in FrameKinds /\ w.trace < TraceLimit THEN 1 ELSE 0)
      /\ Top.kind \in FunctionKinds => now.contract = w.contract /\ now.effect = w.effect
      /\ now.source = w.source
  BY <1>0, <1>1 DEF Within, FunctionKinds, BuiltinKinds
<1>3. w.depth \in Int /\ w.trace \in Int /\ now.depth \in Int /\ now.trace \in Int
  BY <1>0, CallsAssumption DEF NowType
<1>4. OfCallee = [contract |-> w.contract, effect |-> w.effect, source |-> w.source,
                  depth |-> w.depth, trace |-> now.trace]
  <2>1. CASE Top.kind \in FunctionKinds
    <3>1. OfCallee = [now EXCEPT !.depth = @ - 1] /\ now.depth - 1 = w.depth
      BY <1>1, <1>2, <1>3, <2>1 DEF OfCallee
    <3>2. OfCallee = [now EXCEPT !.depth = w.depth]
      BY <3>1
    <3>3. now.contract = w.contract /\ now.effect = w.effect /\ now.source = w.source
      BY <1>2, <2>1
    <3> HIDE DEF w
    <3> QED BY <1>0, <3>2, <3>3, ChangedNow
  <2>2. CASE Top.kind \notin FunctionKinds
    <3>1. OfCallee = [now EXCEPT !.contract = w.contract, !.effect = w.effect]
      BY <1>1, <2>2 DEF OfCallee
    <3>2. now.depth = w.depth /\ now.source = w.source
      BY <1>2, <1>3, <2>2
    <3> HIDE DEF w
    <3> QED BY <1>0, <3>1, <3>2, ChangedNow
  <2> QED BY <2>1, <2>2
<1>5. w = [contract |-> w.contract, effect |-> w.effect, source |-> w.source,
           depth |-> w.depth, trace |-> w.trace]
  <2> HIDE DEF w
  <2> QED BY <1>0, ChangedNow
<1>6. CASE ~Pops
  <2>1. now.trace = w.trace
    BY <1>1, <1>2, <1>3, <1>6
  <2>2. OfCallee = w
    BY <1>4, <1>5, <2>1
  <2> QED BY <1>6, <2>2 DEF Restored
<1>7. CASE Pops /\ registered
  <2>1. FramesMatch(stack, frames) /\ frames \in Seq(FrameOf(B))
    BY <1>0, <1>7 DEF IInv, Agreement, FrameBooks, ShapeIn
  <2>2. Top.kind \in FrameKinds
    BY <1>1, <1>7
  <2>3. frames[Len(frames)].was = Top.was /\ Len(frames) \in Nat \ {0}
    BY <1>0, <2>1, <2>2, FrameOnTop
  <2>4. frames # <<>>
    BY <2>3, EmptySeq
  <2>5. Last(frames) = frames[Len(frames)]
    BY <2>1, <2>4, FrontOfFrames
  <2> QED BY <1>7, <2>3, <2>5 DEF Restored
<1>8. CASE Pops /\ ~registered
  <2>1. Untraced = w.trace
    BY <1>1, <1>2, <1>3, <1>0, <1>8 DEF Untraced
  <2>2. Restored = [OfCallee EXCEPT !.trace = Untraced]
    BY <1>8 DEF Restored
  <2> QED BY <1>4, <1>5, <2>1, <2>2
<1> QED BY <1>6, <1>7, <1>8

-----------------------------------------------------------------------------
(* The actions that call nothing and end nothing.                            *)

LEMMA StackNow ==
    ASSUME IInv, Running
    PROVE  /\ Len(stack) \in Nat \ {0} /\ stack # <<>> /\ Len(streams) \in Nat
           /\ modules \in [Modules -> {"absent", "loading", "loaded"}] /\ failed \in BOOLEAN
           /\ now \in NowType /\ handles \in Seq({"open", "committed", "rolledback"})
           /\ Len(handles) \in Nat /\ Top = stack[Len(stack)]
<1>1. PICK A : ShapeIn(A)
  BY DEF IInv, Shape
<1>2. Len(stack) \in Nat \ {0} /\ Top = stack[Len(stack)]
  BY <1>1, TopIs
<1>3. stack # <<>> /\ Len(streams) \in Nat
  BY <1>1, LenProperties DEF Running, ShapeIn
<1>4. /\ modules \in [Modules -> {"absent", "loading", "loaded"}] /\ failed \in BOOLEAN
      /\ now \in NowType /\ handles \in Seq({"open", "committed", "rolledback"})
  BY DEF IInv, CallType
<1>5. Len(handles) \in Nat
  BY <1>4, LenProperties
<1> QED BY <1>2, <1>3, <1>4, <1>5

LEMMA SameStack ==
    ASSUME IInv, Running, UNCHANGED <<stack, streams, now, frames, handles>>, KeepBoundary,
           failed' \in BOOLEAN, modules' \in [Modules -> {"absent", "loading", "loaded"}],
           \A m \in Modules : modules[m] = "loading" => modules'[m] = "loading"
    PROVE  IInv'
<1>1. PICK A : ShapeIn(A)
  BY DEF IInv, Shape
<1>2. ShapeIn(A)'
  BY <1>1 DEF ShapeIn
<1>3. Alike(stack, stack', Len(stack))
  BY DEF Alike
<1>4. Len(streams) <= Len(streams') /\ Len(streams') \in Nat
  BY StackNow
<1> QED BY <1>1, <1>2, <1>3, <1>4, StackNow, QuietStep

LEMMA OtherScope ==
    ASSUME IInv, Running, NEW x, stack' = Place([Top EXCEPT !.scope = x]),
           UNCHANGED <<streams, now, frames, handles, modules>>, KeepBoundary, failed' \in BOOLEAN
    PROVE  IInv'
<1>1. PICK A : ShapeIn(A)
  BY DEF IInv, Shape
<1> DEFINE B == A \cup {x}
<1>2. x \in B /\ A \subseteq B
  OBVIOUS
<1> HIDE DEF B
<1>3. ShapeIn(B)
  BY <1>1, <1>2, Wider
<1>4. /\ stack' \in Seq(Act(B)) /\ Len(stack') = Len(stack)
      /\ Alike(stack, stack', Len(stack))
  BY <1>2, <1>3, PlaceStep DEF Running
<1>5. ShapeIn(B)'
  BY <1>3, <1>4 DEF ShapeIn
<1>6. /\ Len(streams) <= Len(streams') /\ Len(streams') \in Nat
      /\ modules' \in [Modules -> {"absent", "loading", "loaded"}]
  BY StackNow
<1> QED BY <1>3, <1>4, <1>5, <1>6, StackNow, QuietStep

LEMMA StreamStep ==
    ASSUME IInv, NEW rows \in BOOLEAN, MakeStream(rows)
    PROVE  IInv'
<1>0. /\ Running /\ UNCHANGED <<stack, now, frames, handles, modules>> /\ KeepBoundary
      /\ failed' \in BOOLEAN /\ streams' = Append(streams, [env |-> Top.scope, rows |-> rows])
  BY DEF MakeStream, InCode, KeepCalls, IInv, CallType
<1>1. PICK A : ShapeIn(A)
  BY DEF IInv, Shape
<1>2. PICK e : e = Top.scope
  OBVIOUS
<1> DEFINE B == A \cup {e}
           x == [env |-> e, rows |-> rows]
<1>3. x \in StreamOf(B)
  BY DEF StreamOf
<1> HIDE DEF B
<1>4. ShapeIn(B)
  <2>1. A \subseteq B
    BY DEF B
  <2> QED BY <1>1, <2>1, Wider
<1>5. streams \in Seq(StreamOf(B))
  BY <1>4 DEF ShapeIn
<1> HIDE DEF x
<1>6. streams' \in Seq(StreamOf(B)) /\ Len(streams) \in Nat /\ Len(streams') = Len(streams) + 1
  <2>1. streams' = Append(streams, x)
    BY <1>0, <1>2 DEF x
  <2> QED BY <1>3, <1>5, <2>1, AppendToSeq
<1>7. ShapeIn(B)'
  BY <1>0, <1>4, <1>6 DEF ShapeIn
<1>8. Alike(stack, stack', Len(stack)) /\ Len(stack') = Len(stack)
  BY <1>0 DEF Alike
<1>9. Len(streams) <= Len(streams') /\ Len(streams') \in Nat
  BY <1>6
<1>10. /\ modules' \in [Modules -> {"absent", "loading", "loaded"}]
       /\ \A m \in Modules : modules[m] = "loading" => modules'[m] = "loading"
  BY <1>0, StackNow
<1>11. Len(stack) \in Nat \ {0}
  BY <1>0, StackNow
<1> QED BY <1>0, <1>4, <1>6, <1>7, <1>8, <1>9, <1>10, <1>11, QuietStep

(* Between two calls code works on its environments, and meets errors.       *)
LEMMA QuietActions ==
    ASSUME IInv,
           \/ TooDeep \/ EnterBlock \/ LeaveBlock \/ Declare \/ MakeClosure \/ Fail \/ Catch
           \/ \E e \in Places : DropClosure(e)
    PROVE  IInv'
<1>0. failed \in BOOLEAN
  BY DEF IInv, CallType
<1>1. ASSUME Running, UNCHANGED <<stack, streams, now, frames, handles, modules>>, KeepBoundary,
             failed' \in BOOLEAN
      PROVE  IInv'
  <2>1. modules' \in [Modules -> {"absent", "loading", "loaded"}]
    BY <1>1, StackNow
  <2> QED BY <1>1, <2>1, SameStack
<1>2. CASE TooDeep
  BY <1>1, <1>2 DEF TooDeep, InCode, InBuiltin, MakesOneCall, KeepData
<1>3. CASE EnterBlock
  <2>1. /\ Running /\ stack' = Place([Top EXCEPT !.scope = Free]) /\ failed' \in BOOLEAN
        /\ UNCHANGED <<streams, now, frames, handles, modules>> /\ KeepBoundary
    BY <1>0, <1>3 DEF EnterBlock, InCode, KeepCalls, KeepData
  <2> QED BY <2>1, OtherScope
<1>4. CASE LeaveBlock
  <2>1. /\ Running /\ stack' = Place([Top EXCEPT !.scope = heap[Top.scope].parent])
        /\ UNCHANGED <<streams, now, frames, handles, modules>> /\ KeepBoundary
        /\ failed' \in BOOLEAN
    BY <1>0, <1>4 DEF LeaveBlock, InCode, KeepCalls, KeepRun, KeepData
  <2> QED BY <2>1, OtherScope
<1>5. CASE Declare
  BY <1>0, <1>1, <1>5 DEF Declare, InCode, KeepCalls, KeepData
<1>6. CASE MakeClosure
  BY <1>0, <1>1, <1>6 DEF MakeClosure, InCode, KeepCalls
<1>7. CASE Fail
  BY <1>1, <1>7 DEF Fail, KeepRun, KeepCalls, KeepData
<1>8. CASE Catch
  BY <1>1, <1>8 DEF Catch, InCode, KeepCalls, KeepData
<1>9. CASE \E e \in Places : DropClosure(e)
  BY <1>0, <1>1, <1>9 DEF DropClosure, KeepCalls
<1> QED BY <1>2, <1>3, <1>4, <1>5, <1>6, <1>7, <1>8, <1>9

-----------------------------------------------------------------------------
(* The actions that begin a call.                                            *)

(* call_value of a function or a closure.                                    *)
LEMMA CallStep ==
    ASSUME IInv, NEW e, NEW parent, NEW capacity, Call(parent, capacity, e)
    PROVE  IInv'
<1> DEFINE a == Activation("call", e, e, NoContract)
<1>0. /\ Running /\ ~Deep /\ now' = [now EXCEPT !.depth = @ + 1, !.trace = Traced]
      /\ frames' = Attached(Pushed, e) /\ stack' = Append(stack, a)
      /\ KeepBoundary /\ UNCHANGED <<failed, streams, handles, modules>>
  BY DEF Call, InCode, InBuiltin, MakesOneCall, MayCall, KeepData
<1>1. PICK A : ShapeIn(A)
  BY DEF IInv, Shape
<1> DEFINE B == A \cup {e, Nil}
<1>2. e \in B /\ Nil \in B /\ A \subseteq B
  OBVIOUS
<1> HIDE DEF B
<1>3. ShapeIn(B) /\ frames \in Seq(FrameOf(B))
  BY <1>1, <1>2, Wider DEF ShapeIn
<1>4. /\ a \in Act(B) /\ a.kind = "call" /\ a.was = now /\ a.handle = 0 /\ a.name = NoContract
  <2>1. now \in NowType
    BY <1>0, StackNow
  <2> QED BY <1>2, <2>1 DEF Activation, Act
<1> HIDE DEF a
<1>5. now' \in NowType /\ Within(now', a)
  <2>1. /\ now \in NowType /\ Traced \in 0..TraceLimit
        /\ Traced = now.trace + (IF now.trace < TraceLimit THEN 1 ELSE 0)
        /\ now.depth + 1 \in 0..MaxRecursion
    BY <1>0, StackNow, DeeperIs, CallsAssumption DEF NowType, Deep
  <2>2. /\ now' \in NowType /\ now'.depth = now.depth + 1 /\ now'.trace = Traced
        /\ now'.contract = now.contract /\ now'.effect = now.effect /\ now'.source = now.source
    BY <1>0, <2>1 DEF NowType
  <2> QED BY <1>4, <2>1, <2>2 DEF Within, FunctionKinds, FrameKinds, BuiltinKinds
<1>6. /\ frames' \in Seq(FrameOf(B))
      /\ \A k \in 1..Len(frames) : frames'[k].was = frames[k].was
      /\ registered => Len(frames') = Len(frames) + 1 /\ frames'[Len(frames')].was = now
      /\ ~registered => Len(frames') = Len(frames)
  <2>1. /\ Pushed \in Seq(FrameOf(B)) /\ Len(frames) \in Nat
        /\ registered => Len(Pushed) = Len(frames) + 1 /\ Pushed[Len(Pushed)].was = now
        /\ ~registered => Len(Pushed) = Len(frames)
        /\ \A k \in 1..Len(frames) : Pushed[k].was = frames[k].was
    BY <1>0, <1>2, <1>3, StackNow, PushedIs
  <2>2. PICK fs : fs = Pushed
    OBVIOUS
  <2>3. /\ Attached(fs, e) \in Seq(FrameOf(B)) /\ Len(fs) \in Nat
        /\ Len(Attached(fs, e)) = Len(fs)
        /\ \A k \in 1..Len(fs) : Attached(fs, e)[k].was = fs[k].was
    BY <1>2, <2>1, <2>2, AttachedIs
  <2>4. PICK gs : gs = Attached(fs, e)
    OBVIOUS
  <2>5. frames' = gs
    BY <1>0, <2>2, <2>4
  <2> QED BY <2>1, <2>2, <2>3, <2>4, <2>5
<1>7. /\ a.kind \notin {"program", "host", "module", "transaction"} /\ a.kind \in FrameKinds
      /\ failed' \in BOOLEAN /\ modules' \in [Modules -> {"absent", "loading", "loaded"}]
      /\ handles' \in Seq({"open", "committed", "rolledback"}) /\ Len(handles) <= Len(handles')
      /\ \A h \in 1..Len(handles) : handles'[h] = handles[h]
      /\ \A m \in Modules : modules[m] = "loading" => modules'[m] = "loading"
  BY <1>0, <1>4, StackNow DEF FrameKinds
<1>8. \/ /\ registered /\ a.kind \in FrameKinds
         /\ Len(frames') = Len(frames) + 1 /\ frames'[Len(frames')].was = now
      \/ (~registered \/ a.kind \notin FrameKinds) /\ Len(frames') = Len(frames)
  BY <1>6, <1>7
<1> QED BY <1>0, <1>3, <1>4, <1>5, <1>6, <1>7, <1>8, PushStep

(* call_stream_value: no frame of its own.                                   *)
LEMMA DirectStep ==
    ASSUME IInv, NEW e, NEW parent, NEW capacity, CallDirect(parent, capacity, e)
    PROVE  IInv'
<1> DEFINE a == Activation("direct", e, e, NoContract)
<1>0. /\ Running /\ ~Deep /\ now' = [now EXCEPT !.depth = @ + 1]
      /\ frames' = Attached(frames, e) /\ stack' = Append(stack, a)
      /\ KeepBoundary /\ UNCHANGED <<failed, streams, handles, modules>>
  BY DEF CallDirect, InCode, InBuiltin, MayCall, KeepData
<1>1. PICK A : ShapeIn(A)
  BY DEF IInv, Shape
<1> DEFINE B == A \cup {e, Nil}
<1>2. e \in B /\ Nil \in B /\ A \subseteq B
  OBVIOUS
<1> HIDE DEF B
<1>3. ShapeIn(B) /\ frames \in Seq(FrameOf(B))
  BY <1>1, <1>2, Wider DEF ShapeIn
<1>4. /\ a \in Act(B) /\ a.kind = "direct" /\ a.was = now /\ a.handle = 0 /\ a.name = NoContract
  <2>1. now \in NowType
    BY <1>0, StackNow
  <2> QED BY <1>2, <2>1 DEF Activation, Act
<1> HIDE DEF a
<1>5. now' \in NowType /\ Within(now', a)
  <2>1. now \in NowType /\ now.depth + 1 \in 0..MaxRecursion
    BY <1>0, StackNow, CallsAssumption DEF NowType, Deep
  <2>2. /\ now' \in NowType /\ now'.depth = now.depth + 1 /\ now'.trace = now.trace
        /\ now'.contract = now.contract /\ now'.effect = now.effect /\ now'.source = now.source
    BY <1>0, <2>1 DEF NowType
  <2>3. now.trace \in Int
    BY <2>1, CallsAssumption DEF NowType
  <2> QED BY <1>4, <2>2, <2>3 DEF Within, FunctionKinds, FrameKinds, BuiltinKinds
<1>6. /\ frames' \in Seq(FrameOf(B)) /\ Len(frames') = Len(frames)
      /\ \A k \in 1..Len(frames) : frames'[k].was = frames[k].was
  <2>1. PICK fs : fs = frames
    OBVIOUS
  <2>2. /\ Attached(fs, e) \in Seq(FrameOf(B))
        /\ Len(Attached(fs, e)) = Len(fs)
        /\ \A k \in 1..Len(fs) : Attached(fs, e)[k].was = fs[k].was
    BY <1>2, <1>3, <2>1, AttachedIs
  <2>3. PICK gs : gs = Attached(fs, e)
    OBVIOUS
  <2>4. frames' = gs
    BY <1>0, <2>1, <2>3
  <2> QED BY <2>1, <2>2, <2>3, <2>4
<1>7. /\ a.kind \notin {"program", "host", "module", "transaction"} /\ a.kind \notin FrameKinds
      /\ failed' \in BOOLEAN /\ modules' \in [Modules -> {"absent", "loading", "loaded"}]
      /\ handles' \in Seq({"open", "committed", "rolledback"}) /\ Len(handles) <= Len(handles')
      /\ \A h \in 1..Len(handles) : handles'[h] = handles[h]
      /\ \A m \in Modules : modules[m] = "loading" => modules'[m] = "loading"
  BY <1>0, <1>4, StackNow DEF FrameKinds
<1>8. \/ /\ registered /\ a.kind \in FrameKinds
         /\ Len(frames') = Len(frames) + 1 /\ frames'[Len(frames')].was = now
      \/ (~registered \/ a.kind \notin FrameKinds) /\ Len(frames') = Len(frames)
  BY <1>6, <1>7
<1> QED BY <1>0, <1>3, <1>4, <1>5, <1>6, <1>7, <1>8, PushStep

(* A builtin, database.with_transaction among them.                          *)
LEMMA EntersBuiltin ==
    ASSUME IInv, Running, NEW kind \in BuiltinKinds, NEW name \in Contracts \cup {Transaction},
           NEW h \in Nat, NEW r \in {"none", "begun"}, NEW x,
           stack' = Append(stack, [kind |-> kind, frame |-> Nil, scope |-> x, name |-> name,
                                   was |-> now, handle |-> h, result |-> r]),
           now' = Contracted(name), frames' = Pushed, KeepBoundary, UNCHANGED <<streams, modules>>,
           failed' \in BOOLEAN, handles' \in Seq({"open", "committed", "rolledback"}),
           Len(handles) <= Len(handles'), \A g \in 1..Len(handles) : handles'[g] = handles[g],
           kind = "transaction" /\ h # 0 =>
              h = Len(handles) + 1 /\ h = Len(handles') /\ handles'[h] = "open"
    PROVE  IInv'
<1> DEFINE a == [kind |-> kind, frame |-> Nil, scope |-> x, name |-> name,
                 was |-> now, handle |-> h, result |-> r]
<1>1. PICK A : ShapeIn(A)
  BY DEF IInv, Shape
<1> DEFINE B == A \cup {x, Nil}
<1>2. x \in B /\ Nil \in B /\ A \subseteq B
  OBVIOUS
<1> HIDE DEF B
<1>3. ShapeIn(B) /\ frames \in Seq(FrameOf(B))
  BY <1>1, <1>2, Wider DEF ShapeIn
<1>4. a \in Act(B) /\ a.kind = kind /\ a.was = now /\ a.handle = h /\ a.name = name
  <2>1. now \in NowType
    BY StackNow
  <2> QED BY <1>2, <2>1 DEF Act, BuiltinKinds
<1>5. stack' = Append(stack, a)
  OBVIOUS
<1> HIDE DEF a
<1>6. now' \in NowType /\ Within(now', a)
  <2>1. /\ now \in NowType /\ Traced \in 0..TraceLimit
        /\ Traced = now.trace + (IF now.trace < TraceLimit THEN 1 ELSE 0)
    BY StackNow, DeeperIs
  <2>2. /\ now' = [now EXCEPT !.contract = name, !.effect = Allowed(name), !.trace = Traced]
        /\ Allowed(name) \in BOOLEAN /\ name \in Contracts \cup {NoContract, Transaction}
    BY DEF Contracted, Allowed
  <2> DEFINE t == Traced
             e == Allowed(name)
  <2> HIDE DEF t, e
  <2>3. now' = [now EXCEPT !.contract = name, !.effect = e, !.trace = t]
        /\ t \in 0..TraceLimit /\ e \in BOOLEAN
    BY <2>1, <2>2 DEF t, e
  <2>4. /\ now' \in NowType /\ now'.depth = now.depth /\ now'.trace = t
        /\ now'.contract = name /\ now'.effect = e /\ now'.source = now.source
    BY <2>1, <2>2, <2>3 DEF NowType
  <2>5. now.depth \in Int /\ now.trace \in Int
    BY <2>1, CallsAssumption DEF NowType
  <2> QED BY <1>4, <2>1, <2>4, <2>5 DEF Within, FunctionKinds, FrameKinds, BuiltinKinds, t, e
<1>7. /\ frames' \in Seq(FrameOf(B))
      /\ \A k \in 1..Len(frames) : frames'[k].was = frames[k].was
      /\ registered => Len(frames') = Len(frames) + 1 /\ frames'[Len(frames')].was = now
      /\ ~registered => Len(frames') = Len(frames)
  <2>1. now \in NowType
    BY StackNow
  <2>2. PICK gs : gs = Pushed
    OBVIOUS
  <2>3. /\ gs \in Seq(FrameOf(B))
        /\ registered => Len(gs) = Len(frames) + 1 /\ gs[Len(gs)].was = now
        /\ ~registered => Len(gs) = Len(frames)
        /\ \A k \in 1..Len(frames) : gs[k].was = frames[k].was
    BY <1>2, <1>3, <2>1, <2>2, PushedIs
  <2> QED BY <2>2, <2>3
<1>8. a.kind \notin {"program", "host", "module"} /\ a.kind \in FrameKinds
  BY <1>4 DEF FrameKinds, BuiltinKinds
<1>9. /\ modules' \in [Modules -> {"absent", "loading", "loaded"}]
      /\ \A m \in Modules : modules[m] = "loading" => modules'[m] = "loading"
  BY StackNow
<1>10. \/ /\ registered /\ a.kind \in FrameKinds
          /\ Len(frames') = Len(frames) + 1 /\ frames'[Len(frames')].was = now
       \/ (~registered \/ a.kind \notin FrameKinds) /\ Len(frames') = Len(frames)
  BY <1>7, <1>8
<1>11. /\ a.kind = "module" =>
             a.name \in Modules /\ modules[a.name] # "loading" /\ modules'[a.name] = "loading"
       /\ a.kind = "transaction" /\ a.handle # 0 =>
             a.handle = Len(handles) + 1 /\ a.handle = Len(handles') /\ handles'[a.handle] = "open"
  BY <1>4, <1>8
<1> QED BY <1>3, <1>4, <1>5, <1>6, <1>7, <1>8, <1>9, <1>10, <1>11, PushStep

LEMMA BuiltinStep ==
    ASSUME IInv, NEW contract \in Contracts, NEW temporary \in {0, 1}, Builtin(contract, temporary)
    PROVE  IInv'
<1> DEFINE b == Activation("builtin", Nil, Top.scope, contract)
<1>1. PICK x : x = Top.scope
  OBVIOUS
<1>2. [b EXCEPT !.handle = temporary] =
         [kind |-> "builtin", frame |-> Nil, scope |-> x, name |-> contract, was |-> now,
          handle |-> temporary, result |-> "none"]
  BY <1>1 DEF Activation
<1>3. /\ Running /\ stack' = Append(stack, [b EXCEPT !.handle = temporary])
      /\ now' = Contracted(contract) /\ frames' = Pushed /\ KeepBoundary
      /\ UNCHANGED <<failed, streams, handles, modules>>
  BY DEF Builtin, InCode
<1> HIDE DEF b
<1>4. stack' = Append(stack, [kind |-> "builtin", frame |-> Nil, scope |-> x, name |-> contract,
                              was |-> now, handle |-> temporary, result |-> "none"])
  BY <1>2, <1>3
<1>5. /\ failed' \in BOOLEAN /\ handles' \in Seq({"open", "committed", "rolledback"})
      /\ Len(handles) <= Len(handles') /\ \A g \in 1..Len(handles) : handles'[g] = handles[g]
  BY <1>3, StackNow
<1>6. /\ "builtin" \in BuiltinKinds /\ "builtin" # "transaction" /\ temporary \in Nat
      /\ contract \in Contracts \cup {Transaction}
  BY DEF BuiltinKinds
<1> QED BY <1>3, <1>4, <1>5, <1>6, EntersBuiltin

LEMMA BeginStep ==
    ASSUME IInv, NEW gives \in {"handle", "error", "nothing"}, Begin(gives)
    PROVE  IInv'
<1> DEFINE b == Activation("transaction", Nil, Top.scope, Transaction)
           opens == gives = "handle"
<1>1. PICK x : x = Top.scope
  OBVIOUS
<1>2. PICK h : h = IF opens THEN Len(handles') ELSE 0
  OBVIOUS
<1>3. PICK r : r = IF opens THEN "begun" ELSE "none"
  OBVIOUS
<1>4. [b EXCEPT !.handle = h, !.result = r] =
         [kind |-> "transaction", frame |-> Nil, scope |-> x, name |-> Transaction, was |-> now,
          handle |-> h, result |-> r]
  <2>1. b = [kind |-> "transaction", frame |-> Nil, scope |-> x, name |-> Transaction, was |-> now,
             handle |-> 0, result |-> "none"]
    BY <1>1 DEF Activation
  <2> DEFINE c == [kind |-> "transaction", frame |-> Nil, scope |-> x, name |-> Transaction,
                   was |-> now, handle |-> h, result |-> "none"]
  <2>2. [b EXCEPT !.handle = h] = c
    BY <2>1
  <2>3. [c EXCEPT !.result = r] =
           [kind |-> "transaction", frame |-> Nil, scope |-> x, name |-> Transaction, was |-> now,
            handle |-> h, result |-> r]
    OBVIOUS
  <2> HIDE DEF b, c
  <2>4. [b EXCEPT !.handle = h, !.result = r] = [[b EXCEPT !.handle = h] EXCEPT !.result = r]
    BY Zenon
  <2> QED BY <2>2, <2>3, <2>4
<1>5. /\ Running
      /\ stack' = Append(stack, [b EXCEPT !.handle = IF opens THEN Len(handles') ELSE 0,
                                          !.result = IF opens THEN "begun" ELSE "none"])
      /\ now' = Contracted(Transaction) /\ frames' = Pushed /\ KeepBoundary
      /\ failed' \in BOOLEAN /\ handles' = IF opens THEN Append(handles, "open") ELSE handles
      /\ UNCHANGED <<streams, modules>>
  BY DEF Begin, InCode
<1> HIDE DEF b
<1>6. stack' = Append(stack, [kind |-> "transaction", frame |-> Nil, scope |-> x,
                              name |-> Transaction, was |-> now, handle |-> h, result |-> r])
  <2>1. stack' = Append(stack, [b EXCEPT !.handle = h, !.result = r])
    BY <1>2, <1>3, <1>5, Zenon
  <2> QED BY <1>4, <2>1, Zenon
<1>7. /\ handles' \in Seq({"open", "committed", "rolledback"})
      /\ Len(handles) <= Len(handles') /\ \A g \in 1..Len(handles) : handles'[g] = handles[g]
      /\ h \in Nat /\ (h # 0 => h = Len(handles) + 1 /\ h = Len(handles') /\ handles'[h] = "open")
  <2>1. handles \in Seq({"open", "committed", "rolledback"}) /\ Len(handles) \in Nat
    BY <1>5, StackNow
  <2>2. CASE ~opens
    BY <1>2, <1>5, <2>1, <2>2
  <2>3. CASE opens
    <3>1. handles' = Append(handles, "open") /\ h = Len(handles')
      BY <1>2, <1>5, <2>3
    <3>2. /\ Append(handles, "open") \in Seq({"open", "committed", "rolledback"})
          /\ Len(Append(handles, "open")) = Len(handles) + 1
          /\ \A k \in 1..Len(handles) : Append(handles, "open")[k] = handles[k]
          /\ Append(handles, "open")[Len(handles) + 1] = "open"
      BY <2>1, AppendToSeq
    <3> QED BY <2>1, <3>1, <3>2
  <2> QED BY <2>2, <2>3
<1>8. /\ "transaction" \in BuiltinKinds /\ r \in {"none", "begun"}
      /\ Transaction \in Contracts \cup {Transaction}
  BY <1>3 DEF BuiltinKinds
<1> QED BY <1>5, <1>6, <1>7, <1>8, EntersBuiltin

(* The import of a module runs its top level at most once.                   *)
LEMMA ImportStep ==
    ASSUME IInv, NEW m \in Modules, NEW runs \in BOOLEAN, Import(m, runs)
    PROVE  IInv'
<1>0. /\ Running /\ KeepBoundary /\ UNCHANGED <<frames, streams, handles>> /\ failed' = ~runs
  BY DEF Import, InCode
<1>1. /\ modules' \in [Modules -> {"absent", "loading", "loaded"}]
      /\ \A k \in Modules : modules[k] = "loading" => modules'[k] = "loading"
  <2>1. modules' = modules \/ (modules[m] = "absent" /\ modules' = [modules EXCEPT ![m] = "loading"])
    BY DEF Import
  <2>2. modules \in [Modules -> {"absent", "loading", "loaded"}]
    BY <1>0, StackNow
  <2> QED BY <2>1, <2>2
<1>2. CASE ~(runs /\ modules[m] = "absent")
  <2>1. UNCHANGED <<now, stack>>
    BY <1>2 DEF Import
  <2> QED BY <1>0, <1>1, <2>1, SameStack
<1>3. CASE runs /\ modules[m] = "absent"
  <2>1. PICK e : e = Free
    OBVIOUS
  <2> DEFINE a == Activation("module", e, e, m)
  <2>2. /\ modules' = [modules EXCEPT ![m] = "loading"] /\ now' = [now EXCEPT !.source = m]
        /\ stack' = Append(stack, a)
    BY <1>3, <2>1 DEF Import
  <2>3. PICK A : ShapeIn(A)
    BY DEF IInv, Shape
  <2> DEFINE B == A \cup {e}
  <2>4. e \in B /\ A \subseteq B
    OBVIOUS
  <2> HIDE DEF B
  <2>5. ShapeIn(B) /\ frames \in Seq(FrameOf(B))
    BY <2>3, <2>4, Wider DEF ShapeIn
  <2>6. now \in NowType
    BY <1>0, StackNow
  <2>7. a \in Act(B) /\ a.kind = "module" /\ a.was = now /\ a.handle = 0 /\ a.name = m
    BY <2>4, <2>6 DEF Activation, Act
  <2> HIDE DEF a
  <2>8. now' \in NowType /\ Within(now', a)
    <3>1. /\ now' \in NowType /\ now'.depth = now.depth /\ now'.trace = now.trace
          /\ now'.contract = now.contract /\ now'.effect = now.effect /\ now'.source = m
      BY <2>2, <2>6 DEF NowType
    <3>2. now.depth \in Int /\ now.trace \in Int
      BY <2>6, CallsAssumption DEF NowType
    <3> QED BY <2>7, <3>1, <3>2 DEF Within, FunctionKinds, FrameKinds, BuiltinKinds
  <2>9. /\ a.kind \notin {"program", "host", "transaction"} /\ a.kind \notin FrameKinds
        /\ failed' \in BOOLEAN /\ frames' = frames
        /\ handles' \in Seq({"open", "committed", "rolledback"}) /\ Len(handles) <= Len(handles')
        /\ \A h \in 1..Len(handles) : handles'[h] = handles[h]
    BY <1>0, <2>7, StackNow DEF FrameKinds
  <2>10. a.kind = "module" =>
            a.name \in Modules /\ modules[a.name] # "loading" /\ modules'[a.name] = "loading"
    <3>1. modules \in [Modules -> {"absent", "loading", "loaded"}]
      BY <1>0, StackNow
    <3> QED BY <1>3, <2>2, <2>7, <3>1
  <2>11. /\ frames' \in Seq(FrameOf(B)) /\ Len(frames') = Len(frames)
         /\ \A k \in 1..Len(frames) : frames'[k].was = frames[k].was
    BY <2>5, <2>9
  <2>12. \/ /\ registered /\ a.kind \in FrameKinds
            /\ Len(frames') = Len(frames) + 1 /\ frames'[Len(frames')].was = now
         \/ (~registered \/ a.kind \notin FrameKinds) /\ Len(frames') = Len(frames)
    BY <2>9, <2>11
  <2> QED BY <1>0, <1>1, <2>2, <2>5, <2>7, <2>8, <2>9, <2>10, <2>11, <2>12, PushStep
<1> QED BY <1>2, <1>3

-----------------------------------------------------------------------------
(* The actions that end a call.                                              *)

LEMMA FrontOfStack ==
    ASSUME NEW S, stack \in Seq(S), stack # <<>>, NEW s, s = Front(stack)
    PROVE  /\ s \in Seq(S) /\ Len(s) = Len(stack) - 1
           /\ \A k \in 1..Len(s) : s[k] = stack[k]
BY LastOfSeq

LEMMA BelowIs ==
    ASSUME IInv, Running, Top.kind \notin {"program", "host"}, NEW B, ShapeIn(B),
           NEW s, s = Front(stack)
    PROVE  /\ s \in Seq(Act(B)) /\ Len(s) = Len(stack) - 1 /\ Len(s) \in Nat \ {0}
           /\ Alike(stack, s, Len(s))
<1>1. /\ stack \in Seq(Act(B)) /\ stack # <<>> /\ Len(stack) \in Nat /\ Len(stack) > 1
  BY TopIs DEF ShapeIn, Running
<1>2. /\ s \in Seq(Act(B)) /\ Len(s) = Len(stack) - 1
      /\ \A k \in 1..Len(s) : s[k] = stack[k]
  BY <1>1, FrontOfStack
<1> QED BY <1>1, <1>2 DEF Alike

LEMMA ReceiveIs ==
    ASSUME NEW B, NEW s \in Seq(Act(B)), Len(s) \in Nat \ {0},
           NEW r \in {"whole", "stream", "failed"}, NEW t, t = Receive(s, r)
    PROVE  t \in Seq(Act(B)) /\ Len(t) = Len(s) /\ Alike(s, t, Len(s))
<1> DEFINE b == s[Len(s)]
           a == [b EXCEPT !.result = r]
<1>1. s # <<>>
  BY EmptySeq
<1>2. b \in Act(B)
  BY <1>1, LastOfSeq
<1>3. a \in Act(B) /\ a.kind = b.kind /\ a.name = b.name /\ a.was = b.was /\ a.handle = b.handle
  <2> HIDE DEF b
  <2> QED BY <1>2, SameCall
<1>4. CASE t = s
  BY <1>4 DEF Alike
<1>5. CASE t = [s EXCEPT ![Len(s)] = a]
  <2> HIDE DEF a
  <2>1. /\ t \in Seq(Act(B)) /\ Len(t) = Len(s)
        /\ \A k \in 1..Len(s) : t[k] = IF k = Len(s) THEN a ELSE s[k]
    BY <1>1, <1>3, <1>5, LastChanged
  <2> QED BY <1>3, <2>1 DEF Alike
<1>6. t = s \/ t = [s EXCEPT ![Len(s)] = a]
  BY DEF Receive
<1> QED BY <1>4, <1>5, <1>6

(* What the steps that end a call have in common.                            *)
LEMMA EndsCall ==
    ASSUME IInv, Running, Top.kind \in {"call", "direct", "builtin", "transaction"},
           NEW s, s = Front(stack),
           stack' = s \/ \E r \in {"whole", "stream", "failed"} : stack' = Receive(s, r),
           now' = Restored, frames' = Popped, KeepBoundary, UNCHANGED <<streams, modules>>,
           failed' \in BOOLEAN,
           handles' \in Seq({"open", "committed", "rolledback"}), Len(handles') = Len(handles),
           \A h \in 1..Len(handles) :
              handles'[h] = handles[h] \/ (Top.kind = "transaction" /\ Top.handle = h)
    PROVE  IInv'
<1>1. PICK B : ShapeIn(B)
  BY DEF IInv, Shape
<1>2. Top.kind \notin {"program", "host"}
  OBVIOUS
<1>3. /\ s \in Seq(Act(B)) /\ Len(s) = Len(stack) - 1 /\ Len(s) \in Nat \ {0}
      /\ Alike(stack, s, Len(s))
  BY <1>1, <1>2, BelowIs
<1>4. stack' \in Seq(Act(B)) /\ Len(stack') = Len(s) /\ Alike(s, stack', Len(s))
  <2>1. CASE stack' = s
    BY <1>3, <2>1 DEF Alike
  <2>2. CASE \E r \in {"whole", "stream", "failed"} : stack' = Receive(s, r)
    <3>1. PICK r \in {"whole", "stream", "failed"} : stack' = Receive(s, r)
      BY <2>2
    <3>2. PICK t : t = Receive(s, r)
      OBVIOUS
    <3>3. t \in Seq(Act(B)) /\ Len(t) = Len(s) /\ Alike(s, t, Len(s))
      BY <1>3, <3>2, ReceiveIs
    <3>4. stack' = t
      BY <3>1, <3>2
    <3> QED BY <3>3, <3>4
  <2> QED BY <2>1, <2>2
<1>5. Len(stack') = Len(stack) - 1 /\ Alike(stack, stack', Len(stack'))
  BY <1>3, <1>4 DEF Alike
<1>6. now' = Top.was
  BY <1>1, Restores
<1>7. IF Top.kind \in FrameKinds /\ registered THEN frames' = Front(frames) ELSE frames' = frames
  BY DEF Popped, Pops, FrameKinds
<1>8. /\ modules' \in [Modules -> {"absent", "loading", "loaded"}]
      /\ \A m \in Modules :
            modules'[m] = modules[m] \/ (Top.kind = "module" /\ Top.name = m)
  BY StackNow
<1> QED BY <1>1, <1>2, <1>4, <1>5, <1>6, <1>7, <1>8, PopStep

LEMMA ReturnStep ==
    ASSUME IInv, NEW result, Return(result)
    PROVE  IInv'
<1>1. /\ Running /\ Top.kind \in {"call", "direct", "builtin", "transaction"}
      /\ now' = Restored /\ frames' = Popped /\ KeepBoundary
      /\ UNCHANGED <<failed, streams, modules, handles>> /\ stack' = Receive(Front(stack), result)
      /\ result \in {"whole", "stream", "failed"}
  BY DEF Return, Results
<1>2. PICK s : s = Front(stack)
  OBVIOUS
<1>3. \E r \in {"whole", "stream", "failed"} : stack' = Receive(s, r)
  BY <1>1, <1>2
<1>4. /\ failed' \in BOOLEAN /\ handles' \in Seq({"open", "committed", "rolledback"})
      /\ handles' = handles
  BY <1>1, StackNow
<1> QED BY <1>1, <1>2, <1>3, <1>4, EndsCall

(* Only an open transaction ends, and it is that of the call that ends.      *)
LEMMA EndTransactionStep ==
    ASSUME IInv, NEW commits, EndTransaction(commits)
    PROVE  /\ IInv'
           /\ \A h \in 1..Len(handles) :
                 /\ h # Top.handle => handles'[h] = handles[h]
                 /\ h = Top.handle => handles[h] = "open" /\ (handles'[h] = "committed" => Whole)
           /\ handles' # handles => failed' = (handles'[Top.handle] # "committed")
<1> DEFINE ended == IF ~Whole THEN "rolledback" ELSE IF commits THEN "committed" ELSE "open"
<1>1. /\ Running /\ Top.kind = "transaction" /\ now' = Restored /\ frames' = Popped /\ KeepBoundary
      /\ UNCHANGED <<streams, modules>> /\ stack' = Front(stack)
      /\ handles' = IF Top.handle = 0 THEN handles ELSE [handles EXCEPT ![Top.handle] = ended]
      /\ failed' = (failed \/ (Top.handle # 0 /\ ended # "committed"))
  BY DEF EndTransaction
<1>2. ended \in {"open", "committed", "rolledback"} /\ (ended = "committed" => Whole)
  OBVIOUS
<1> HIDE DEF ended
<1>3. /\ handles \in Seq({"open", "committed", "rolledback"}) /\ Len(handles) \in Nat
      /\ Len(stack) \in Nat \ {0} /\ Top = stack[Len(stack)]
  BY <1>1, StackNow
<1>4. Top.handle # 0 => Top.handle \in 1..Len(handles) /\ handles[Top.handle] = "open"
  <2>1. Len(stack) \in 1..Len(stack) /\ HandleBooks
    BY <1>3 DEF IInv, Agreement
  <2> QED BY <1>1, <1>3, <2>1 DEF HandleBooks
<1>5. /\ handles' \in Seq({"open", "committed", "rolledback"}) /\ Len(handles') = Len(handles)
      /\ \A h \in 1..Len(handles) : handles'[h] = IF h = Top.handle THEN ended ELSE handles[h]
  <2>1. CASE Top.handle = 0
    BY <1>1, <1>3, <2>1
  <2>2. CASE Top.handle # 0
    <3>1. PICK k : k = Top.handle
      OBVIOUS
    <3>2. k \in 1..Len(handles) /\ handles' = [handles EXCEPT ![k] = ended]
      BY <1>1, <1>4, <2>2, <3>1
    <3>3. /\ [handles EXCEPT ![k] = ended] \in Seq({"open", "committed", "rolledback"})
          /\ Len([handles EXCEPT ![k] = ended]) = Len(handles)
          /\ \A h \in 1..Len(handles) :
                [handles EXCEPT ![k] = ended][h] = IF h = k THEN ended ELSE handles[h]
      BY <1>2, <1>3, <3>2, ExceptSeq
    <3> QED BY <3>1, <3>2, <3>3
  <2> QED BY <2>1, <2>2
<1>6. failed' \in BOOLEAN
  BY <1>1, StackNow
<1>7. \A h \in 1..Len(handles) :
         handles'[h] = handles[h] \/ (Top.kind = "transaction" /\ Top.handle = h)
  BY <1>1, <1>5
<1>8. IInv'
  <2>1. PICK s : s = Front(stack)
    OBVIOUS
  <2>2. stack' = s /\ Top.kind \in {"call", "direct", "builtin", "transaction"}
    BY <1>1, <2>1
  <2> QED BY <1>1, <1>5, <1>6, <1>7, <2>1, <2>2, EndsCall
<1>9. \A h \in 1..Len(handles) :
         /\ h # Top.handle => handles'[h] = handles[h]
         /\ h = Top.handle => handles[h] = "open" /\ (handles'[h] = "committed" => Whole)
  <2>1. ASSUME NEW h \in 1..Len(handles), h = Top.handle PROVE Top.handle # 0
    BY <1>3, <2>1
  <2> QED BY <1>2, <1>4, <1>5, <2>1
<1>10. handles' # handles => failed' = (handles'[Top.handle] # "committed")
  <2>1. handles' # handles => Top.handle # 0
    BY <1>1
  <2> QED BY <1>1, <1>2, <1>4, <1>5, <2>1 DEF Whole
<1> QED BY <1>8, <1>9, <1>10

LEMMA LeaveModuleStep ==
    ASSUME IInv, LeaveModule
    PROVE  IInv'
<1>1. /\ Running /\ Top.kind = "module" /\ now' = [now EXCEPT !.source = Top.was.source]
      /\ stack' = Front(stack) /\ KeepBoundary /\ UNCHANGED <<failed, frames, streams, handles>>
      /\ modules' = [modules EXCEPT ![Top.name] = IF failed THEN @ ELSE "loaded"]
  BY DEF LeaveModule
<1>2. PICK B : ShapeIn(B)
  BY DEF IInv, Shape
<1>3. /\ Top.was \in NowType /\ Within(now, Top) /\ now \in NowType
  BY <1>1, <1>2, TopIs, StackNow
<1>4. now' = Top.was
  <2>1. PICK w \in NowType : w = Top.was
    BY <1>3
  <2>2. /\ now.depth = w.depth /\ now.trace = w.trace /\ now.contract = w.contract
        /\ now.effect = w.effect
    <3>1. w.depth \in Int /\ w.trace \in Int
      BY CallsAssumption DEF NowType
    <3> QED BY <1>1, <1>3, <2>1, <3>1 DEF Within, FunctionKinds, FrameKinds, BuiltinKinds
  <2>3. now' = [now EXCEPT !.source = w.source]
    BY <1>1, <2>1
  <2>4. now' \in NowType /\ now'.source = w.source /\ now'.depth = now.depth
        /\ now'.trace = now.trace /\ now'.contract = now.contract /\ now'.effect = now.effect
    BY <1>3, <2>3 DEF NowType
  <2>5. now' = w
    BY <2>2, <2>4, SameNow
  <2> QED BY <2>1, <2>5
<1>5. Top.kind \notin {"program", "host"} /\ Top.kind \notin FrameKinds
  BY <1>1 DEF FrameKinds
<1>6. /\ stack' \in Seq(Act(B)) /\ Len(stack') = Len(stack) - 1
      /\ Alike(stack, stack', Len(stack'))
  <2>1. PICK s : s = Front(stack)
    OBVIOUS
  <2>2. /\ s \in Seq(Act(B)) /\ Len(s) = Len(stack) - 1 /\ Alike(stack, s, Len(s))
    BY <1>1, <1>2, <1>5, <2>1, BelowIs
  <2>3. stack' = s
    BY <1>1, <2>1
  <2> QED BY <2>2, <2>3
<1>7. /\ modules' \in [Modules -> {"absent", "loading", "loaded"}]
      /\ \A m \in Modules : modules'[m] = modules[m] \/ (Top.kind = "module" /\ Top.name = m)
  <2>1. modules \in [Modules -> {"absent", "loading", "loaded"}]
    BY <1>1, StackNow
  <2> QED BY <1>1, <2>1
<1>8. /\ failed' \in BOOLEAN /\ handles' \in Seq({"open", "committed", "rolledback"})
      /\ Len(handles') = Len(handles)
      /\ \A h \in 1..Len(handles) :
            handles'[h] = handles[h] \/ (Top.kind = "transaction" /\ Top.handle = h)
  BY <1>1, StackNow
<1>9. IF Top.kind \in FrameKinds /\ registered THEN frames' = Front(frames) ELSE frames' = frames
  BY <1>1, <1>5
<1> QED BY <1>1, <1>2, <1>4, <1>5, <1>6, <1>7, <1>8, <1>9, PopStep

-----------------------------------------------------------------------------
(* The actions of the host.                                                  *)

LEMMA FunctionSeq ==
    ASSUME NEW S, NEW n \in Nat, NEW f \in [1..n -> S]
    PROVE  f \in Seq(S) /\ Len(f) = n
<1>1. f \in Seq(S)
  BY SeqDef
<1>2. DOMAIN f = 1..n /\ DOMAIN f = 1..Len(f) /\ Len(f) \in Nat
  BY <1>1, LenProperties
<1> QED BY <1>1, <1>2

(* With no activation there is nothing to agree with.                        *)
LEMMA NoStack ==
    ASSUME CallType, Shape, stack = <<>>, ~registered => frames = <<>>, Boundary
    PROVE  IInv
<1>1. Len(stack) = 0
  BY EmptySeq
<1> QED BY <1>1 DEF IInv, Agreement, Books, FrameBooks, Bottom, ModuleBooks, HandleBooks

LEMMA NoStackNext ==
    ASSUME CallType', Shape', stack' = <<>>, ~registered' => frames' = <<>>, Boundary'
    PROVE  IInv'
<1>1. Len(stack') = 0
  BY EmptySeq
<1> QED BY <1>1 DEF IInv, Agreement, Books, FrameBooks, Bottom, ModuleBooks, HandleBooks

LEMMA NoShape ==
    ASSUME NEW A, ShapeIn(A), stack' = <<>>, frames' = frames \/ frames' = <<>>,
           streams' = streams \/ streams' = <<>>
    PROVE  Shape'
<1>1. /\ stack' \in Seq(Act(A)) /\ frames' \in Seq(FrameOf(A))
      /\ streams' \in Seq(StreamOf(A))
  BY EmptySeq DEF ShapeIn
<1>2. ShapeIn(A)'
  BY <1>1 DEF ShapeIn
<1> QED BY <1>2 DEF Shape

(* The first activation.                                                     *)
LEMMA Alone ==
    ASSUME NEW s, NEW a, s = <<a>>, a.kind \in {"program", "host"}, a.was = Clean
    PROVE  /\ Len(s) = 1 /\ s[1] = a /\ Books(s, Clean) /\ At(s, 1, FrameKinds) = {}
<1>1. Len(s) = 1 /\ s[1] = a
  OBVIOUS
<1>2. \A kinds \in {FunctionKinds, FrameKinds, BuiltinKinds, {"module"}} : At(s, 1, kinds) = {}
  BY <1>1 DEF At, FunctionKinds, FrameKinds, BuiltinKinds
<1>3. Allowed(NoContract)
  BY CallsAssumption DEF Allowed, NoContract, Transaction
<1>4. Says(Clean, s, 1)
  <2>1. Cardinality({}) = 0 /\ TraceLimit \in Nat
    BY FS_EmptySet, CallsAssumption
  <2>2. Allowed(NoContract) = TRUE
    BY <1>3 DEF Allowed
  <2> QED BY <1>2, <2>1, <2>2 DEF Says, Innermost, Clean
<1>5. Within(Clean, a)
  <2>1. a.kind \notin FunctionKinds /\ a.kind \notin FrameKinds /\ a.kind \notin BuiltinKinds
        /\ a.kind # "module"
    BY DEF FunctionKinds, FrameKinds, BuiltinKinds
  <2> QED BY <2>1 DEF Within, Clean
<1>6. Books(s, Clean)
  <2>1. \A i \in 1..Len(s) : i = 1
    BY <1>1
  <2>2. Inside(s, Clean, 1) = Clean
    BY <1>1 DEF Inside
  <2> QED BY <1>1, <1>4, <1>5, <2>1, <2>2 DEF Books
<1> QED BY <1>1, <1>2, <1>6

(* What holds when only the program is on the stack.                         *)
LEMMA AtBottom ==
    ASSUME IInv, Running, Top.kind = "program"
    PROVE  now = Clean /\ frames = <<>>
<1>0. PICK A : ShapeIn(A)
  BY DEF IInv, Shape
<1>1. /\ Len(stack) \in Nat \ {0} /\ Top = stack[Len(stack)] /\ now \in NowType
  BY StackNow
<1>2. Len(stack) = 1
  <2>1. ASSUME NEW n \in Nat \ {0}, n # 1 PROVE n \in 2..n
    BY <2>1
  <2>2. Len(stack) # 1 => Len(stack) \in 2..Len(stack)
    BY <1>1, <2>1
  <2> QED BY <1>1, <2>2 DEF IInv, Agreement, Bottom, Running
<1>3. stack[1].kind = "program"
  BY <1>1, <1>2
<1>4. \A kinds \in {FunctionKinds, FrameKinds, BuiltinKinds, {"module"}} : At(stack, 1, kinds) = {}
  BY <1>3 DEF At, FunctionKinds, FrameKinds, BuiltinKinds
<1>5. Cardinality({}) = 0 /\ TraceLimit \in Nat
  BY FS_EmptySet, CallsAssumption
<1>6. Says(now, stack, 1)
  <2>1. Inside(stack, now, 1) = now /\ 1 \in 1..Len(stack)
    BY <1>2 DEF Inside
  <2> QED BY <2>1 DEF IInv, Agreement, Books
<1>7. now.depth = 0 /\ now.trace = 0 /\ now.contract = NoContract /\ now.source = Source
      /\ now.effect = Allowed(now.contract)
  BY <1>4, <1>5, <1>6 DEF Says, Innermost
<1>8. Allowed(NoContract) = TRUE
  BY CallsAssumption DEF Allowed, NoContract, Transaction
<1>9. now = Clean
  <2>1. now = [contract |-> now.contract, effect |-> now.effect, source |-> now.source,
               depth |-> now.depth, trace |-> now.trace]
    BY <1>1 DEF NowType
  <2> QED BY <1>7, <1>8, <2>1 DEF Clean
<1>10. frames = <<>>
  <2>1. CASE ~registered
    BY <2>1 DEF IInv, Agreement, FrameBooks
  <2>2. CASE registered
    <3>1. Len(frames) = Cardinality(At(stack, 1, FrameKinds))
      BY <1>2, <2>2 DEF IInv, Agreement, FrameBooks, FramesMatch, Running
    <3>2. Len(frames) = 0
      BY <1>4, <1>5, <3>1
    <3> QED BY <1>0, <3>2, EmptySeq DEF ShapeIn
  <2> QED BY <2>1, <2>2
<1> QED BY <1>9, <1>10

(* runtime_memory_limit, and the end of the program or of the host's call.   *)
LEMMA LeaveStep ==
    ASSUME IInv, MemoryJump \/ Finish
    PROVE  IInv'
<1>1. /\ Running /\ stack' = <<>> /\ KeepBoundary /\ failed' \in BOOLEAN
      /\ UNCHANGED <<now, frames, streams, handles, modules, temps>>
      /\ failed' \/ (failed' = failed /\ Top.kind \in {"program", "host"} /\ (Top.kind = "program" \/ Top.kind = "host"))
  BY StackNow DEF MemoryJump, Finish, KeepRun, KeepCalls, KeepData
<1>2. PICK A : ShapeIn(A)
  BY DEF IInv, Shape
<1>3. Shape'
  BY <1>1, <1>2, NoShape
<1>4. CallType'
  BY <1>1 DEF IInv, CallType, KeepBoundary
<1>5. ~registered' => frames' = <<>>
  BY <1>1 DEF IInv, Agreement, FrameBooks, KeepBoundary
<1>6. phase = "load" /\ ~failed' => now = Clean /\ frames = <<>>
  <2>1. ASSUME phase = "load", ~failed' PROVE Top.kind = "program"
    <3>1. /\ Len(stack) \in Nat \ {0} /\ Top = stack[Len(stack)] /\ stack # <<>>
          /\ Top.kind \in {"program", "host"}
      BY <1>1, <2>1, StackNow
    <3>2. ASSUME NEW n \in Nat \ {0}, n # 1 PROVE n \in 2..n
      BY <3>2
    <3>3. Len(stack) # 1 => Len(stack) \in 2..Len(stack)
      BY <3>1, <3>2
    <3> QED BY <2>1, <3>1, <3>3 DEF IInv, Agreement, Bottom
  <2> QED BY <1>1, <2>1, AtBottom
<1>7. Boundary'
  BY <1>1, <1>6 DEF Boundary, IInv, Agreement, KeepBoundary, Running, NoneOpen
<1> QED BY <1>1, <1>3, <1>4, <1>5, <1>7, NoStackNext

(* runtime_call_unwind_to gives back what a frame kept.                      *)
LEMMA UnwindFrameStep ==
    ASSUME IInv, UnwindFrame
    PROVE  IInv'
<1>1. /\ Left /\ frames # <<>> /\ now' = Last(frames).was /\ frames' = Front(frames)
      /\ KeepBoundary /\ UNCHANGED <<streams, handles, modules, temps, failed, stack>>
  BY DEF UnwindFrame, KeepData
<1>2. PICK A : ShapeIn(A)
  BY DEF IInv, Shape
<1>3. /\ Front(frames) \in Seq(FrameOf(A)) /\ Last(frames) \in FrameOf(A)
  <2>1. frames \in Seq(FrameOf(A))
    BY <1>2 DEF ShapeIn
  <2>2. PICK fs : fs = frames
    OBVIOUS
  <2>3. Front(fs) \in Seq(FrameOf(A)) /\ Last(fs) \in FrameOf(A)
    BY <1>1, <2>1, <2>2, LastOfSeq
  <2> QED BY <2>2, <2>3
<1>4. now' \in NowType
  BY <1>1, <1>3 DEF FrameOf
<1>5. Shape'
  <2>1. stack' \in Seq(Act(A)) /\ frames' \in Seq(FrameOf(A)) /\ streams' \in Seq(StreamOf(A))
    BY <1>1, <1>2, <1>3 DEF ShapeIn
  <2>2. ShapeIn(A)'
    BY <2>1 DEF ShapeIn
  <2> QED BY <2>2 DEF Shape
<1>6. CallType'
  BY <1>1, <1>4 DEF IInv, CallType, KeepBoundary
<1>7. registered /\ stack = <<>> /\ phase \in {"load", "call"}
  BY <1>1 DEF IInv, Agreement, FrameBooks, Left, CallType
<1>8. phase = "load" => failed
  BY <1>1, <1>7 DEF IInv, Agreement, Boundary, CallType
<1>9. Boundary'
  BY <1>1, <1>7, <1>8 DEF Boundary, IInv, Agreement, KeepBoundary
<1>10. registered' /\ stack' = <<>>
  BY <1>1, <1>7 DEF KeepBoundary
<1> QED BY <1>5, <1>6, <1>9, <1>10, NoStackNext

LEMMA ReleaseStep ==
    ASSUME IInv, Release, stack = <<>>, frames = <<>>
    PROVE  IInv'
<1>1. PICK A : ShapeIn(A)
  BY DEF IInv, Shape
<1>2. /\ phase' = "released" /\ temps' = 0 /\ streams' = <<>> /\ stack' = <<>> /\ frames' = <<>>
      /\ UNCHANGED <<host, registered, dryRun, checkpoint, step, scope, entries, failed, now,
                     handles, modules>>
  BY DEF Release
<1>3. Shape'
  BY <1>1, <1>2, NoShape
<1>4. CallType'
  BY <1>2 DEF IInv, CallType
<1>5. Boundary'
  BY <1>2 DEF Boundary
<1> QED BY <1>2, <1>3, <1>4, <1>5, NoStackNext

(* The load of a context ends, a call's unwinding begins and ends.           *)
LEMMA PhaseStep ==
    ASSUME IInv,
           \/ (\E mutable \in BOOLEAN : EndLoad(mutable)) \/ BeginUnwind \/ EndUnwind \/ FreeContext
    PROVE  IInv'
<1>0. PICK A : ShapeIn(A)
  BY DEF IInv, Shape
<1>1. ASSUME UNCHANGED <<host, registered, dryRun, checkpoint, step, scope, entries, failed,
                         now, stack, frames, streams, temps, handles, modules>>,
             stack = <<>>, frames = <<>>, phase' \in {"idle", "unwind"}, Boundary'
      PROVE  IInv'
  <2>1. Shape'
    BY <1>0, <1>1, NoShape
  <2>2. CallType'
    BY <1>1 DEF IInv, CallType
  <2> QED BY <1>1, <2>1, <2>2, NoStackNext
<1>2. CASE BeginUnwind
  <2>1. /\ UNCHANGED <<host, registered, dryRun, checkpoint, step, scope, entries, failed,
                       now, stack, frames, streams, temps, handles, modules>>
        /\ stack = <<>> /\ frames = <<>> /\ phase = "call" /\ phase' = "unwind"
    BY <1>2 DEF BeginUnwind, Left, KeepData
  <2>2. /\ checkpoint.was = Clean /\ checkpoint.streams <= Len(streams) /\ scope /\ step = 0
    BY <2>1 DEF IInv, Agreement, Boundary
  <2>3. Boundary'
    BY <2>1, <2>2 DEF Boundary
  <2> QED BY <1>1, <2>1, <2>3
<1>3. CASE EndUnwind
  <2>1. /\ UNCHANGED <<host, registered, dryRun, checkpoint, step, scope, entries, failed,
                       now, stack, frames, streams, temps, handles, modules>>
        /\ phase = "unwind" /\ phase' = "idle" /\ step = 4
    BY <1>3 DEF EndUnwind, KeepData, BoundaryTable
  <2>2. /\ stack = <<>> /\ frames = <<>> /\ ~scope /\ now = Clean /\ NoneOpen
        /\ Len(streams) = checkpoint.streams /\ temps = checkpoint.temps
    BY <2>1 DEF IInv, Agreement, Boundary
  <2>3. Boundary'
    BY <2>1, <2>2 DEF Boundary, NoneOpen
  <2> QED BY <1>1, <2>1, <2>2, <2>3
<1>4. CASE FreeContext
  BY <1>4, ReleaseStep DEF FreeContext, IInv, Agreement, Boundary
<1>5. CASE \E mutable \in BOOLEAN : EndLoad(mutable)
  <2>1. PICK mutable \in BOOLEAN : EndLoad(mutable)
    BY <1>5
  <2>2. phase = "load" /\ stack = <<>> /\ frames = <<>>
    BY <2>1 DEF EndLoad, Left
  <2>3. CASE Release
    BY <2>2, <2>3, ReleaseStep
  <2>4. CASE /\ ~failed /\ phase' = "idle"
             /\ UNCHANGED <<host, registered, dryRun, checkpoint, step, scope, entries, failed,
                            now, stack, frames, streams, temps, handles, modules>>
    <3>1. now = Clean /\ ~scope /\ entries = 0
      BY <2>2, <2>4 DEF IInv, Agreement, Boundary
    <3>2. Boundary'
      BY <2>2, <2>4, <3>1 DEF Boundary
    <3> QED BY <1>1, <2>2, <2>4, <3>2
  <2> QED BY <2>1, <2>3, <2>4 DEF EndLoad, KeepData
<1> QED BY <1>2, <1>3, <1>4, <1>5

LEMMA CleanTyped == Clean \in NowType
BY CallsAssumption DEF Clean, NowType

(* What a first activation needs besides the shapes.                         *)
LEMMA StartsAlone ==
    ASSUME NEW A, NEW a \in Act(A), a.kind \in {"program", "host"}, a.was = Clean,
           stack' = <<a>>, now' = Clean, frames' = <<>>, dryRun' = dryRun,
           streams' \in Seq(StreamOf(A)), CallType', Boundary',
           \/ phase' = "load" /\ a.kind = "program"
           \/ phase' = "call" /\ a.kind = "host"
    PROVE  IInv'
<1>1. PICK s : s = <<a>>
  OBVIOUS
<1>2. Len(s) = 1 /\ s[1] = a /\ Books(s, Clean) /\ At(s, 1, FrameKinds) = {} /\ s \in Seq(Act(A))
  BY <1>1, Alone
<1>3. /\ Len(stack') = 1 /\ stack'[1] = a /\ Books(stack', now') /\ At(stack', 1, FrameKinds) = {}
      /\ stack' = s
  BY <1>1, <1>2
<1>4. \A i \in 1..1 : i = 1
  OBVIOUS
<1>5. \A i \in 2..1 : FALSE
  OBVIOUS
<1>6. Shape'
  <2>1. stack' \in Seq(Act(A)) /\ frames' \in Seq(FrameOf(A)) /\ streams' \in Seq(StreamOf(A))
    BY <1>2, <1>3, EmptySeq
  <2>2. ShapeIn(A)'
    BY <2>1 DEF ShapeIn
  <2> QED BY <2>2 DEF Shape
<1>7. Books(stack, now)'
  BY <1>3, BooksNext
<1>8. stack'[1].kind \notin FrameKinds /\ stack'[1].kind # "module" /\ stack'[1].kind # "transaction"
  BY <1>3 DEF FrameKinds
<1>9. FrameBooks'
  <2>1. Len(frames') = 0 /\ Cardinality({}) = 0
    BY EmptySeq, FS_EmptySet
  <2>2. FramesMatch(stack', frames')
    BY <1>3, <1>4, <1>8, <2>1 DEF FramesMatch
  <2> QED BY <2>2 DEF FrameBooks, FramesMatch, At
<1>10. Bottom'
  BY <1>3, <1>5 DEF Bottom
<1>11. ModuleBooks' /\ HandleBooks'
  BY <1>3, <1>4, <1>8 DEF ModuleBooks, HandleBooks
<1> QED BY <1>6, <1>7, <1>9, <1>10, <1>11 DEF IInv, Agreement

(* A call of the application starts with clean registers.                    *)
LEMMA EnterCallStep ==
    ASSUME IInv, EnterCall
    PROVE  IInv'
<1> DEFINE b == Activation("host", Nil, Main, NoContract)
           a == [b EXCEPT !.result = "begun"]
<1>1. /\ phase = "idle" /\ phase' = "call" /\ entries' = entries + 1
      /\ failed' = FALSE /\ scope' = TRUE /\ step' = 0
      /\ now' = [now EXCEPT !.depth = 0, !.trace = 0]
      /\ checkpoint' = [streams |-> Len(streams), temps |-> temps, was |-> now']
      /\ stack' = <<a>>
      /\ UNCHANGED <<streams, temps, handles, modules, host, registered, dryRun, frames>>
  BY DEF EnterCall, KeepData
<1>2. /\ now = Clean /\ frames = <<>> /\ CallType
  BY <1>1 DEF IInv, Agreement, Boundary
<1>3. now' = Clean
  BY <1>1, <1>2 DEF Clean
<1>4. a = [kind |-> "host", frame |-> Nil, scope |-> Main, name |-> NoContract, was |-> now,
           handle |-> 0, result |-> "begun"]
  BY DEF Activation
<1>5. PICK A : ShapeIn(A)
  BY DEF IInv, Shape
<1> DEFINE B == A \cup {Nil, Main}
<1>6. Nil \in B /\ Main \in B /\ A \subseteq B
  OBVIOUS
<1> HIDE DEF B, a
<1>7. ShapeIn(B) /\ streams' \in Seq(StreamOf(B)) /\ Len(streams) \in Nat
  <2>1. ShapeIn(B) /\ streams' \in Seq(StreamOf(B)) /\ streams \in Seq(StreamOf(B))
    BY <1>1, <1>5, <1>6, Wider DEF ShapeIn
  <2> QED BY <2>1, LenProperties
<1>8. a \in Act(B) /\ a.kind = "host" /\ a.was = Clean
  BY <1>2, <1>4, <1>6, CleanTyped DEF Act
<1>9. CallType'
  <2>1. checkpoint'.streams \in Nat /\ checkpoint'.was \in NowType /\ now' \in NowType
    BY <1>1, <1>3, <1>7, CleanTyped
  <2>2. entries' \in Nat
    <3>1. entries \in Nat
      BY <1>2 DEF CallType
    <3> QED BY <1>1, <3>1
  <2>3. failed' \in BOOLEAN
    BY <1>1
  <2>4. step' \in 0..4
    BY <1>1
  <2> QED BY <1>1, <1>2, <2>1, <2>2, <2>3, <2>4 DEF CallType
<1>10. Boundary'
  BY <1>1, <1>3, <1>7 DEF Boundary
<1>11. frames' = <<>> /\ dryRun' = dryRun
  BY <1>1, <1>2
<1> QED BY <1>1, <1>3, <1>7, <1>8, <1>9, <1>10, <1>11, StartsAlone

(* hhy_runtime_boundary_unwind, one action of its table.                     *)
LEMMA UnwindStep ==
    ASSUME IInv, Unwind
    PROVE  IInv'
<1>1. /\ phase = "unwind" /\ phase' = "unwind" /\ step \in 0..3 /\ step' = step + 1
      /\ UNCHANGED <<host, registered, dryRun, checkpoint, entries, failed, stack, frames, modules>>
      /\ step = 0 => streams' = SubSeq(streams, 1, checkpoint.streams)
      /\ step # 0 => streams' = streams
      /\ temps' = IF step = 1 THEN checkpoint.temps ELSE temps
      /\ scope' <=> scope /\ step # 2
      /\ handles' = IF step = 2
                    THEN [h \in DOMAIN handles |->
                            IF handles[h] = "open" THEN "rolledback" ELSE handles[h]]
                    ELSE handles
      /\ now' = IF step = 3 THEN checkpoint.was ELSE now
  <2>0. Len(BoundaryTable) = 4 /\ step \in 0..4
    BY DEF BoundaryTable, IInv, CallType
  <2>1. phase = "unwind" /\ step \in 0..3
    BY <2>0 DEF Unwind
  <2>2. /\ BoundaryTable[1] = "streams" /\ BoundaryTable[2] = "temporaries"
        /\ BoundaryTable[3] = "scope" /\ BoundaryTable[4] = "state"
    BY DEF BoundaryTable
  <2>3. /\ BoundaryTable[step + 1] = "streams" <=> step = 0
        /\ BoundaryTable[step + 1] = "temporaries" <=> step = 1
        /\ BoundaryTable[step + 1] = "scope" <=> step = 2
        /\ BoundaryTable[step + 1] = "state" <=> step = 3
    <3>1. step = 0 \/ step = 1 \/ step = 2 \/ step = 3
      BY <2>1
    <3> QED BY <2>2, <3>1
  <2> QED BY <2>1, <2>3 DEF Unwind
<1>2. /\ stack = <<>> /\ frames = <<>> /\ (scope <=> step < 3) /\ checkpoint.was = Clean
      /\ checkpoint.streams <= Len(streams) /\ checkpoint.streams \in Nat
      /\ step >= 1 => Len(streams) = checkpoint.streams
      /\ step >= 2 => temps = checkpoint.temps
      /\ step >= 3 => NoneOpen
  BY <1>1 DEF IInv, Agreement, Boundary, CallType
<1>3. PICK A : ShapeIn(A)
  BY DEF IInv, Shape
<1>4. streams' \in Seq(StreamOf(A)) /\ Len(streams') = checkpoint.streams
  <2>1. streams \in Seq(StreamOf(A)) /\ Len(streams) \in Nat
    BY <1>3, LenProperties DEF ShapeIn
  <2>2. CASE step # 0
    BY <1>1, <1>2, <2>1, <2>2
  <2>3. CASE step = 0
    <3>1. PICK n \in Nat : n = checkpoint.streams /\ n <= Len(streams)
      BY <1>2
    <3>2. \A k \in 1..n : streams[k] \in StreamOf(A)
      BY <2>1, <3>1, ElementOfSeq
    <3>3. /\ SubSeq(streams, 1, n) \in Seq(StreamOf(A))
          /\ Len(SubSeq(streams, 1, n)) = IF 1 <= n THEN n - 1 + 1 ELSE 0
      <4>1. n \in Int /\ 1 \in Int
        OBVIOUS
      <4> QED BY <3>2, <4>1, SubSeqProperties
    <3>4. PICK t : t = SubSeq(streams, 1, n)
      OBVIOUS
    <3>5. (IF 1 <= n THEN n - 1 + 1 ELSE 0) = n
      OBVIOUS
    <3> QED BY <1>1, <2>3, <3>1, <3>3, <3>4, <3>5
  <2> QED BY <2>2, <2>3
<1>5. /\ handles' \in Seq({"open", "committed", "rolledback"})
      /\ step = 2 => \A h \in 1..Len(handles') : handles'[h] # "open"
      /\ step # 2 => handles' = handles
  <2>1. handles \in Seq({"open", "committed", "rolledback"})
    BY DEF IInv, CallType
  <2>2. CASE step # 2
    BY <1>1, <2>1, <2>2
  <2>3. CASE step = 2
    <3>1. PICK n \in Nat : n = Len(handles) /\ DOMAIN handles = 1..n
                           /\ handles \in [1..n -> {"open", "committed", "rolledback"}]
      BY <2>1, LenProperties
    <3>2. PICK f : f = [h \in 1..n |-> IF handles[h] = "open" THEN "rolledback" ELSE handles[h]]
      OBVIOUS
    <3>3. f \in [1..n -> {"open", "committed", "rolledback"}] /\ \A h \in 1..n : f[h] # "open"
      BY <3>1, <3>2
    <3>4. f \in Seq({"open", "committed", "rolledback"}) /\ Len(f) = n
      BY <3>3, FunctionSeq
    <3>5. handles' = f
      BY <1>1, <2>3, <3>1, <3>2
    <3> QED BY <2>3, <3>3, <3>4, <3>5
  <2> QED BY <2>2, <2>3
<1>6. now' \in NowType /\ (step = 3 => now' = Clean)
  BY <1>1, <1>2, CleanTyped DEF IInv, CallType
<1>7. Shape'
  <2>1. stack' \in Seq(Act(A)) /\ frames' \in Seq(FrameOf(A))
    BY <1>1, <1>3 DEF ShapeIn
  <2>2. ShapeIn(A)'
    BY <1>4, <2>1 DEF ShapeIn
  <2> QED BY <2>2 DEF Shape
<1>8. CallType'
  <2>1. step' \in 0..4
    BY <1>1
  <2> QED BY <1>1, <1>5, <1>6, <2>1 DEF IInv, CallType
<1>9. Boundary'
  <2>1. /\ stack' = <<>> /\ frames' = <<>> /\ checkpoint'.was = Clean
        /\ checkpoint'.streams <= Len(streams') /\ Len(streams') = checkpoint'.streams
    BY <1>1, <1>2, <1>4
  <2>2. scope' <=> step' < 3
    BY <1>1, <1>2
  <2>3. step' >= 2 => temps' = checkpoint'.temps
    BY <1>1, <1>2
  <2>4. step' >= 3 => NoneOpen'
    <3>1. CASE step = 2
      BY <1>5, <3>1 DEF NoneOpen
    <3>2. CASE step >= 3
      BY <1>1, <1>2, <1>5, <3>2 DEF NoneOpen
    <3> QED BY <1>1, <3>1, <3>2
  <2>5. step' >= 4 => now' = Clean
    BY <1>1, <1>6
  <2> QED BY <1>1, <2>1, <2>2, <2>3, <2>4, <2>5 DEF Boundary
<1>10. stack' = <<>> /\ frames' = <<>>
  BY <1>1, <1>2
<1> QED BY <1>7, <1>8, <1>9, <1>10, NoStackNext

-----------------------------------------------------------------------------
(* Every step.                                                               *)
LEMMA NextStep ==
    ASSUME IInv, [Next]_vars
    PROVE  IInv'
<1>1. CASE UNCHANGED vars
  <2>1. UNCHANGED callVars
    BY <1>1 DEF vars
  <2>2. CallType'
    BY <2>1 DEF callVars, IInv, CallType
  <2>3. Shape'
    <3>1. PICK A : ShapeIn(A)
      BY DEF IInv, Shape
    <3>2. ShapeIn(A)'
      BY <2>1, <3>1 DEF callVars, ShapeIn
    <3> QED BY <3>2 DEF Shape
  <2>4. Books(stack, now)'
    <3>1. Books(stack', now') /\ dryRun' = dryRun
      BY <2>1 DEF callVars, IInv, Agreement
    <3> QED BY <3>1, BooksNext
  <2>5. FrameBooks'
    BY <2>1 DEF callVars, IInv, Agreement, FrameBooks, FramesMatch, At
  <2>6. Bottom' /\ ModuleBooks' /\ HandleBooks'
    BY <2>1 DEF callVars, IInv, Agreement, Bottom, ModuleBooks, HandleBooks
  <2>7. Boundary'
    BY <2>1 DEF callVars, IInv, Agreement, Boundary, NoneOpen
  <2> QED BY <2>2, <2>3, <2>4, <2>5, <2>6, <2>7 DEF IInv, Agreement
<1>2. ASSUME NEW p \in Places, NEW e \in Places, NEW c \in Capacities,
             Call(p, c, e) \/ CallDirect(p, c, e)
      PROVE  IInv'
  BY <1>2, CallStep, DirectStep
<1>3. CASE TooDeep \/ EnterBlock \/ LeaveBlock \/ Declare \/ MakeClosure \/ Fail \/ Catch
  BY <1>3, QuietActions
<1>4. ASSUME NEW c \in Contracts, NEW t \in {0, 1}, Builtin(c, t)
      PROVE  IInv'
  BY <1>4, BuiltinStep
<1>5. ASSUME NEW g \in {"handle", "error", "nothing"}, Begin(g)
      PROVE  IInv'
  BY <1>5, BeginStep
<1>6. ASSUME NEW e \in Places, DropClosure(e)
      PROVE  IInv'
  BY <1>6, QuietActions
<1>7. ASSUME NEW rows \in BOOLEAN, MakeStream(rows)
      PROVE  IInv'
  BY <1>7, StreamStep
<1>8. ASSUME NEW r \in {"whole", "stream", "failed"}, Return(r)
      PROVE  IInv'
  BY <1>8, ReturnStep
<1>9. ASSUME NEW commits \in BOOLEAN, EndTransaction(commits)
      PROVE  IInv'
  BY <1>9, EndTransactionStep
<1>10. ASSUME NEW m \in Modules, NEW runs \in BOOLEAN, Import(m, runs)
       PROVE  IInv'
  BY <1>10, ImportStep
<1>11. CASE LeaveModule \/ MemoryJump \/ Finish \/ UnwindFrame
  BY <1>11, LeaveModuleStep, LeaveStep, UnwindFrameStep
<1>12. ASSUME NEW mutable \in BOOLEAN, EndLoad(mutable)
       PROVE  IInv'
  BY <1>12, PhaseStep
<1>13. CASE EnterCall \/ Unwind
  BY <1>13, EnterCallStep, UnwindStep
<1>14. CASE BeginUnwind \/ EndUnwind \/ FreeContext
  BY <1>14, PhaseStep
<1> QED
  BY <1>1, <1>2, <1>3, <1>4, <1>5, <1>6, <1>7, <1>8, <1>9, <1>10, <1>11, <1>12, <1>13, <1>14
  DEF Next

(* The first activation is that of the program.                              *)
LEMMA InitAgrees == Init => IInv
<1> SUFFICES ASSUME Init PROVE IInv
  OBVIOUS
<1> DEFINE a == [kind |-> "program", frame |-> Main, scope |-> Main, name |-> NoContract,
                 was |-> Clean, handle |-> 0, result |-> "none"]
           B == {Nil, Main}
<1>1. /\ host \in {"program", "context"} /\ registered \in BOOLEAN /\ dryRun \in BOOLEAN
      /\ phase = "load" /\ failed = FALSE /\ now = Clean /\ frames = <<>> /\ step = 0
      /\ stack = <<a>> /\ checkpoint.streams = 0 /\ checkpoint.was = Clean
      /\ streams = <<>> /\ scope = FALSE /\ handles = <<>>
      /\ modules = [m \in Modules |-> "absent"] /\ entries = 0
  BY DEF Init, Clean
<1>2. Clean \in NowType
  BY CleanTyped
<1>3. CallType
  <2>1. failed \in BOOLEAN /\ phase \in {"load", "idle", "call", "unwind", "released"}
    BY <1>1
  <2>2. checkpoint.streams \in Nat /\ step \in 0..4 /\ entries \in Nat
    BY <1>1
  <2>3. handles \in Seq({"open", "committed", "rolledback"})
    BY <1>1
  <2>4. modules \in [Modules -> {"absent", "loading", "loaded"}]
    BY <1>1
  <2> QED BY <1>1, <1>2, <2>1, <2>2, <2>3, <2>4 DEF CallType
<1>4. a \in Act(B)
  BY <1>2 DEF Act
<1> HIDE DEF a
<1>5. Shape
  <2>1. <<a>> \in Seq(Act(B)) /\ <<>> \in Seq(FrameOf(B)) /\ <<>> \in Seq(StreamOf(B))
    BY <1>4
  <2> HIDE DEF B
  <2> QED BY <1>1, <2>1 DEF Shape, ShapeIn
<1>6. a.kind = "program" /\ a.was = Clean
  BY DEF a
<1>7. /\ Len(stack) = 1 /\ stack[1] = a /\ Books(stack, Clean)
      /\ At(stack, 1, FrameKinds) = {}
  BY <1>1, <1>6, Alone
<1>8. FrameBooks
  <2>1. Len(frames) = 0 /\ Cardinality({}) = 0
    BY <1>1, EmptySeq, FS_EmptySet
  <2>2. stack[1].kind \notin FrameKinds /\ \A i \in 1..1 : i = 1
    BY <1>6, <1>7 DEF FrameKinds
  <2>3. FramesMatch(stack, frames)
    BY <1>7, <2>1, <2>2 DEF FramesMatch
  <2> QED BY <1>1, <2>3 DEF FrameBooks
<1>9. Bottom /\ ModuleBooks /\ HandleBooks
  BY <1>1, <1>6, <1>7 DEF Bottom, ModuleBooks, HandleBooks
<1>10. Boundary
  BY <1>1 DEF Boundary
<1> QED BY <1>1, <1>3, <1>5, <1>7, <1>8, <1>9, <1>10 DEF IInv, Agreement

LEMMA AlwaysAgrees == Spec => []IInv
<1>1. Init => IInv
  BY InitAgrees
<1>2. IInv /\ [Next]_vars => IInv'
  BY NextStep
<1> QED BY <1>1, <1>2, PTL DEF Spec

-----------------------------------------------------------------------------
(* What is asked of the calls.                                               *)

LEMMA AtAll ==
    ASSUME IInv, Running, NEW kinds
    PROVE  {i \in DOMAIN stack : stack[i].kind \in kinds} = At(stack, Len(stack), kinds)
<1>1. PICK A : ShapeIn(A)
  BY DEF IInv, Shape
<1>2. DOMAIN stack = 1..Len(stack)
  BY <1>1, LenProperties DEF ShapeIn
<1> QED BY <1>2 DEF At

LEMMA NowSays ==
    ASSUME IInv, Running
    PROVE  Says(now, stack, Len(stack))
<1>1. Len(stack) \in Nat \ {0}
  BY StackNow
<1>2. Len(stack) \in 1..Len(stack) /\ Inside(stack, now, Len(stack)) = now
  BY <1>1 DEF Inside
<1> QED BY <1>2 DEF IInv, Agreement, Books

LEMMA InnermostIs ==
    ASSUME IInv, Running, NEW kinds, NEW none, NEW name,
           Innermost(stack, Len(stack), kinds, none, name)
    PROVE  name = InnermostName(kinds, none)
<1> DEFINE at == At(stack, Len(stack), kinds)
<1>1. InnermostName(kinds, none) = IF at = {} THEN none ELSE stack[Max(at)].name
  BY AtAll DEF InnermostName
<1>2. at \in SUBSET Int
  BY StackNow DEF At
<1>3. CASE at = {}
  BY <1>1, <1>3 DEF Innermost
<1>4. ASSUME NEW j \in at, name = stack[j].name, \A k \in at : k <= j
      PROVE  name = InnermostName(kinds, none)
  <2> HIDE DEF at
  <2>1. Max(at) = j
    BY <1>2, <1>4, MaxIs
  <2> QED BY <1>1, <1>4, <2>1
<1> QED BY <1>3, <1>4 DEF Innermost

LEMMA TracedIs ==
    ASSUME NEW c \in Nat, NEW l \in Nat
    PROVE  Min({l, c}) = IF c < l THEN c ELSE l
<1> DEFINE x == IF c < l THEN c ELSE l
<1>1. {l, c} \in SUBSET Int /\ x \in {l, c} /\ \A y \in {l, c} : x <= y
  OBVIOUS
<1> HIDE DEF x
<1>2. Min({l, c}) = x
  BY <1>1, MinIs
<1> QED BY <1>2 DEF x

LEMMA Agrees == IInv => InStep
<1> SUFFICES ASSUME IInv, Running
             PROVE  /\ now.depth = Count({"call", "direct"})
                    /\ now.trace = Min({TraceLimit, Count({"call", "builtin", "transaction"})})
                    /\ registered => Len(frames) = Count({"call", "builtin", "transaction"})
                    /\ now.contract = InnermostName({"builtin", "transaction"}, NoContract)
                    /\ now.effect = Allowed(now.contract)
                    /\ now.source = InnermostName({"module"}, Source)
                    /\ \A i \in DOMAIN stack :
                          stack[i].kind = "module" => modules[stack[i].name] = "loading"
  BY DEF InStep
<1> DEFINE n == Len(stack)
<1>1. n \in Nat \ {0} /\ stack # <<>> /\ DOMAIN stack = 1..n
  <2>1. PICK A : ShapeIn(A)
    BY DEF IInv, Shape
  <2>2. DOMAIN stack = 1..Len(stack)
    BY <2>1, LenProperties DEF ShapeIn
  <2> QED BY <2>2, StackNow
<1>2. /\ Count({"call", "direct"}) = Cardinality(At(stack, n, FunctionKinds))
      /\ Count({"call", "builtin", "transaction"}) = Cardinality(At(stack, n, FrameKinds))
  BY AtAll DEF Count, FunctionKinds, FrameKinds
<1>3. Says(now, stack, n)
  BY NowSays
<1>4. now.depth = Count({"call", "direct"})
  BY <1>2, <1>3 DEF Says
<1>5. now.trace = Min({TraceLimit, Count({"call", "builtin", "transaction"})})
  <2>1. PICK c \in Nat : c = Cardinality(At(stack, n, FrameKinds))
    BY <1>1, AtCounts
  <2>2. now.trace = IF c < TraceLimit THEN c ELSE TraceLimit
    BY <1>3, <2>1 DEF Says
  <2>3. TraceLimit \in Nat
    BY CallsAssumption
  <2>4. Min({TraceLimit, c}) = IF c < TraceLimit THEN c ELSE TraceLimit
    BY <2>3, TracedIs
  <2> QED BY <1>2, <2>1, <2>2, <2>4
<1>6. registered => Len(frames) = Count({"call", "builtin", "transaction"})
  BY <1>1, <1>2 DEF IInv, Agreement, FrameBooks, FramesMatch
<1>7. now.contract = InnermostName({"builtin", "transaction"}, NoContract)
  <2>1. Innermost(stack, n, {"builtin", "transaction"}, NoContract, now.contract)
    BY <1>3 DEF Says, BuiltinKinds
  <2> QED BY <2>1, InnermostIs
<1>8. now.source = InnermostName({"module"}, Source)
  <2>1. Innermost(stack, n, {"module"}, Source, now.source)
    BY <1>3 DEF Says
  <2> QED BY <2>1, InnermostIs
<1>9. now.effect = Allowed(now.contract)
  BY <1>3 DEF Says
<1>10. \A i \in DOMAIN stack : stack[i].kind = "module" => modules[stack[i].name] = "loading"
  BY <1>1 DEF IInv, Agreement, ModuleBooks
<1> QED BY <1>4, <1>5, <1>6, <1>7, <1>8, <1>9, <1>10

(* At every moment of every run, whatever calls it made and however they      *)
(* ended, the depth, trace, contract, effect and source of the runtime are    *)
(* those of the calls that are on the C stack (call_value, call_frame_pop,    *)
(* module_load).                                                             *)
THEOREM RegistersAgree == Spec => []InStep
<1>1. IInv => InStep
  BY Agrees
<1> QED BY <1>1, AlwaysAgrees, PTL

LEMMA Rests == IInv => IdleIsClean
<1> SUFFICES ASSUME IInv PROVE IdleIsClean
  OBVIOUS
<1>1. DOMAIN handles = 1..Len(handles)
  <2>1. handles \in Seq({"open", "committed", "rolledback"})
    BY DEF IInv, CallType
  <2> QED BY <2>1, LenProperties
<1> QED BY <1>1 DEF IInv, Agreement, Boundary, NoneOpen, Clean, IdleIsClean

(* Between the calls of an application nothing of an ended call is left in its *)
(* context, also when the call ended by the jump of the memory limit          *)
(* (hhy_runtime_boundary_unwind).                                            *)
THEOREM ContextIsReusable == Spec => []IdleIsClean
<1>1. IInv => IdleIsClean
  BY Rests
<1> QED BY <1>1, AlwaysAgrees, PTL

LEMMA StreamsFirst == IInv => ScopeOutlivesStreams
<1> SUFFICES ASSUME IInv, phase \in {"call", "unwind"},
                    NEW i \in checkpoint.streams + 1 .. Len(streams), streams[i].rows
             PROVE  scope
  BY DEF ScopeOutlivesStreams
<1>1. CASE phase = "call"
  BY <1>1 DEF IInv, Agreement, Boundary
<1>2. CASE phase = "unwind"
  <2>1. (scope <=> step < 3) /\ (step >= 1 => Len(streams) = checkpoint.streams)
    BY <1>2 DEF IInv, Agreement, Boundary
  <2>2. checkpoint.streams \in Nat /\ step \in 0..4
    BY DEF IInv, CallType
  <2>3. ~(step >= 1)
    BY <2>1, <2>2
  <2> QED BY <2>1, <2>2, <2>3
<1> QED BY <1>1, <1>2

(* A stream of rows that a call of the application made is closed before the  *)
(* extension scope of that call ends (runtime_unwind.c, the boundary table).  *)
THEOREM StreamsCloseFirst == Spec => []ScopeOutlivesStreams
<1>1. IInv => ScopeOutlivesStreams
  BY StreamsFirst
<1> QED BY <1>1, AlwaysAgrees, PTL

Commits ==
    \A h \in DOMAIN handles :
       /\ handles[h] # "open" => handles'[h] = handles[h]
       /\ handles[h] = "open" /\ handles'[h] = "committed" =>
             /\ Top.kind = "transaction" /\ Top.handle = h /\ Top.result = "whole"
             /\ ~failed /\ ~failed'

LEMMA CommitStep == IInv /\ [Next]_vars => [Commits]_vars
<1> SUFFICES ASSUME IInv, Next PROVE Commits
  BY DEF Commits, vars, callVars
<1>1. handles \in Seq({"open", "committed", "rolledback"}) /\ DOMAIN handles = 1..Len(handles)
  <2>1. handles \in Seq({"open", "committed", "rolledback"})
    BY DEF IInv, CallType
  <2> QED BY <2>1, LenProperties
<1>2. CASE handles' = handles
  BY <1>2 DEF Commits
<1>3. ASSUME NEW g, Begin(g)
      PROVE  Commits
  <2>1. CASE handles' = handles
    BY <1>2, <2>1
  <2>2. CASE handles' = Append(handles, "open")
    <3>1. \A h \in 1..Len(handles) : handles'[h] = handles[h]
      BY <1>1, <2>2
    <3> QED BY <1>1, <3>1 DEF Commits
  <2> QED BY <1>3, <2>1, <2>2 DEF Begin
<1>4. ASSUME NEW commits, EndTransaction(commits)
      PROVE  Commits
  <2>1. /\ \A h \in 1..Len(handles) :
              /\ h # Top.handle => handles'[h] = handles[h]
              /\ h = Top.handle => handles[h] = "open" /\ (handles'[h] = "committed" => Whole)
        /\ handles' # handles => failed' = (handles'[Top.handle] # "committed")
    BY <1>4, EndTransactionStep
  <2>2. Top.kind = "transaction"
    BY <1>4 DEF EndTransaction
  <2>3. ASSUME NEW h \in 1..Len(handles), handles[h] = "open", handles'[h] = "committed"
        PROVE  Top.handle = h /\ Top.result = "whole" /\ ~failed /\ ~failed'
    <3>1. Top.handle = h
      BY <2>1, <2>3
    <3>2. Whole
      BY <2>1, <2>3, <3>1
    <3>3. handles' # handles
      BY <2>3
    <3>4. ~failed'
      BY <2>1, <2>3, <3>1, <3>3
    <3> QED BY <3>1, <3>2, <3>4 DEF Whole
  <2>4. \A h \in 1..Len(handles) : handles[h] # "open" => handles'[h] = handles[h]
    BY <2>1
  <2> QED BY <1>1, <2>2, <2>3, <2>4 DEF Commits
<1>5. CASE Unwind
  <2>1. CASE handles' = [h \in DOMAIN handles |->
                            IF handles[h] = "open" THEN "rolledback" ELSE handles[h]]
    BY <2>1 DEF Commits
  <2> QED BY <1>2, <1>5, <2>1 DEF Unwind
<1>6. ASSUME NEW p, NEW e, NEW c, Call(p, c, e) \/ CallDirect(p, c, e)
      PROVE  handles' = handles
  BY <1>6 DEF Call, CallDirect, KeepData
<1>7. CASE TooDeep \/ EnterBlock \/ LeaveBlock \/ Declare \/ MakeClosure \/ Fail \/ Catch
  BY <1>2, <1>7 DEF TooDeep, EnterBlock, LeaveBlock, Declare, MakeClosure, Fail, Catch, KeepData
<1>8. ASSUME NEW c, NEW t, Builtin(c, t)
      PROVE  handles' = handles
  BY <1>8 DEF Builtin
<1>9. ASSUME NEW x, DropClosure(x) \/ MakeStream(x) \/ Return(x) \/ EndLoad(x)
      PROVE  handles' = handles
  BY <1>9 DEF DropClosure, MakeStream, Return, EndLoad, Release, KeepData
<1>10. ASSUME NEW m, NEW runs, Import(m, runs)
       PROVE  handles' = handles
  BY <1>10 DEF Import
<1>11. CASE LeaveModule \/ MemoryJump \/ Finish \/ UnwindFrame
  BY <1>2, <1>11 DEF LeaveModule, MemoryJump, Finish, UnwindFrame, KeepData
<1>12. CASE EnterCall \/ BeginUnwind \/ EndUnwind \/ FreeContext
  BY <1>2, <1>12 DEF EnterCall, BeginUnwind, EndUnwind, FreeContext, Release, KeepData
<1> QED
  BY <1>2, <1>3, <1>4, <1>5, <1>6, <1>7, <1>8, <1>9, <1>10, <1>11, <1>12 DEF Next

(* A transaction is committed only by the with_transaction that began it, when *)
(* its callback gave a whole value and no error is under way; no later step   *)
(* undoes an outcome (database.with_transaction in src/runtime.c).            *)
THEOREM WholeTransactions == Spec => CommitOnlyWhole
<1>1. IInv /\ [Next]_vars => [Commits]_vars
  BY CommitStep
<1>2. Spec => [][Commits]_vars
  BY <1>1, AlwaysAgrees, PTL DEF Spec
<1>3. [][Commits]_vars => CommitOnlyWhole
  BY PTL DEF CommitOnlyWhole, Commits
<1> QED BY <1>2, <1>3, PTL

-----------------------------------------------------------------------------
(* The environments and who holds them.  h is the heap, s the stack, f the   *)
(* registered frames, K what closures and streams hold, P what the pool has. *)

(* The least set that has what is in S and every parent of what it has.      *)
Upward(h, C) == \A e \in C : h[e].parent \in Places => h[e].parent \in C

Reach(h, S) ==
    {e \in Places :
        \A C \in SUBSET Places : S \cap Places \subseteq C /\ Upward(h, C) => e \in C}

From(h, e) == Reach(h, {e})

Held(s, f, K) ==
    {Main} \cup K \cup {s[i].scope : i \in 1..Len(s)} \cup {s[i].frame : i \in 1..Len(s)}
        \cup {f[k].env : k \in 1..Len(f)}

HeapType(h) == h \in [Places -> [parent : Places \cup {Nil}, escaped : BOOLEAN, size : Nat]]

(* What escaped stays so outwards, and what closures and streams hold did.   *)
EscapesUp(h, s, f, K) ==
    /\ \A e \in Reach(h, Held(s, f, K)) :
          h[e].escaped /\ h[e].parent \in Places => h[h[e].parent].escaped
    /\ K \subseteq Places /\ \A e \in K : h[e].escaped
    /\ h[Main].parent = Nil

(* A frame is around the scope its call is in; what is around a frame has    *)
(* escaped.                                                                  *)
Encloses(h, e) == h[e].parent \in Places => h[h[e].parent].escaped

Scopes(h, s) ==
    \A i \in 1..Len(s) :
        /\ s[i].scope \in Places /\ s[i].frame \in Places \cup {Nil}
        /\ s[i].frame # Nil => /\ s[i].frame \in From(h, s[i].scope) /\ Encloses(h, s[i].frame)
        /\ s[i].kind \in {"program", "call", "direct", "module"} => s[i].frame # Nil

(* No activation below one reaches its frame, which is not the program's.    *)
Apart(h, s) ==
    \A j \in 1..Len(s) : s[j].frame # Nil /\ s[j].kind # "program" =>
        /\ s[j].frame # Main
        /\ \A i \in 1..Len(s) : i < j => s[j].frame \notin From(h, s[i].scope)

(* How many activations up to i registered a frame.                          *)
Level(s, i) == Cardinality(At(s, i, FrameKinds))

(* A registered frame answers for an environment of its own, which only the  *)
(* activations from the one that registered it on can reach.                 *)
Answers(h, s, f) ==
    \A k \in 1..Len(f) : f[k].env # Nil =>
        /\ f[k].env \in Places \ {Main} /\ Encloses(h, f[k].env)
        /\ \A l \in 1..Len(f) : f[l].env = f[k].env => l = k
        /\ \A i \in 1..Len(s) : /\ f[k].env \in From(h, s[i].scope) => k <= Level(s, i)
                                /\ f[k].env = s[i].frame => Level(s, i) <= k

Safe(h, s, f, K, P) ==
    /\ HeapType(h) /\ EscapesUp(h, s, f, K) /\ Scopes(h, s) /\ Apart(h, s) /\ Answers(h, s, f)
    /\ P \subseteq Places /\ P \cap Reach(h, Held(s, f, K)) = {}

Kept == closures \cup {streams[i].env : i \in 1..Len(streams)}

-----------------------------------------------------------------------------
(* What a heap reaches.                                                      *)

(* Nil is no place, and there are finitely many places.                     *)
LEMMA PlaceFacts == Nil \notin Places /\ Main \in Places /\ IsFiniteSet(Places)
BY FramesAssumption, CallsAssumption DEF Nil

(* What is reached has what it starts from, and is closed outwards.         *)
LEMMA ReachHas ==
    ASSUME NEW h, NEW S
    PROVE  Reach(h, S) \subseteq Places /\ S \cap Places \subseteq Reach(h, S) /\ Upward(h, Reach(h, S))
<1>1. Reach(h, S) \subseteq Places /\ S \cap Places \subseteq Reach(h, S)
  BY DEF Reach
<1>2. ASSUME NEW e \in Reach(h, S), h[e].parent \in Places PROVE h[e].parent \in Reach(h, S)
  BY <1>2 DEF Reach, Upward
<1> QED BY <1>1, <1>2 DEF Upward

(* It is in every closed set that has what it starts from.                  *)
LEMMA ReachLeast ==
    ASSUME NEW h, NEW S, NEW C \in SUBSET Places, S \cap Places \subseteq C, Upward(h, C)
    PROVE  Reach(h, S) \subseteq C
BY DEF Reach

(* Starting from what another set reaches, one reaches no more than it.     *)
LEMMA ReachMore ==
    ASSUME NEW h, NEW S, NEW T, S \cap Places \subseteq Reach(h, T)
    PROVE  Reach(h, S) \subseteq Reach(h, T)
BY ReachHas, ReachLeast

(* One environment reaches itself, and what those it reaches do.            *)
LEMMA FromHas ==
    ASSUME NEW h, NEW x \in Places
    PROVE  /\ x \in From(h, x) /\ From(h, x) \subseteq Places /\ Upward(h, From(h, x))
           /\ \A y \in From(h, x) : From(h, y) \subseteq From(h, x)
<1>1. x \in From(h, x) /\ From(h, x) \subseteq Places /\ Upward(h, From(h, x))
  BY ReachHas DEF From
<1>2. ASSUME NEW y \in From(h, x) PROVE From(h, y) \subseteq From(h, x)
  <2>1. {y} \cap Places \subseteq Reach(h, {x})
    BY DEF From
  <2> QED BY <2>1, ReachMore DEF From
<1> QED BY <1>1, <1>2

(* What one of those reached reaches is reached.                            *)
LEMMA FromIn ==
    ASSUME NEW h, NEW S, NEW x \in Reach(h, S)
    PROVE  x \in Places /\ From(h, x) \subseteq Reach(h, S)
<1>1. {x} \cap Places \subseteq Reach(h, S)
  OBVIOUS
<1> QED BY <1>1, ReachMore, ReachHas DEF From

(* Everything is reached from one of those one starts with.                  *)
LEMMA ReachAny ==
    ASSUME NEW h, NEW S, NEW e \in Reach(h, S)
    PROVE  \E x \in S \cap Places : e \in From(h, x)
<1> DEFINE C == {q \in Places : \E x \in S \cap Places : q \in From(h, x)}
<1>1. S \cap Places \subseteq C
  BY FromHas
<1>2. ASSUME NEW q \in C, h[q].parent \in Places PROVE h[q].parent \in C
  <2>1. PICK x \in S \cap Places : q \in From(h, x)
    OBVIOUS
  <2>2. h[q].parent \in From(h, x)
    BY <1>2, <2>1, FromHas DEF Upward
  <2> QED BY <1>2, <2>2
<1>3. Upward(h, C)
  BY <1>2 DEF Upward
<1>4. C \in SUBSET Places
  OBVIOUS
<1> HIDE DEF C
<1>5. e \in C
  BY <1>1, <1>3, <1>4, ReachLeast
<1> QED BY <1>5 DEF C

(* What is reached, but for the environment itself, is from its parent.     *)
LEMMA FromNext ==
    ASSUME NEW h, NEW x \in Places, NEW e \in From(h, x), e # x
    PROVE  h[x].parent \in Places /\ e \in From(h, h[x].parent)
<1> DEFINE C == {x} \cup {q \in Places : h[x].parent \in Places /\ q \in From(h, h[x].parent)}
<1>1. C \in SUBSET Places /\ {x} \cap Places \subseteq C
  OBVIOUS
<1>2. ASSUME NEW q \in C, h[q].parent \in Places PROVE h[q].parent \in C
  <2>1. CASE q = x
    BY <1>2, <2>1, FromHas
  <2>2. CASE q # x
    <3>1. h[x].parent \in Places /\ q \in From(h, h[x].parent)
      BY <2>2
    <3>2. h[q].parent \in From(h, h[x].parent)
      BY <1>2, <3>1, FromHas DEF Upward
    <3> QED BY <1>2, <3>1, <3>2
  <2> QED BY <2>1, <2>2
<1>3. Upward(h, C)
  BY <1>2 DEF Upward
<1> HIDE DEF C
<1>4. e \in C
  BY <1>1, <1>3, ReachLeast DEF From
<1> QED BY <1>4 DEF C

(* Heaps with the same parents where one of them reaches.                    *)
LEMMA ReachSame ==
    ASSUME NEW h, NEW g, NEW S, \A e \in Reach(h, S) : g[e].parent = h[e].parent
    PROVE  Reach(g, S) = Reach(h, S)
<1>1. Upward(g, Reach(h, S)) /\ Reach(h, S) \in SUBSET Places /\ S \cap Places \subseteq Reach(h, S)
  BY ReachHas DEF Upward
<1>2. Reach(g, S) \subseteq Reach(h, S)
  BY <1>1, ReachLeast
<1>3. Upward(h, Reach(g, S)) /\ Reach(g, S) \in SUBSET Places /\ S \cap Places \subseteq Reach(g, S)
  BY <1>2, ReachHas DEF Upward
<1>4. Reach(h, S) \subseteq Reach(g, S)
  BY <1>3, ReachLeast
<1> QED BY <1>2, <1>4

(* Where a set is closed outwards and all of S is in it, all of it is.       *)
LEMMA AllEscaped ==
    ASSUME NEW h, NEW R, Upward(h, R), R \subseteq Places,
           \A e \in R : h[e].escaped /\ h[e].parent \in Places => h[h[e].parent].escaped,
           NEW x \in R, h[x].escaped
    PROVE  \A e \in From(h, x) : h[e].escaped
<1> DEFINE C == {q \in R : h[q].escaped}
<1>1. C \in SUBSET Places /\ {x} \cap Places \subseteq C /\ Upward(h, C)
  BY DEF Upward
<1> HIDE DEF C
<1>2. From(h, x) \subseteq C
  BY <1>1, ReachLeast DEF From
<1> QED BY <1>2 DEF C

-----------------------------------------------------------------------------
(* Who holds what: the steps.                                                *)

(* A holder's environment is reached, and all around it.                    *)
LEMMA HeldIn ==
    ASSUME NEW h, NEW s, NEW f, NEW K, NEW x \in Held(s, f, K), x \in Places
    PROVE  x \in Reach(h, Held(s, f, K)) /\ From(h, x) \subseteq Reach(h, Held(s, f, K))
BY ReachHas, FromIn

(* The holders are the program, closures, streams, activations, frames.     *)
LEMMA HoldersHeld ==
    ASSUME NEW s, NEW f, NEW K
    PROVE  /\ Main \in Held(s, f, K) /\ K \subseteq Held(s, f, K)
           /\ \A i \in 1..Len(s) : s[i].scope \in Held(s, f, K) /\ s[i].frame \in Held(s, f, K)
           /\ \A k \in 1..Len(f) : f[k].env \in Held(s, f, K)
BY DEF Held

(* What is reached does not change: nor do the holders.                      *)
LEMMA SafeTree ==
    ASSUME NEW h, NEW g, NEW s, NEW f, NEW K, NEW P, NEW Q, Safe(h, s, f, K, P), HeapType(g),
           \A e \in Reach(h, Held(s, f, K)) : g[e].parent = h[e].parent /\ g[e].escaped = h[e].escaped,
           Q \subseteq Places, Q \cap Reach(h, Held(s, f, K)) = {}
    PROVE  /\ Safe(g, s, f, K, Q) /\ Reach(g, Held(s, f, K)) = Reach(h, Held(s, f, K))
           /\ \A x \in Held(s, f, K) \cap Places : From(g, x) = From(h, x)
<1> DEFINE R == Reach(h, Held(s, f, K))
<1>1. Reach(g, Held(s, f, K)) = R
  BY ReachSame
<1>2. \A x \in Held(s, f, K) \cap Places : x \in R /\ From(g, x) = From(h, x)
  <2> SUFFICES ASSUME NEW x \in Held(s, f, K) \cap Places PROVE x \in R /\ From(g, x) = From(h, x)
    OBVIOUS
  <2>1. x \in R /\ Reach(h, {x}) \subseteq R
    BY HeldIn DEF From
  <2>2. \A e \in Reach(h, {x}) : g[e].parent = h[e].parent
    BY <2>1
  <2>3. Reach(g, {x}) = Reach(h, {x})
    BY <2>2, ReachSame
  <2> QED BY <2>1, <2>3 DEF From
<1>3. R \subseteq Places /\ \A e \in R : h[e].parent \in Places => h[e].parent \in R
  BY ReachHas DEF Upward
<1>4. \A e \in R : g[e].parent = h[e].parent /\ g[e].escaped = h[e].escaped
  OBVIOUS
<1> HIDE DEF R
<1>5. /\ Main \in R /\ K \subseteq Places /\ K \subseteq R
      /\ \A i \in 1..Len(s) : s[i].scope \in Held(s, f, K) /\ s[i].frame \in Held(s, f, K)
      /\ \A k \in 1..Len(f) : f[k].env \in Held(s, f, K)
  BY <1>2, HoldersHeld, PlaceFacts DEF Safe, EscapesUp
<1>6. EscapesUp(g, s, f, K)
  <2>1. EscapesUp(h, s, f, K)
    BY DEF Safe
  <2> QED BY <1>1, <1>3, <1>4, <1>5, <2>1 DEF EscapesUp, R
<1>7. \A e \in R : Encloses(h, e) => Encloses(g, e)
  BY <1>3, <1>4 DEF Encloses
<1>8. Scopes(g, s)
  BY <1>2, <1>5, <1>7 DEF Safe, Scopes
<1>9. Apart(g, s)
  BY <1>2, <1>5 DEF Safe, Apart, Scopes
<1>10. Answers(g, s, f)
  BY <1>2, <1>5, <1>7 DEF Safe, Answers, Scopes
<1> QED BY <1>1, <1>2, <1>6, <1>8, <1>9, <1>10 DEF Safe, R

(* Something that nobody reaches becomes an environment inside p.            *)
LEMMA SafeNew ==
    ASSUME NEW h, NEW s, NEW f, NEW K, NEW P, NEW Q, NEW e \in Places, NEW p, NEW n \in Nat,
           Safe(h, s, f, K, P), e \notin Reach(h, Held(s, f, K)),
           p = Nil \/ p \in Held(s, f, K) \cap Places, Q \subseteq P, e \notin Q
    PROVE  LET g == [h EXCEPT ![e] = NewEnv(p, n)]
           IN  /\ Safe(g, s, f, K, Q) /\ e \notin Reach(g, Held(s, f, K))
               /\ g[e].parent = p /\ ~g[e].escaped
               /\ \A q \in From(g, e) : q = e \/ (p # Nil /\ q \in From(g, p))
               /\ \A x \in Held(s, f, K) \cap Places : From(g, x) = From(h, x)
<1> DEFINE g == [h EXCEPT ![e] = NewEnv(p, n)]
<1>1. HeapType(h) /\ p \in Places \cup {Nil}
  BY DEF Safe
<1>2. HeapType(g) /\ g[e] = NewEnv(p, n) /\ \A q \in Places : q # e => g[q] = h[q]
  BY <1>1 DEF HeapType, NewEnv
<1>3. g[e].parent = p /\ ~g[e].escaped
  BY <1>2 DEF NewEnv
<1> HIDE DEF g
<1>4. \A q \in Reach(h, Held(s, f, K)) : g[q].parent = h[q].parent /\ g[q].escaped = h[q].escaped
  BY <1>2, ReachHas
<1>5. Q \subseteq Places /\ Q \cap Reach(h, Held(s, f, K)) = {}
  BY DEF Safe
<1>6. /\ Safe(g, s, f, K, Q) /\ Reach(g, Held(s, f, K)) = Reach(h, Held(s, f, K))
      /\ \A x \in Held(s, f, K) \cap Places : From(g, x) = From(h, x)
  <2>1. Safe(g, s, f, K, Q) /\ Reach(g, Held(s, f, K)) = Reach(h, Held(s, f, K))
    BY ONLY Safe(h, s, f, K, P), <1>2, <1>4, <1>5, SafeTree
  <2>2. ASSUME NEW x \in Held(s, f, K) \cap Places PROVE From(g, x) = From(h, x)
    <3>1. \A q \in Reach(h, {x}) : g[q].parent = h[q].parent
      BY <1>4, HeldIn DEF From
    <3> QED BY <3>1, ReachSame DEF From
  <2> QED BY <2>1, <2>2
<1>7. \A q \in From(g, e) : q = e \/ (p # Nil /\ q \in From(g, p))
  BY <1>3, FromNext, PlaceFacts
<1> QED BY <1>3, <1>6, <1>7 DEF g

(* Holding less, or what is already reached.                                 *)
LEMMA HeldLess ==
    ASSUME NEW h, NEW s, NEW f, NEW K, NEW t, NEW f2, NEW K2,
           Held(t, f2, K2) \cap Places \subseteq Reach(h, Held(s, f, K))
    PROVE  Reach(h, Held(t, f2, K2)) \subseteq Reach(h, Held(s, f, K))
BY ReachMore

(* Activations and frames end, closures are dropped.                         *)
LEMMA SafeLess ==
    ASSUME NEW h, NEW s, NEW f, NEW K, NEW P, NEW t, NEW f2, NEW K2,
           Safe(h, s, f, K, P), K2 \subseteq K, Len(s) \in Nat, Len(t) \in 0..Len(s),
           \A i \in 1..Len(t) :
              t[i].scope = s[i].scope /\ t[i].frame = s[i].frame /\ t[i].kind = s[i].kind,
           Len(f) \in Nat, Len(f2) \in 0..Len(f), \A k \in 1..Len(f2) : f2[k].env = f[k].env
    PROVE  /\ Safe(h, t, f2, K2, P)
           /\ \A i \in 1..Len(t) : Level(t, i) = Level(s, i)
<1>1. 1..Len(t) \subseteq 1..Len(s) /\ 1..Len(f2) \subseteq 1..Len(f)
  OBVIOUS
<1>2. Held(t, f2, K2) \subseteq Held(s, f, K)
  BY <1>1 DEF Held
<1>3. Reach(h, Held(t, f2, K2)) \subseteq Reach(h, Held(s, f, K))
  BY <1>2, ReachHas, HeldLess
<1>4. \A i \in 1..Len(t) : Level(t, i) = Level(s, i)
  <2> SUFFICES ASSUME NEW i \in 1..Len(t) PROVE Level(t, i) = Level(s, i)
    OBVIOUS
  <2>1. \A j \in 1..i : j \in 1..Len(t)
    OBVIOUS
  <2>2. At(t, i, FrameKinds) = At(s, i, FrameKinds)
    BY <2>1 DEF At
  <2> QED BY <2>2 DEF Level
<1>5. EscapesUp(h, t, f2, K2)
  BY <1>3 DEF Safe, EscapesUp
<1>6. Scopes(h, t) /\ Apart(h, t)
  BY <1>1 DEF Safe, Scopes, Apart
<1>7. Answers(h, t, f2)
  BY <1>1, <1>4 DEF Safe, Answers
<1> QED BY <1>3, <1>4, <1>5, <1>6, <1>7 DEF Safe

(* A frame that has not escaped is reached only through itself or through a  *)
(* scope inside it.                                                          *)
LEMMA Unheld ==
    ASSUME NEW h, NEW s, NEW f, NEW K, NEW P, Safe(h, s, f, K, P),
           NEW e \in Places, e # Main, ~h[e].escaped,
           \A i \in 1..Len(s) : e \notin From(h, s[i].scope),
           \A k \in 1..Len(f) : f[k].env # e
    PROVE  e \notin Reach(h, Held(s, f, K))
<1> DEFINE R == Reach(h, Held(s, f, K))
<1> SUFFICES ASSUME e \in R PROVE FALSE
  OBVIOUS
<1>1. PICK x \in Held(s, f, K) \cap Places : e \in From(h, x)
  BY ReachAny
<1>2. Upward(h, R) /\ R \subseteq Places
  BY ReachHas
<1>3. \A q \in R : h[q].escaped /\ h[q].parent \in Places => h[h[q].parent].escaped
  BY DEF Safe, EscapesUp
<1>4. \A y \in Held(s, f, K) \cap Places : y \in R
  BY HeldIn
<1> HIDE DEF R
<1>5. \A y \in R : h[y].escaped => e \notin From(h, y)
  BY <1>2, <1>3, AllEscaped
<1>6. x # Main
  BY <1>1, FromNext, PlaceFacts DEF Safe, EscapesUp
<1>7. x \notin K
  BY <1>1, <1>4, <1>5 DEF Safe, EscapesUp
<1>8. ASSUME NEW i \in 1..Len(s) PROVE x # s[i].scope /\ x # s[i].frame
  <2>1. s[i].scope \in Places /\ (s[i].frame # Nil => s[i].frame \in From(h, s[i].scope))
    BY DEF Safe, Scopes
  <2>2. x = s[i].frame => From(h, x) \subseteq From(h, s[i].scope)
    BY <1>1, <2>1, FromHas, PlaceFacts
  <2> QED BY <1>1, <2>2
<1>9. ASSUME NEW k \in 1..Len(f), x = f[k].env PROVE FALSE
  <2>1. e # x /\ x # Nil
    BY <1>1, <1>9, PlaceFacts
  <2>2. h[x].parent \in Places /\ e \in From(h, h[x].parent)
    BY <1>1, <2>1, FromNext
  <2>3. h[h[x].parent].escaped
    BY <1>9, <2>1, <2>2 DEF Safe, Answers, Encloses
  <2>4. h[x].parent \in R
    BY <1>1, <1>2, <1>4, <2>2 DEF Upward
  <2> QED BY <1>5, <2>2, <2>3, <2>4
<1> QED BY <1>1, <1>6, <1>7, <1>8, <1>9 DEF Held

(* It can be recycled.                                                       *)
LEMMA SafeRecycled ==
    ASSUME NEW h, NEW s, NEW f, NEW K, NEW P, NEW e \in Places,
           Safe(h, s, f, K, P), e \notin Reach(h, Held(s, f, K))
    PROVE  LET g == [h EXCEPT ![e].parent = Nil]
           IN  Safe(g, s, f, K, P \cup {e}) /\ Reach(g, Held(s, f, K)) = Reach(h, Held(s, f, K))
<1> DEFINE g == [h EXCEPT ![e].parent = Nil]
<1>1. HeapType(h)
  BY DEF Safe
<1>2. HeapType(g) /\ \A q \in Places : q # e => g[q] = h[q]
  BY <1>1 DEF HeapType
<1> HIDE DEF g
<1>4. \A q \in Reach(h, Held(s, f, K)) : g[q].parent = h[q].parent /\ g[q].escaped = h[q].escaped
  BY <1>2, ReachHas
<1>5. P \cup {e} \subseteq Places /\ (P \cup {e}) \cap Reach(h, Held(s, f, K)) = {}
  BY DEF Safe
<1>6. Safe(g, s, f, K, P \cup {e}) /\ Reach(g, Held(s, f, K)) = Reach(h, Held(s, f, K))
  BY ONLY Safe(h, s, f, K, P), <1>2, <1>4, <1>5, SafeTree
<1> QED BY <1>6 DEF g

(* The levels of the activations that stay.                                  *)
LEMMA LevelsKept ==
    ASSUME NEW s, NEW t, NEW n \in Nat, \A i \in 1..n : t[i].kind = s[i].kind, NEW i \in 1..n
    PROVE  Level(t, i) = Level(s, i)
<1>1. \A j \in 1..i : j \in 1..n
  OBVIOUS
<1>2. At(t, i, FrameKinds) = At(s, i, FrameKinds)
  BY <1>1 DEF At
<1> QED BY <1>2 DEF Level

(* A level is a number.                                                     *)
LEMMA LevelIsNat ==
    ASSUME NEW s, NEW i \in Nat
    PROVE  Level(s, i) \in Nat
BY AtCounts DEF Level

(* One more is held, which nobody else reaches.                              *)
LEMMA ReachOneMore ==
    ASSUME NEW h, NEW S, NEW T, NEW e, NEW R \in SUBSET Places, R = Reach(h, S),
           T \cap Places \subseteq R \cup {e}, e \in Places, h[e].parent \in Places => h[e].parent \in R
    PROVE  Reach(h, T) \subseteq R \cup {e}
<1>1. Upward(h, R)
  BY ReachHas
<1>2. Upward(h, R \cup {e}) /\ R \cup {e} \in SUBSET Places
  BY <1>1 DEF Upward
<1> QED BY <1>2, ReachLeast

(* A call begins in a new environment, or a builtin where its caller is.     *)
LEMMA SafePush ==
    ASSUME NEW h, NEW s, NEW f, NEW K, NEW P, NEW t, NEW f2, NEW e \in Places \cup {Nil},
           Safe(h, s, f, K, P), Len(s) \in Nat, Len(t) = Len(s) + 1,
           \A i \in 1..Len(s) :
              t[i].scope = s[i].scope /\ t[i].frame = s[i].frame /\ t[i].kind = s[i].kind,
           t[Len(t)].frame = e, t[Len(t)].kind # "program",
           e = Nil => /\ t[Len(t)].scope \in Held(s, f, K) \cap Places
                      /\ t[Len(t)].kind \notin {"call", "direct", "module"},
           e # Nil => /\ t[Len(t)].scope = e /\ e \notin Reach(h, Held(s, f, K)) /\ e \notin P
                      /\ Encloses(h, e) /\ ~h[e].escaped
                      /\ h[e].parent = Nil \/ h[e].parent \in Held(s, f, K),
           Len(f) \in Nat, Len(f2) \in Nat, Len(f2) = 0 \/ Len(f2) = Level(t, Len(t)),
           \A k \in 1..Len(f2) : \/ f2[k].env = Nil
                                 \/ k \in 1..Len(f) /\ f2[k].env = f[k].env
                                 \/ f2[k].env = e /\ k = Len(f2)
    PROVE  Safe(h, t, f2, K, P)
<1> DEFINE R == Reach(h, Held(s, f, K))
           n == Len(s)
<1>1. \A i : i \in 1..Len(t) <=> i \in 1..n \/ i = n + 1
  OBVIOUS
<1>2. R \subseteq Places /\ \A x \in Held(s, f, K) \cap Places : x \in R /\ From(h, x) \subseteq R
  BY HeldIn, ReachHas
<1>3. /\ Main \in R /\ K \subseteq R /\ K \subseteq Held(s, f, K) /\ Main \in Held(s, f, K)
      /\ \A i \in 1..n : /\ s[i].scope \in Held(s, f, K) /\ s[i].frame \in Held(s, f, K)
                         /\ s[i].scope \in Places /\ s[i].frame \in Places \cup {Nil}
      /\ \A k \in 1..Len(f) : f[k].env \in Held(s, f, K)
  BY <1>2, HoldersHeld, PlaceFacts DEF Safe, EscapesUp, Scopes
<1>4. EscapesUp(h, s, f, K) /\ Scopes(h, s) /\ Apart(h, s) /\ Answers(h, s, f) /\ P \cap R = {}
  BY DEF Safe
<1>5. /\ t[n + 1].scope \in Places /\ t[n + 1].frame = e
      /\ e # Nil => t[n + 1].scope = e /\ e \notin R /\ e \notin P /\ e # Main
      /\ e = Nil => t[n + 1].scope \in Held(s, f, K)
  BY <1>3
<1>6. Reach(h, Held(t, f2, K)) \subseteq R \cup {e}
  <2>1. \A x \in Held(t, f2, K) : x \in Held(s, f, K) \/ x = e \/ x = Nil
    <3>1. ASSUME NEW i \in 1..Len(t)
          PROVE  /\ t[i].scope \in Held(s, f, K) \/ t[i].scope = e
                 /\ t[i].frame \in Held(s, f, K) \/ t[i].frame = e
      BY <1>1, <1>3, <1>5
    <3>2. ASSUME NEW k \in 1..Len(f2)
          PROVE  f2[k].env \in Held(s, f, K) \/ f2[k].env = e \/ f2[k].env = Nil
      BY <1>3
    <3>3. \A x \in Held(t, f2, K) :
             \/ x = Main \/ x \in K \/ \E i \in 1..Len(t) : x = t[i].scope \/ x = t[i].frame
             \/ \E k \in 1..Len(f2) : x = f2[k].env
      BY DEF Held
    <3> QED BY <1>3, <3>1, <3>2, <3>3
  <2>2. \A x \in Held(t, f2, K) \cap Places : x \in R \/ x = e
    BY <1>2, <2>1, PlaceFacts
  <2>3. CASE e = Nil
    <3>1. Held(t, f2, K) \cap Places \subseteq R
      BY <2>2, <2>3, PlaceFacts
    <3> QED BY <3>1, HeldLess
  <2>4. CASE e # Nil
    <3>1. e \in Places /\ (h[e].parent = Nil \/ h[e].parent \in Held(s, f, K))
      BY <2>4
    <3>2. h[e].parent \in Places => h[e].parent \in R
      BY <1>2, <3>1, PlaceFacts
    <3>3. /\ R \in SUBSET Places /\ R = Reach(h, Held(s, f, K))
          /\ Held(t, f2, K) \cap Places \subseteq R \cup {e}
      BY <1>2, <2>2
    <3> HIDE DEF R
    <3> QED BY ONLY <3>1, <3>2, <3>3, ReachOneMore
  <2> QED BY <2>3, <2>4
<1>7. P \cap Reach(h, Held(t, f2, K)) = {}
  <2>1. Nil \notin P
    BY PlaceFacts DEF Safe
  <2> QED BY <1>4, <1>5, <1>6, <2>1
<1>8. EscapesUp(h, t, f2, K)
  <2>1. \A x \in Reach(h, Held(t, f2, K)) : x \in R \/ ~h[x].escaped
    BY <1>6, ReachHas, PlaceFacts
  <2> QED BY <1>4, <2>1 DEF EscapesUp
<1>9. Scopes(h, t)
  <2>1. e # Nil => e \in From(h, e)
    BY FromHas
  <2> SUFFICES ASSUME NEW i \in 1..Len(t)
               PROVE  /\ t[i].scope \in Places /\ t[i].frame \in Places \cup {Nil}
                      /\ t[i].frame # Nil => t[i].frame \in From(h, t[i].scope) /\ Encloses(h, t[i].frame)
                      /\ t[i].kind \in {"program", "call", "direct", "module"} => t[i].frame # Nil
    BY DEF Scopes
  <2>2. CASE i \in 1..n
    BY <1>4, <2>2 DEF Scopes
  <2>3. CASE i = n + 1
    BY <1>5, <2>1, <2>3
  <2> QED BY <1>1, <2>2, <2>3
<1>10. \A i \in 1..n : e # Nil => e \notin From(h, t[i].scope) /\ e # t[i].frame
  BY <1>2, <1>3, <1>5
<1>11. Apart(h, t)
  <2> SUFFICES ASSUME NEW j \in 1..Len(t), t[j].frame # Nil /\ t[j].kind # "program"
               PROVE  /\ t[j].frame # Main
                      /\ \A i \in 1..Len(t) : i < j => t[j].frame \notin From(h, t[i].scope)
    BY DEF Apart
  <2>1. CASE j \in 1..n
    <3>1. \A i \in 1..Len(t) : i < j => i \in 1..n
      BY <2>1
    <3>2. s[j].frame # Main /\ \A i \in 1..n : i < j => s[j].frame \notin From(h, s[i].scope)
      BY <1>4, <2>1 DEF Apart
    <3> QED BY <2>1, <3>1, <3>2
  <2>2. CASE j = n + 1
    <3>1. \A i \in 1..Len(t) : i < j => i \in 1..n
      BY <2>2
    <3> QED BY <1>5, <1>10, <2>2, <3>1
  <2> QED BY <1>1, <2>1, <2>2
<1>12. Answers(h, t, f2)
  <2>1. /\ \A i \in 1..n : Level(t, i) = Level(s, i)
        /\ Level(t, n + 1) \in Nat
    <3>1. n \in Nat /\ \A i \in 1..n : t[i].kind = s[i].kind
      OBVIOUS
    <3> HIDE DEF n
    <3>2. ASSUME NEW i \in 1..n PROVE Level(t, i) = Level(s, i)
      BY ONLY <3>1, <3>2, LevelsKept
    <3>3. n + 1 \in Nat
      BY <3>1
    <3>4. Level(t, n + 1) \in Nat
      BY ONLY <3>3, LevelIsNat
    <3> QED BY <3>2, <3>4
  <2> SUFFICES ASSUME NEW k \in 1..Len(f2), f2[k].env # Nil
               PROVE  /\ f2[k].env \in Places \ {Main} /\ Encloses(h, f2[k].env)
                      /\ \A l \in 1..Len(f2) : f2[l].env = f2[k].env => l = k
                      /\ \A i \in 1..Len(t) :
                            /\ f2[k].env \in From(h, t[i].scope) => k <= Level(t, i)
                            /\ f2[k].env = t[i].frame => Level(t, i) <= k
    BY DEF Answers
  <2>2. Len(f2) = Level(t, n + 1) /\ k <= Level(t, n + 1)
    OBVIOUS
  <2>3. \A l \in 1..Len(f2) : f2[l].env # Nil =>
           \/ f2[l].env = e /\ e # Nil /\ l = Len(f2)
           \/ l \in 1..Len(f) /\ f2[l].env = f[l].env /\ f2[l].env \in Places /\ f2[l].env # e
    <3> SUFFICES ASSUME NEW l \in 1..Len(f2), f2[l].env # Nil
                 PROVE  \/ f2[l].env = e /\ e # Nil /\ l = Len(f2)
                        \/ l \in 1..Len(f) /\ f2[l].env = f[l].env /\ f2[l].env \in Places /\ f2[l].env # e
      OBVIOUS
    <3>1. CASE l \in 1..Len(f) /\ f2[l].env = f[l].env
      <4>1. f[l].env \in Places
        BY <1>4, <3>1 DEF Answers
      <4>2. f[l].env \in R
        BY <1>2, <1>3, <3>1, <4>1
      <4> QED BY <1>5, <3>1, <4>1, <4>2, PlaceFacts
    <3>2. CASE f2[l].env = e /\ l = Len(f2)
      BY <3>2
    <3> QED BY <3>1, <3>2
  <2>4. CASE f2[k].env = e /\ k = Len(f2)
    <3>1. \A l \in 1..Len(f2) : f2[l].env = f2[k].env => l = k
      BY <2>3, <2>4
    <3>2. \A i \in 1..Len(t) : /\ e \in From(h, t[i].scope) => k <= Level(t, i)
                               /\ e = t[i].frame => Level(t, i) <= k
      <4> SUFFICES ASSUME NEW i \in 1..Len(t)
                   PROVE  /\ e \in From(h, t[i].scope) => k <= Level(t, i)
                          /\ e = t[i].frame => Level(t, i) <= k
        OBVIOUS
      <4>1. CASE i \in 1..n
        BY <1>10, <2>4, <4>1
      <4>2. CASE i = n + 1
        BY <2>1, <2>2, <2>4, <4>2
      <4> QED BY <1>1, <4>1, <4>2
    <3>3. e \in Places \ {Main} /\ Encloses(h, e)
      BY <1>5, <2>4
    <3> QED BY <2>4, <3>1, <3>2, <3>3
  <2>5. CASE k \in 1..Len(f) /\ f2[k].env = f[k].env /\ f2[k].env # e
    <3>1. /\ f[k].env \in Places \ {Main} /\ Encloses(h, f[k].env)
          /\ \A l \in 1..Len(f) : f[l].env = f[k].env => l = k
          /\ \A i \in 1..n : /\ f[k].env \in From(h, s[i].scope) => k <= Level(s, i)
                             /\ f[k].env = s[i].frame => Level(s, i) <= k
      BY <1>4, <2>5 DEF Answers
    <3>2. \A l \in 1..Len(f2) : f2[l].env = f2[k].env => l = k
      BY <2>3, <2>5, <3>1
    <3>3. \A i \in 1..Len(t) : /\ f[k].env \in From(h, t[i].scope) => k <= Level(t, i)
                               /\ f[k].env = t[i].frame => Level(t, i) <= k
      <4> SUFFICES ASSUME NEW i \in 1..Len(t)
                   PROVE  /\ f[k].env \in From(h, t[i].scope) => k <= Level(t, i)
                          /\ f[k].env = t[i].frame => Level(t, i) <= k
        OBVIOUS
      <4>1. CASE i \in 1..n
        BY <2>1, <3>1, <4>1
      <4>2. CASE i = n + 1
        BY <2>2, <2>5, <4>2
      <4> QED BY <1>1, <4>1, <4>2
    <3> QED BY <2>5, <3>1, <3>2, <3>3
  <2> QED BY <2>3, <2>4, <2>5
<1> QED BY <1>4, <1>7, <1>8, <1>9, <1>11, <1>12 DEF Safe

(* The innermost activation enters a block, or leaves one.                   *)
LEMMA SafeScope ==
    ASSUME NEW h, NEW s, NEW f, NEW K, NEW P, NEW t, NEW x \in Places,
           Safe(h, s, f, K, P), Len(s) \in Nat \ {0}, Len(t) = Len(s),
           \A i \in 1..Len(s) : /\ t[i].frame = s[i].frame /\ t[i].kind = s[i].kind
                                /\ i # Len(s) => t[i].scope = s[i].scope,
           t[Len(s)].scope = x, s[Len(s)].frame # Nil => s[Len(s)].frame \in From(h, x),
           \/ x \in Reach(h, Held(s, f, K))
           \/ x \notin P /\ ~h[x].escaped /\ h[x].parent \in Held(s, f, K),
           Len(f) \in Nat, Len(f) = 0 \/ Len(f) = Level(s, Len(s))
    PROVE  Safe(h, t, f, K, P)
<1> DEFINE R == Reach(h, Held(s, f, K))
           n == Len(s)
<1>2. R \subseteq Places /\ \A y \in Held(s, f, K) \cap Places : y \in R /\ From(h, y) \subseteq R
  BY HeldIn, ReachHas
<1>3. EscapesUp(h, s, f, K) /\ Scopes(h, s) /\ Apart(h, s) /\ Answers(h, s, f) /\ P \cap R = {}
  BY DEF Safe
<1>4. Reach(h, Held(t, f, K)) \subseteq R \cup {x}
  <2>1. \A y \in Held(t, f, K) : y \in Held(s, f, K) \/ y = x
    BY DEF Held
  <2>2. Held(t, f, K) \cap Places \subseteq R \cup {x}
    BY <1>2, <2>1
  <2>3. CASE x \in R
    <3>1. Held(t, f, K) \cap Places \subseteq R
      BY <2>2, <2>3
    <3> QED BY <3>1, HeldLess
  <2>4. CASE h[x].parent \in Held(s, f, K)
    <3>1. h[x].parent \in Places => h[x].parent \in R
      BY <1>2, <2>4
    <3>2. R \in SUBSET Places /\ R = Reach(h, Held(s, f, K)) /\ x \in Places
      BY <1>2
    <3> HIDE DEF R
    <3> QED BY ONLY <2>2, <3>1, <3>2, ReachOneMore
  <2> QED BY <2>3, <2>4
<1>5. P \cap Reach(h, Held(t, f, K)) = {}
  BY <1>3, <1>4
<1>6. EscapesUp(h, t, f, K)
  <2>1. \A y \in Reach(h, Held(t, f, K)) : y \in R \/ ~h[y].escaped
    BY <1>4
  <2> QED BY <1>3, <2>1 DEF EscapesUp
<1>7. Scopes(h, t)
  BY <1>3 DEF Scopes
<1>8. Apart(h, t)
  <2> SUFFICES ASSUME NEW j \in 1..Len(t), t[j].frame # Nil /\ t[j].kind # "program",
                      NEW i \in 1..Len(t), i < j
               PROVE  t[j].frame # Main /\ t[j].frame \notin From(h, t[i].scope)
    BY <1>3 DEF Apart
  <2>1. i # n
    OBVIOUS
  <2> QED BY <1>3, <2>1 DEF Apart
<1>9. Answers(h, t, f)
  <2>1. ASSUME NEW i \in 1..n PROVE Level(t, i) = Level(s, i)
    <3>1. n \in Nat /\ \A j \in 1..n : t[j].kind = s[j].kind
      OBVIOUS
    <3> HIDE DEF n
    <3> QED BY ONLY <2>1, <3>1, LevelsKept
  <2> SUFFICES ASSUME NEW k \in 1..Len(f), f[k].env # Nil
               PROVE  /\ f[k].env \in Places \ {Main} /\ Encloses(h, f[k].env)
                      /\ \A l \in 1..Len(f) : f[l].env = f[k].env => l = k
                      /\ \A i \in 1..Len(t) :
                            /\ f[k].env \in From(h, t[i].scope) => k <= Level(t, i)
                            /\ f[k].env = t[i].frame => Level(t, i) <= k
    BY DEF Answers
  <2>2. /\ f[k].env \in Places \ {Main} /\ Encloses(h, f[k].env)
        /\ \A l \in 1..Len(f) : f[l].env = f[k].env => l = k
        /\ \A i \in 1..n : /\ f[k].env \in From(h, s[i].scope) => k <= Level(s, i)
                           /\ f[k].env = s[i].frame => Level(s, i) <= k
    BY <1>3 DEF Answers
  <2>3. k <= Level(s, n)
    OBVIOUS
  <2>4. \A i \in 1..n : /\ f[k].env \in From(h, t[i].scope) => k <= Level(t, i)
                        /\ f[k].env = t[i].frame => Level(t, i) <= k
    BY <2>1, <2>2, <2>3
  <2> QED BY <2>2, <2>4
<1> QED BY <1>3, <1>5, <1>6, <1>7, <1>8, <1>9 DEF Safe

(* A closure or stream is made at x: it and all around it escape.            *)
LEMMA SafeEscape ==
    ASSUME NEW h, NEW s, NEW f, NEW K, NEW P, NEW g, NEW E, NEW x \in Held(s, f, K) \cap Places,
           NEW K2, Safe(h, s, f, K, P), HeapType(g), K2 \subseteq K \cup {x},
           \A e \in Places : g[e].parent = h[e].parent /\ (g[e].escaped <=> h[e].escaped \/ e \in E),
           x \in E \/ h[x].escaped,
           \A e \in E : h[e].parent \in Places => h[e].parent \in E \/ h[h[e].parent].escaped
    PROVE  Safe(g, s, f, K2, P)
<1> DEFINE R == Reach(h, Held(s, f, K))
<1>1. R \subseteq Places /\ \A y \in Held(s, f, K) \cap Places : y \in R /\ From(h, y) \subseteq R
  BY HeldIn, ReachHas
<1>2. EscapesUp(h, s, f, K) /\ Scopes(h, s) /\ Apart(h, s) /\ Answers(h, s, f) /\ P \cap R = {}
  BY DEF Safe
<1>3. ASSUME NEW S PROVE Reach(g, S) = Reach(h, S)
  BY ReachSame, ReachHas
<1>4. \A y : From(g, y) = From(h, y)
  BY <1>3 DEF From
<1>5. \A e \in Places : Encloses(h, e) => Encloses(g, e)
  BY DEF Encloses
<1>6. Reach(g, Held(s, f, K2)) \subseteq R
  <2>1. Held(s, f, K2) \subseteq Held(s, f, K)
    <3>1. K \subseteq Held(s, f, K)
      BY HoldersHeld
    <3>2. \A y \in Held(s, f, K2) : y \in Held(s, f, K) \/ y \in K2
      BY DEF Held
    <3> QED BY <3>1, <3>2
  <2>2. Held(s, f, K2) \cap Places \subseteq R
    BY <1>1, <2>1
  <2>3. Reach(h, Held(s, f, K2)) \subseteq R
    BY <2>2, HeldLess
  <2> QED BY <1>3, <2>3
<1>7. EscapesUp(g, s, f, K2)
  <2>1. \A e \in R : g[e].escaped /\ g[e].parent \in Places => g[g[e].parent].escaped
    <3> SUFFICES ASSUME NEW e \in R, g[e].escaped, g[e].parent \in Places
                 PROVE  g[g[e].parent].escaped
      OBVIOUS
    <3>1. e \in Places /\ g[e].parent = h[e].parent /\ (h[e].escaped \/ e \in E)
      BY <1>1
    <3>2. h[e].parent \in E \/ h[h[e].parent].escaped
      BY <1>2, <3>1 DEF EscapesUp
    <3> QED BY <3>1, <3>2
  <2>2. K2 \subseteq Places /\ \A e \in K2 : g[e].escaped
    BY <1>2 DEF EscapesUp
  <2> QED BY <1>2, <1>6, <2>1, <2>2, PlaceFacts DEF EscapesUp
<1>8. Scopes(g, s)
  BY <1>2, <1>4, <1>5, PlaceFacts DEF Scopes
<1>9. Apart(g, s)
  BY <1>2, <1>4 DEF Apart
<1>10. Answers(g, s, f)
  BY <1>2, <1>4, <1>5 DEF Answers
<1> QED BY <1>2, <1>6, <1>7, <1>8, <1>9, <1>10 DEF Safe

-----------------------------------------------------------------------------
(* The pool p as a set of environments.                                      *)

PoolType(p) == p \in [Buckets -> Seq(Places)]

PooledIn(p) == {e \in Places : \E b \in Buckets : \E i \in 1..Len(p[b]) : p[b][i] = e}

Once(p) ==
    \A b, c \in Buckets : \A i \in 1..Len(p[b]), j \in 1..Len(p[c]) :
        p[b][i] = p[c][j] => b = c /\ i = j

(* The spots of the pool as places of its buckets.                          *)
LEMMA SpotsAre ==
    ASSUME PoolType(pool)
    PROVE  /\ \A b \in Buckets : Len(pool[b]) \in Nat /\ \A i \in 1..Len(pool[b]) :
                 <<b, i>> \in Spots /\ InSpot(<<b, i>>) = pool[b][i] /\ pool[b][i] \in Places
           /\ \A g \in Spots : \E b \in Buckets : \E i \in 1..Len(pool[b]) : g = <<b, i>>
           /\ Pooled = PooledIn(pool)
           /\ Once(pool) <=> \A f, g \in Spots : InSpot(f) = InSpot(g) => f = g
<1>1. \A b \in Buckets : pool[b] \in Seq(Places)
  BY DEF PoolType
<1>2. \A b \in Buckets : /\ Len(pool[b]) \in Nat /\ DOMAIN pool[b] = 1..Len(pool[b])
                         /\ \A i \in 1..Len(pool[b]) : pool[b][i] \in Places
  BY <1>1, LenProperties, ElementOfSeq
<1>3. \A b \in Buckets : \A i \in 1..Len(pool[b]) :
         <<b, i>> \in Spots /\ InSpot(<<b, i>>) = pool[b][i] /\ pool[b][i] \in Places
  <2> SUFFICES ASSUME NEW b \in Buckets, NEW i \in 1..Len(pool[b])
               PROVE  <<b, i>> \in Spots /\ InSpot(<<b, i>>) = pool[b][i] /\ pool[b][i] \in Places
    OBVIOUS
  <2>1. <<b, i>> \in {b} \X DOMAIN pool[b]
    BY <1>2
  <2> QED BY <1>2, <2>1 DEF Spots, InSpot
<1>4. \A g \in Spots : \E b \in Buckets : \E i \in 1..Len(pool[b]) : g = <<b, i>>
  BY <1>2 DEF Spots
<1>5. Pooled = PooledIn(pool)
  <2>1. \A e : e \in Pooled => e \in PooledIn(pool)
    <3> SUFFICES ASSUME NEW g \in Spots PROVE InSpot(g) \in PooledIn(pool)
      BY DEF Pooled
    <3>1a. PICK b \in Buckets : \E i \in 1..Len(pool[b]) : g = <<b, i>>
      BY <1>4
    <3>1. PICK i \in 1..Len(pool[b]) : g = <<b, i>>
      BY <3>1a
    <3> QED BY <1>3, <3>1 DEF PooledIn
  <2>2. \A e : e \in PooledIn(pool) => e \in Pooled
    <3> SUFFICES ASSUME NEW e \in PooledIn(pool) PROVE e \in Pooled
      OBVIOUS
    <3>1a. PICK b \in Buckets : \E i \in 1..Len(pool[b]) : pool[b][i] = e
      BY DEF PooledIn
    <3>1. PICK i \in 1..Len(pool[b]) : pool[b][i] = e
      BY <3>1a
    <3> QED BY <1>3, <3>1 DEF Pooled
  <2> QED BY <2>1, <2>2
<1>6. ASSUME Once(pool), NEW f \in Spots, NEW g \in Spots, InSpot(f) = InSpot(g) PROVE f = g
  <2>1a. PICK b \in Buckets : \E i \in 1..Len(pool[b]) : f = <<b, i>>
    BY <1>4
  <2>1. PICK i \in 1..Len(pool[b]) : f = <<b, i>>
    BY <2>1a
  <2>2a. PICK c \in Buckets : \E j \in 1..Len(pool[c]) : g = <<c, j>>
    BY <1>4
  <2>2. PICK j \in 1..Len(pool[c]) : g = <<c, j>>
    BY <2>2a
  <2>3. pool[b][i] = pool[c][j]
    BY <1>3, <1>6, <2>1, <2>2
  <2> QED BY <1>6, <2>1, <2>2, <2>3 DEF Once
<1>7. ASSUME \A f, g \in Spots : InSpot(f) = InSpot(g) => f = g PROVE Once(pool)
  <2> SUFFICES ASSUME NEW b \in Buckets, NEW c \in Buckets, NEW i \in 1..Len(pool[b]),
                      NEW j \in 1..Len(pool[c]), pool[b][i] = pool[c][j]
               PROVE  b = c /\ i = j
    BY DEF Once
  <2>0. /\ <<b, i>> \in Spots /\ <<c, j>> \in Spots
        /\ InSpot(<<b, i>>) = pool[b][i] /\ InSpot(<<c, j>>) = pool[c][j]
    BY <1>3
  <2>1. <<b, i>> = <<c, j>>
    BY <1>7, <2>0
  <2> QED BY <2>1
<1> QED BY <1>2, <1>3, <1>4, <1>5, <1>6, <1>7

(* What RemoveAt leaves of a sequence.                                      *)
LEMMA RemoveAtIs ==
    ASSUME NEW S, NEW s \in Seq(S), NEW i \in 1..Len(s)
    PROVE  /\ RemoveAt(s, i) \in Seq(S) /\ Len(RemoveAt(s, i)) = Len(s) - 1 /\ Len(s) \in Nat \ {0}
           /\ \A k \in 1..Len(s) - 1 : RemoveAt(s, i)[k] = IF k < i THEN s[k] ELSE s[k + 1]
<1> DEFINE a == SubSeq(s, 1, i - 1)
           c == SubSeq(s, i + 1, Len(s))
           n == Len(s)
<1>1. n \in Nat \ {0} /\ i \in 1..n /\ \A k \in 1..n : s[k] \in S
  BY LenProperties, ElementOfSeq
<1>2. a \in Seq(S) /\ Len(a) = i - 1 /\ \A k \in 1..(i - 1) : a[k] = s[k]
  <2>1. \A k \in 1..(i - 1) : s[k] \in S
    BY <1>1
  <2>2. i - 1 \in Int /\ 1 \in Int
    BY <1>1
  <2>3. /\ a \in Seq(S) /\ Len(a) = IF 1 <= i - 1 THEN (i - 1) - 1 + 1 ELSE 0
        /\ \A k \in 1..(i - 1) - 1 + 1 : a[k] = s[1 + k - 1]
    BY <2>1, <2>2, SubSeqProperties
  <2> DEFINE l == Len(a)
  <2>4. l = IF 1 <= i - 1 THEN (i - 1) - 1 + 1 ELSE 0
    BY <2>3
  <2> HIDE DEF l
  <2>5. l = i - 1
    BY <1>1, <2>4
  <2>6. \A k \in 1..(i - 1) : k \in 1..(i - 1) - 1 + 1 /\ 1 + k - 1 = k
    BY <1>1
  <2> QED BY <2>3, <2>5, <2>6 DEF l
<1>3. c \in Seq(S) /\ Len(c) = n - i /\ \A k \in 1..(n - i) : c[k] = s[i + k]
  <2>1. \A k \in (i + 1)..n : s[k] \in S
    BY <1>1
  <2>2. i + 1 \in Int /\ n \in Int
    BY <1>1
  <2>3. /\ c \in Seq(S) /\ Len(c) = IF i + 1 <= n THEN n - (i + 1) + 1 ELSE 0
        /\ \A k \in 1..n - (i + 1) + 1 : c[k] = s[i + 1 + k - 1]
    BY <2>1, <2>2, SubSeqProperties
  <2> DEFINE l == Len(c)
  <2>4. l = IF i + 1 <= n THEN n - (i + 1) + 1 ELSE 0
    BY <2>3
  <2> HIDE DEF l, n
  <2>5. l = n - i
    BY <1>1, <2>4
  <2>6. \A k \in 1..(n - i) : k \in 1..n - (i + 1) + 1 /\ i + 1 + k - 1 = i + k
    BY <1>1
  <2> QED BY <2>3, <2>5, <2>6 DEF l
<1>4. RemoveAt(s, i) = a \o c
  BY DEF RemoveAt
<1> HIDE DEF a, c, n
<1>5. /\ a \o c \in Seq(S) /\ Len(a \o c) = n - 1
      /\ \A k \in 1..n - 1 : (a \o c)[k] = IF k < i THEN a[k] ELSE c[k - (i - 1)]
  <2>1. /\ a \o c \in Seq(S) /\ Len(a \o c) = Len(a) + Len(c)
        /\ \A k \in 1..Len(a) + Len(c) : (a \o c)[k] = IF k <= Len(a) THEN a[k] ELSE c[k - Len(a)]
    BY <1>2, <1>3, ConcatProperties
  <2>2. Len(a) + Len(c) = n - 1
    BY <1>1, <1>2, <1>3
  <2>3. \A k \in 1..n - 1 : (k <= i - 1 <=> k < i)
    BY <1>1
  <2> QED BY <1>2, <2>1, <2>2, <2>3
<1>6. \A k \in 1..n - 1 : (a \o c)[k] = IF k < i THEN s[k] ELSE s[k + 1]
  <2> SUFFICES ASSUME NEW k \in 1..n - 1 PROVE (a \o c)[k] = IF k < i THEN s[k] ELSE s[k + 1]
    OBVIOUS
  <2>1. CASE k < i
    <3>1. k \in 1..(i - 1)
      BY <1>1, <2>1
    <3> QED BY <1>2, <1>5, <2>1, <3>1
  <2>2. CASE ~(k < i)
    <3>1. k - (i - 1) \in 1..(n - i) /\ i + (k - (i - 1)) = k + 1
      BY <1>1, <2>2
    <3>2. c[k - (i - 1)] = s[i + (k - (i - 1))]
      BY <1>3, <3>1
    <3> QED BY <1>5, <2>2, <3>1, <3>2
  <2> QED BY <2>1, <2>2
<1> QED BY <1>1, <1>4, <1>5, <1>6 DEF n

(* Taking one out of the pool leaves all others, each once.                 *)
LEMMA TakeOut ==
    ASSUME NEW p, PoolType(p), Once(p), NEW b \in Buckets, NEW i \in 1..Len(p[b])
    PROVE  LET q == [p EXCEPT ![b] = RemoveAt(@, i)]
           IN  /\ PoolType(q) /\ Once(q) /\ p[b][i] \in PooledIn(p)
               /\ PooledIn(q) = PooledIn(p) \ {p[b][i]}
<1> DEFINE q == [p EXCEPT ![b] = RemoveAt(@, i)]
           r == RemoveAt(p[b], i)
           n == Len(p[b])
           back(c, k) == IF c = b /\ i <= k THEN k + 1 ELSE k
<1>1. p[b] \in Seq(Places) /\ \A c \in Buckets : p[c] \in Seq(Places)
  BY DEF PoolType
<1>2. /\ r \in Seq(Places) /\ Len(r) = n - 1 /\ n \in Nat \ {0} /\ i \in 1..n
      /\ \A k \in 1..n - 1 : r[k] = IF k < i THEN p[b][k] ELSE p[b][k + 1]
  BY <1>1, RemoveAtIs
<1>3. PoolType(q) /\ q[b] = r /\ \A c \in Buckets : c # b => q[c] = p[c]
  BY <1>2 DEF PoolType
<1>4. \A c \in Buckets : Len(p[c]) \in Nat /\ \A k \in 1..Len(p[c]) : p[c][k] \in Places
  BY <1>1, LenProperties, ElementOfSeq
<1> HIDE DEF q, r, n, back
<1>5. ASSUME NEW c \in Buckets, NEW k \in 1..Len(q[c])
      PROVE  /\ back(c, k) \in 1..Len(p[c]) /\ q[c][k] = p[c][back(c, k)]
             /\ ~(c = b /\ back(c, k) = i) /\ k \in Nat
  <2>1. CASE c = b
    <3>1. k \in 1..n - 1 /\ n \in Nat
      BY <1>2, <1>3, <2>1
    <3> QED BY <1>2, <1>3, <2>1, <3>1 DEF back, n
  <2>2. CASE c # b
    BY <1>3, <1>4, <2>2 DEF back
  <2> QED BY <2>1, <2>2
<1>6. Once(q)
  <2> SUFFICES ASSUME NEW c \in Buckets, NEW d \in Buckets, NEW k \in 1..Len(q[c]),
                      NEW l \in 1..Len(q[d]), q[c][k] = q[d][l]
               PROVE  c = d /\ k = l
    BY DEF Once
  <2>0. /\ back(c, k) \in 1..Len(p[c]) /\ back(d, l) \in 1..Len(p[d])
        /\ p[c][back(c, k)] = p[d][back(d, l)]
    BY <1>5
  <2>1. c = d /\ back(c, k) = back(d, l)
    BY <2>0 DEF Once
  <2>2. k \in Nat /\ l \in Nat /\ i \in Nat
    BY <1>2, <1>5
  <2> QED BY <2>1, <2>2 DEF back
<1>7. \A e \in PooledIn(q) : e \in PooledIn(p) /\ e # p[b][i]
  <2> SUFFICES ASSUME NEW e \in PooledIn(q) PROVE e \in PooledIn(p) /\ e # p[b][i]
    OBVIOUS
  <2>1a. PICK c \in Buckets : \E k \in 1..Len(q[c]) : q[c][k] = e
    BY DEF PooledIn
  <2>1. PICK k \in 1..Len(q[c]) : q[c][k] = e
    BY <2>1a
  <2>2. back(c, k) \in 1..Len(p[c]) /\ e = p[c][back(c, k)] /\ ~(c = b /\ back(c, k) = i)
    BY <1>5, <2>1
  <2>3. e # p[b][i]
    BY <2>2 DEF Once
  <2> QED BY <2>2, <2>3 DEF PooledIn
<1>8. \A e \in PooledIn(p) : e # p[b][i] => e \in PooledIn(q)
  <2> SUFFICES ASSUME NEW e \in PooledIn(p), e # p[b][i] PROVE e \in PooledIn(q)
    OBVIOUS
  <2>1a. PICK c \in Buckets : \E k \in 1..Len(p[c]) : p[c][k] = e
    BY DEF PooledIn
  <2>1. PICK k \in 1..Len(p[c]) : p[c][k] = e
    BY <2>1a
  <2>2. e \in Places
    BY DEF PooledIn
  <2>3. CASE c # b
    BY <1>3, <2>1, <2>2, <2>3 DEF PooledIn
  <2>4. CASE c = b /\ k < i
    <3>1. k \in 1..n - 1
      BY <1>2, <2>1, <2>4 DEF n
    <3> QED BY <1>2, <1>3, <2>1, <2>2, <2>4, <3>1 DEF PooledIn
  <2>5. CASE c = b /\ k > i
    <3>1. k - 1 \in 1..n - 1 /\ ~(k - 1 < i) /\ (k - 1) + 1 = k
      BY <1>2, <2>1, <2>5 DEF n
    <3>2. q[b][k - 1] = e
      BY <1>2, <1>3, <2>1, <2>5, <3>1
    <3> QED BY <1>2, <1>3, <2>2, <3>1, <3>2 DEF PooledIn
  <2>6. k \in Nat /\ i \in Nat
    BY <1>2, <1>4, <2>1
  <2> QED BY <2>1, <2>3, <2>4, <2>5, <2>6
<1>9. p[b][i] \in PooledIn(p)
  BY <1>4 DEF PooledIn
<1> QED BY <1>3, <1>6, <1>7, <1>8, <1>9 DEF q

(* Putting one in that is not there keeps each once.                        *)
LEMMA PutIn ==
    ASSUME NEW p, PoolType(p), Once(p), NEW b \in Buckets, NEW e \in Places, e \notin PooledIn(p)
    PROVE  LET q == [p EXCEPT ![b] = <<e>> \o @]
           IN  PoolType(q) /\ Once(q) /\ PooledIn(q) = PooledIn(p) \cup {e}
<1> DEFINE q == [p EXCEPT ![b] = <<e>> \o @]
           r == <<e>> \o p[b]
           n == Len(p[b])
<1>1. p[b] \in Seq(Places) /\ \A c \in Buckets : p[c] \in Seq(Places)
  BY DEF PoolType
<1>2. \A c \in Buckets : Len(p[c]) \in Nat /\ \A k \in 1..Len(p[c]) : p[c][k] \in Places
  BY <1>1, LenProperties, ElementOfSeq
<1>3. r \in Seq(Places) /\ Len(r) = n + 1 /\ \A k \in 1..n + 1 : r[k] = IF k = 1 THEN e ELSE p[b][k - 1]
  <2>1. <<e>> \in Seq(Places) /\ Len(<<e>>) = 1 /\ <<e>>[1] = e
    OBVIOUS
  <2>2. /\ r \in Seq(Places) /\ Len(r) = 1 + n
        /\ \A k \in 1..1 + n : r[k] = IF k <= 1 THEN <<e>>[k] ELSE p[b][k - 1]
    BY <1>1, <2>1, ConcatProperties
  <2>3. n \in Nat /\ \A k \in 1..n + 1 : (k <= 1 <=> k = 1)
    BY <1>2
  <2> HIDE DEF r, n
  <2>4. 1 + n = n + 1
    BY <2>3
  <2> QED BY <2>1, <2>2, <2>3, <2>4
<1>4. PoolType(q) /\ q[b] = r /\ \A c \in Buckets : c # b => q[c] = p[c]
  BY <1>3 DEF PoolType
<1> HIDE DEF q, r
<1>5. ASSUME NEW c \in Buckets, NEW k \in 1..Len(q[c])
      PROVE  \/ c = b /\ k = 1 /\ q[c][k] = e
             \/ ~(c = b /\ k = 1) /\ q[c][k] # e /\
                \E l \in 1..Len(p[c]) : q[c][k] = p[c][l] /\ l = IF c = b THEN k - 1 ELSE k
  <2>1. \A l \in 1..Len(p[c]) : p[c][l] # e
    BY DEF PooledIn
  <2>2. CASE c = b /\ k = 1
    BY <1>3, <1>4, <2>2, <1>2
  <2>3. CASE c = b /\ k # 1
    <3>1. k - 1 \in 1..Len(p[c]) /\ k \in 1..n + 1
      BY <1>2, <1>3, <1>4, <2>3
    <3>2. q[c][k] = p[c][k - 1]
      BY <1>3, <1>4, <2>3, <3>1
    <3> QED BY <2>1, <2>3, <3>1, <3>2
  <2>4. CASE c # b
    BY <1>4, <2>1, <2>4
  <2> QED BY <2>2, <2>3, <2>4
<1>6. Once(q)
  <2> SUFFICES ASSUME NEW c \in Buckets, NEW d \in Buckets, NEW k \in 1..Len(q[c]),
                      NEW l \in 1..Len(q[d]), q[c][k] = q[d][l]
               PROVE  c = d /\ k = l
    BY DEF Once
  <2>0. Len(q[c]) \in Nat /\ Len(q[d]) \in Nat /\ k \in Nat /\ l \in Nat
    BY <1>2, <1>3, <1>4
  <2>1. CASE q[c][k] = e
    BY <1>5, <2>1
  <2>2. CASE q[c][k] # e
    <3>1. PICK x \in 1..Len(p[c]) : q[c][k] = p[c][x] /\ x = IF c = b THEN k - 1 ELSE k
      BY <1>5, <2>2
    <3>2. PICK y \in 1..Len(p[d]) : q[d][l] = p[d][y] /\ y = IF d = b THEN l - 1 ELSE l
      BY <1>5, <2>2
    <3>3. p[c][x] = p[d][y]
      BY <3>1, <3>2
    <3>4. c = d /\ x = y
      BY <3>3 DEF Once
    <3> QED BY <2>0, <3>1, <3>2, <3>4
  <2> QED BY <2>1, <2>2
<1>7. \A x \in PooledIn(q) : x \in PooledIn(p) \cup {e}
  <2> SUFFICES ASSUME NEW x \in PooledIn(q), x # e PROVE x \in PooledIn(p)
    OBVIOUS
  <2>1a. PICK c \in Buckets : \E k \in 1..Len(q[c]) : q[c][k] = x
    BY DEF PooledIn
  <2>1. PICK k \in 1..Len(q[c]) : q[c][k] = x
    BY <2>1a
  <2>2. PICK l \in 1..Len(p[c]) : x = p[c][l]
    BY <1>5, <2>1
  <2> QED BY <2>2 DEF PooledIn
<1>8. e \in PooledIn(q)
  <2>1. 1 \in 1..Len(q[b]) /\ q[b][1] = e
    BY <1>2, <1>3, <1>4
  <2> QED BY <2>1 DEF PooledIn
<1>9. \A x \in PooledIn(p) : x \in PooledIn(q)
  <2> SUFFICES ASSUME NEW x \in PooledIn(p) PROVE x \in PooledIn(q)
    OBVIOUS
  <2>1a. PICK c \in Buckets : \E k \in 1..Len(p[c]) : p[c][k] = x
    BY DEF PooledIn
  <2>1. PICK k \in 1..Len(p[c]) : p[c][k] = x
    BY <2>1a
  <2>2. CASE c # b
    BY <1>4, <2>1, <2>2 DEF PooledIn
  <2>3. CASE c = b
    <3>1. k + 1 \in 1..Len(q[b]) /\ k + 1 \in 1..n + 1 /\ k + 1 # 1 /\ (k + 1) - 1 = k
      BY <1>2, <1>3, <1>4, <2>3
    <3>2. q[b][k + 1] = x
      BY <1>3, <1>4, <2>1, <2>3, <3>1
    <3> QED BY <3>1, <3>2 DEF PooledIn
  <2> QED BY <2>2, <2>3
<1> QED BY <1>4, <1>6, <1>7, <1>8, <1>9 DEF q

-----------------------------------------------------------------------------
(* Searching the pool.                                                       *)

(* A set of naturals that is not empty has a least member.                  *)
LEMMA Least ==
    ASSUME NEW T, T \subseteq Nat, T # {}
    PROVE  \E x \in T : \A y \in T : x <= y
<1> DEFINE R == OpToRel(<, Nat)
<1>1. IsWellFoundedOn(R, Nat)
  BY NatLessThanWellFounded
<1>2. \A x, y \in Nat : <<y, x>> \in R <=> y < x
  BY DEF OpToRel
<1> HIDE DEF R
<1>3. PICK x \in T : \A y \in T : ~(<<y, x>> \in R)
  BY <1>1, WFMin
<1>4. \A y \in T : ~(y < x)
  BY <1>2, <1>3
<1>5. \A y \in T : y \in Nat /\ x \in Nat
  OBVIOUS
<1> QED BY <1>4, <1>5

(* So Min is one of them.                                                   *)
LEMMA MinInSet ==
    ASSUME NEW T, T \subseteq Nat, T # {}
    PROVE  Min(T) \in T
BY Least DEF Min

(* And Max, when there is a bound.                                          *)
LEMMA MaxInSet ==
    ASSUME NEW n \in Nat, NEW T, T \subseteq 0..n, T # {}
    PROVE  Max(T) \in T
<1> DEFINE U == {m \in 0..n : \A y \in T : y <= m}
<1>1. U \subseteq Nat /\ n \in U
  OBVIOUS
<1>2. PICK u \in U : \A m \in U : u <= m
  BY <1>1, Least
<1>3. u \in T
  <2> SUFFICES ASSUME u \notin T PROVE FALSE
    OBVIOUS
  <2>1. PICK z \in T : TRUE
    OBVIOUS
  <2>2. z \in 0..n /\ z <= u /\ z # u
    BY <1>2
  <2>3. u \in Nat /\ u - 1 \in 0..n
    BY <1>2, <2>2
  <2>4. \A y \in T : y <= u - 1
    BY <1>2, <2>3
  <2> QED BY <1>2, <2>3, <2>4
<1>4. \E x \in T : \A y \in T : x >= y
  BY <1>2, <1>3
<1> QED BY <1>4 DEF Max

(* frame_bucket gives a bucket there is.                                    *)
LEMMA BucketIs ==
    ASSUME NEW n
    PROVE  BucketOf(n) \in Buckets
<1> DEFINE B == {b \in 1 .. LastBucket : 2 ^ (b - 1) <= n}
           T == {0} \cup B
<1>1. LastBucket \in Nat
  BY FramesAssumption
<1>2. B \subseteq 1 .. LastBucket
  OBVIOUS
<1>3. BucketOf(n) = IF bounded THEN Max(T) ELSE 0
  BY DEF BucketOf
<1> HIDE DEF B
<1>4. T \subseteq 0 .. LastBucket /\ T # {}
  BY <1>1, <1>2
<1>5. Max(T) \in T
  BY <1>1, <1>4, MaxInSet
<1> QED BY <1>1, <1>3, <1>4, <1>5 DEF Buckets

(* The search of call_frame_acquire gives a spot of the pool.               *)
LEMMA FirstFitIs ==
    ASSUME NEW n, PoolType(pool), Fits(n) # {}
    PROVE  \E b \in Buckets : \E i \in 1..Len(pool[b]) : FirstFit(n) = <<b, i>>
<1>1. \A g \in Fits(n) : g \in Spots
  BY DEF Fits
<1>2. \A g \in Fits(n) : g[1] \in Nat /\ g[2] \in Nat /\ g = <<g[1], g[2]>>
  <2> SUFFICES ASSUME NEW g \in Fits(n) PROVE g[1] \in Nat /\ g[2] \in Nat /\ g = <<g[1], g[2]>>
    OBVIOUS
  <2>1. PICK b \in Buckets : \E i \in 1..Len(pool[b]) : g = <<b, i>>
    BY <1>1, SpotsAre
  <2>2. PICK i \in 1..Len(pool[b]) : g = <<b, i>>
    BY <2>1
  <2>3. Len(pool[b]) \in Nat
    BY SpotsAre
  <2> QED BY <2>2, <2>3 DEF Buckets
<1> DEFINE T == {g[1] : g \in Fits(n)}
<1>3. T \subseteq Nat /\ T # {}
  BY <1>2
<1>4. PICK b \in T : \A c \in T : b <= c
  BY <1>3, Least
<1> DEFINE U == {g[2] : g \in {h \in Fits(n) : h[1] = b}}
<1>5. U \subseteq Nat /\ U # {}
  BY <1>2, <1>4
<1>6. PICK i \in U : \A j \in U : i <= j
  BY <1>5, Least
<1>7. PICK f \in Fits(n) : f[1] = b /\ f[2] = i
  BY <1>6
<1>8. \A g \in Fits(n) : f[1] < g[1] \/ (f[1] = g[1] /\ f[2] <= g[2])
  <2> SUFFICES ASSUME NEW g \in Fits(n), ~(f[1] < g[1])
               PROVE  f[1] = g[1] /\ f[2] <= g[2]
    OBVIOUS
  <2>1. b <= g[1] /\ b \in Nat /\ g[1] \in Nat
    BY <1>2, <1>3, <1>4
  <2>2. g[1] = b
    BY <1>7, <2>1
  <2> QED BY <1>6, <1>7, <2>2
<1>9. FirstFit(n) \in Fits(n)
  BY <1>8 DEF FirstFit
<1> QED BY <1>1, <1>9, SpotsAre

-----------------------------------------------------------------------------
(* The invariant: what is in the pool nobody reaches, and it is there once.   *)
PoolOnce ==
    /\ PoolType(pool)
    /\ \A g1, g2 \in Spots : InSpot(g1) = InSpot(g2) => g1 = g2

PoolInv == Safe(heap, stack, frames, Kept, Pooled) /\ PoolOnce

Holders == Held(stack, frames, Kept)

(* The stack, the frames and the streams are sequences.                     *)
LEMMA SeqsNow ==
    ASSUME Shape
    PROVE  /\ Len(stack) \in Nat /\ DOMAIN stack = 1..Len(stack)
           /\ Len(frames) \in Nat /\ DOMAIN frames = 1..Len(frames)
           /\ Len(streams) \in Nat /\ DOMAIN streams = 1..Len(streams)
<1>1. PICK A : ShapeIn(A)
  BY DEF Shape
<1>2. stack \in Seq(Act(A)) /\ frames \in Seq(FrameOf(A)) /\ streams \in Seq(StreamOf(A))
  BY <1>1 DEF ShapeIn
<1>3. \A S : \A q \in Seq(S) : Len(q) \in Nat /\ DOMAIN q = 1..Len(q)
  OBVIOUS
<1> HIDE <1>1
<1> QED BY ONLY <1>2, <1>3

(* What the collector's roots reach is what the holders reach.              *)
LEMMA RootsAre ==
    ASSUME Shape
    PROVE  Reached(Roots \ {Nil}) = Reach(heap, Holders)
<1>1. /\ Len(stack) \in Nat /\ DOMAIN stack = 1..Len(stack)
      /\ Len(frames) \in Nat /\ DOMAIN frames = 1..Len(frames)
      /\ Len(streams) \in Nat /\ DOMAIN streams = 1..Len(streams)
  BY SeqsNow
<1>2. Roots = Holders
  BY <1>1 DEF Roots, Holders, Held, Kept
<1>3. (Holders \ {Nil}) \cap Places = Holders \cap Places
  BY PlaceFacts
<1>4. \A C : Enclosed(C, Places) <=> Upward(heap, C)
  BY DEF Enclosed, Upward
<1> HIDE DEF Holders
<1> QED BY <1>2, <1>3, <1>4 DEF Reached, Outwards, Reach

(* A place the collector has free is held by nobody and not in the pool.    *)
LEMMA FreeIs ==
    ASSUME Shape, Free # Nil
    PROVE  Free \in Places /\ Free \notin Reach(heap, Holders) /\ Free \notin Pooled
<1> DEFINE T == Places \ Live
<1>1. Free = IF T = {} THEN Nil ELSE Min(T)
  BY DEF Free
<1>2. T # {} /\ T \subseteq Nat
  BY <1>1, FramesAssumption
<1>3. Free \in T
  BY <1>1, <1>2, MinInSet
<1> QED BY <1>3, RootsAre DEF Live

(* The invariant, by the sets the lemmas are about.                         *)
LEMMA PoolNow ==
    ASSUME PoolInv, Shape
    PROVE  /\ Safe(heap, stack, frames, Kept, PooledIn(pool)) /\ PoolType(pool) /\ Once(pool)
           /\ Pooled = PooledIn(pool) /\ HeapType(heap)
           /\ PooledIn(pool) \cap Reach(heap, Holders) = {}
<1>1. PoolType(pool) /\ Safe(heap, stack, frames, Kept, Pooled)
  BY DEF PoolInv, PoolOnce
<1>2. Pooled = PooledIn(pool) /\ Once(pool)
  BY <1>1, SpotsAre DEF PoolInv, PoolOnce
<1>3. Safe(heap, stack, frames, Kept, PooledIn(pool))
  BY <1>1, <1>2
<1> QED BY <1>1, <1>2, <1>3 DEF Safe, Holders

(* call_frame_acquire gives an environment that nobody reaches.             *)
LEMMA AcquireFacts ==
    ASSUME PoolInv, Shape, NEW e, NEW p, NEW n \in Nat, Acquire(e, Free, p, n), e # Nil
    PROVE  /\ e \in Places /\ e \notin Reach(heap, Holders)
           /\ \E m \in Nat : heap' = [heap EXCEPT ![e] = NewEnv(p, m)]
           /\ PoolType(pool') /\ Once(pool')
           /\ PooledIn(pool') \subseteq PooledIn(pool) /\ e \notin PooledIn(pool')
<1>0. /\ PoolType(pool) /\ Once(pool) /\ Pooled = PooledIn(pool) /\ HeapType(heap)
      /\ PooledIn(pool) \cap Reach(heap, Holders) = {}
  BY PoolNow
<1>1. CASE Fits(n) # {}
  <2>1. AcquireOld(e, p, FirstFit(n))
    BY <1>1 DEF Acquire
  <2>2. PICK b \in Buckets : \E i \in 1..Len(pool[b]) : FirstFit(n) = <<b, i>>
    BY <1>0, <1>1, FirstFitIs
  <2>3. PICK i \in 1..Len(pool[b]) : FirstFit(n) = <<b, i>>
    BY <2>2
  <2>4. InSpot(<<b, i>>) = pool[b][i] /\ pool[b][i] \in Places
    BY <1>0, SpotsAre
  <2>5. AcquireOld(e, p, <<b, i>>)
    BY <2>1, <2>3
  <2>6. /\ e = pool[b][i] /\ pool' = [pool EXCEPT ![b] = RemoveAt(@, i)]
        /\ heap' = [heap EXCEPT ![e] = NewEnv(p, heap[e].size)]
    <3>1. /\ e = InSpot(<<b, i>>) /\ pool' = [pool EXCEPT ![<<b, i>>[1]] = RemoveAt(@, <<b, i>>[2])]
          /\ heap' = [heap EXCEPT ![e] = NewEnv(p, @.size)]
      BY <2>5 DEF AcquireOld
    <3>2. <<b, i>>[1] = b /\ <<b, i>>[2] = i
      OBVIOUS
    <3> QED BY <2>4, <3>1, <3>2
  <2>7. /\ PoolType(pool') /\ Once(pool') /\ e \in PooledIn(pool)
        /\ PooledIn(pool') = PooledIn(pool) \ {e}
    BY <1>0, <2>6, TakeOut
  <2>8. heap[e].size \in Nat
    BY <1>0, <2>4, <2>6 DEF HeapType
  <2> QED BY <1>0, <2>4, <2>6, <2>7, <2>8
<1>2. CASE Fits(n) = {}
  <2>1. e = Free /\ heap' = [heap EXCEPT ![e] = NewEnv(p, n)] /\ pool' = pool
    BY <1>2 DEF Acquire, AcquireNew
  <2>2. e \in Places /\ e \notin Reach(heap, Holders) /\ e \notin Pooled
    BY <2>1, FreeIs
  <2> QED BY <1>0, <2>1, <2>2
<1> QED BY <1>1, <1>2

(* The invariant from its parts, in a state and in the next.                *)
LEMMA PoolIf ==
    PoolType(pool) /\ Once(pool) /\ Safe(heap, stack, frames, Kept, PooledIn(pool)) => PoolInv
<1> SUFFICES ASSUME PoolType(pool), Once(pool), Safe(heap, stack, frames, Kept, PooledIn(pool))
             PROVE  PoolInv
  OBVIOUS
<1>1. Pooled = PooledIn(pool) /\ \A f, g \in Spots : InSpot(f) = InSpot(g) => f = g
  BY SpotsAre
<1> QED BY <1>1 DEF PoolInv, PoolOnce

LEMMA PoolNext ==
    (PoolType(pool) /\ Once(pool) /\ Safe(heap, stack, frames, Kept, PooledIn(pool)) => PoolInv)'
BY PoolIf, PTL

LEMMA PoolThen ==
    ASSUME Safe(heap', stack', frames', Kept', PooledIn(pool')), PoolType(pool'), Once(pool')
    PROVE  PoolInv'
<1>1. (PoolType(pool) /\ Once(pool) /\ Safe(heap, stack, frames, Kept, PooledIn(pool)))'
  BY DEF PoolType, Once, Safe, PooledIn, Buckets
<1> QED BY <1>1, PoolNext

-----------------------------------------------------------------------------
(* Recycling.                                                                *)

(* call_frame_recycle keeps the pool apart from what is held.               *)
LEMMA RecycledIs ==
    ASSUME NEW r, NEW s, NEW f, NEW K, Safe(r.heap, s, f, K, PooledIn(r.pool)),
           PoolType(r.pool), Once(r.pool), NEW e \in Places,
           ~r.heap[e].escaped => e \notin Reach(r.heap, Held(s, f, K)), e \notin PooledIn(r.pool)
    PROVE  LET q == Recycled(r, e)
           IN  /\ Safe(q.heap, s, f, K, PooledIn(q.pool)) /\ PoolType(q.pool) /\ Once(q.pool)
               /\ PooledIn(q.pool) \subseteq PooledIn(r.pool) \cup {e}
               /\ Reach(q.heap, Held(s, f, K)) = Reach(r.heap, Held(s, f, K))
               /\ \A x \in Places : q.heap[x].escaped = r.heap[x].escaped
<1>1. CASE ~Keeps(r, e)
  BY <1>1 DEF Recycled
<1>2. CASE Keeps(r, e)
  <2> DEFINE b == BucketOf(heap[e].size)
             g == [r.heap EXCEPT ![e].parent = Nil]
             p == [r.pool EXCEPT ![b] = <<e>> \o @]
             q == Recycled(r, e)
  <2>1. b \in Buckets
    BY BucketIs
  <2>2. q.heap = g /\ q.pool = p
    BY <1>2 DEF Recycled
  <2> HIDE DEF b, q
  <2>3. ~r.heap[e].escaped
    BY <1>2 DEF Keeps
  <2>4. /\ Safe(g, s, f, K, PooledIn(r.pool) \cup {e})
        /\ Reach(g, Held(s, f, K)) = Reach(r.heap, Held(s, f, K))
    BY <2>3, SafeRecycled
  <2>5. PoolType(p) /\ Once(p) /\ PooledIn(p) = PooledIn(r.pool) \cup {e}
    BY <2>1, PutIn
  <2>6. \A x \in Places : g[x].escaped = r.heap[x].escaped
    BY DEF Safe, HeapType
  <2> HIDE DEF g, p
  <2>7. Safe(g, s, f, K, PooledIn(p))
    BY <2>4, <2>5
  <2> QED BY <2>2, <2>4, <2>5, <2>6, <2>7 DEF q
<1> QED BY <1>1, <1>2

(* An environment that may go to the pool.                                   *)
Leaves(e, s, f, K) ==
    e # Nil => /\ e \in Places /\ e \notin PooledIn(pool)
               /\ ~heap[e].escaped => e \notin Reach(heap, Held(s, f, K))

(* Both of its calls at the end of an activation do.                        *)
LEMMA RecycleStep ==
    ASSUME PoolInv, Shape, NEW s, NEW f, NEW K, Safe(heap, s, f, K, PooledIn(pool)),
           NEW e, NEW d, Leaves(e, s, f, K), Leaves(d, s, f, K), e # Nil => e # d, Recycle(e, d)
    PROVE  Safe(heap', s, f, K, PooledIn(pool')) /\ PoolType(pool') /\ Once(pool')
<1> DEFINE was == [heap |-> heap, pool |-> pool, retained |-> retained]
           one == IF e = Nil THEN was ELSE Recycled(was, e)
           both == IF d = Nil THEN one ELSE Recycled(one, d)
<1>1. heap' = both.heap /\ pool' = both.pool
  BY DEF Recycle
<1>2. was.heap = heap /\ was.pool = pool
  OBVIOUS
<1>3. PoolType(pool) /\ Once(pool)
  BY PoolNow
<1> HIDE DEF was
<1>4. /\ Safe(one.heap, s, f, K, PooledIn(one.pool)) /\ PoolType(one.pool) /\ Once(one.pool)
      /\ PooledIn(one.pool) \subseteq PooledIn(pool) \cup (IF e = Nil THEN {} ELSE {e})
      /\ Reach(one.heap, Held(s, f, K)) = Reach(heap, Held(s, f, K))
      /\ \A x \in Places : one.heap[x].escaped = heap[x].escaped
  <2>1. CASE e = Nil
    BY <1>2, <1>3, <2>1
  <2>2. CASE e # Nil
    <3>1. /\ e \in Places /\ e \notin PooledIn(was.pool)
          /\ ~was.heap[e].escaped => e \notin Reach(was.heap, Held(s, f, K))
      BY <1>2, <2>2 DEF Leaves
    <3>2. Safe(was.heap, s, f, K, PooledIn(was.pool)) /\ PoolType(was.pool) /\ Once(was.pool)
      BY <1>2, <1>3
    <3>3. one = Recycled(was, e)
      BY <2>2
    <3> HIDE DEF one
    <3>4. /\ Safe(one.heap, s, f, K, PooledIn(one.pool)) /\ PoolType(one.pool) /\ Once(one.pool)
          /\ PooledIn(one.pool) \subseteq PooledIn(was.pool) \cup {e}
          /\ Reach(one.heap, Held(s, f, K)) = Reach(was.heap, Held(s, f, K))
          /\ \A x \in Places : one.heap[x].escaped = was.heap[x].escaped
      BY ONLY <3>1, <3>2, <3>3, RecycledIs
    <3> QED BY ONLY <1>2, <2>2, <3>4
  <2> QED BY <2>1, <2>2
<1> HIDE DEF one
<1>5. Safe(both.heap, s, f, K, PooledIn(both.pool)) /\ PoolType(both.pool) /\ Once(both.pool)
  <2>1. CASE d = Nil
    BY <1>4, <2>1
  <2>2. CASE d # Nil
    <3>1. /\ d \in Places /\ d \notin PooledIn(one.pool)
          /\ ~one.heap[d].escaped => d \notin Reach(one.heap, Held(s, f, K))
      BY <1>4, <2>2 DEF Leaves
    <3>2. both = Recycled(one, d)
      BY <2>2
    <3> HIDE DEF both
    <3> QED BY <1>4, <3>1, <3>2, RecycledIs
  <2> QED BY <2>1, <2>2
<1> QED BY <1>1, <1>5

-----------------------------------------------------------------------------
(* The actions that begin a call.                                            *)

Depths ==
    /\ Len(stack) \in Nat /\ Len(frames) \in Nat
    /\ stack # <<>> => Len(frames) = 0 \/ Len(frames) = Level(stack, Len(stack))

(* As many frames are registered as activations that register one.          *)
LEMMA DepthIf == IInv => Depths
<1> SUFFICES ASSUME IInv PROVE Depths
  OBVIOUS
<1>1. Shape /\ FrameBooks /\ registered \in BOOLEAN
  BY DEF IInv, Agreement, CallType
<1>2. Len(stack) \in Nat /\ Len(frames) \in Nat
  BY <1>1, SeqsNow
<1>3. Len(<<>>) = 0
  OBVIOUS
<1> QED BY <1>1, <1>2, <1>3 DEF Depths, FrameBooks, FramesMatch, Level

LEMMA DepthNext == (IInv => Depths)'
BY DepthIf, PTL

(* What Append gives, whatever is appended.                                 *)
LEMMA AppendAny ==
    ASSUME NEW S, NEW s \in Seq(S), NEW a
    PROVE  /\ Len(s) \in Nat /\ Len(Append(s, a)) = Len(s) + 1
           /\ \A k \in 1..Len(s) : Append(s, a)[k] = s[k]
           /\ Append(s, a)[Len(s) + 1] = a
<1> DEFINE T == S \cup {a}
<1>1. s \in Seq(T) /\ a \in T
  BY SeqMonotonic
<1> HIDE DEF T
<1> QED BY <1>1, AppendToSeq

(* The new frame answers for nothing yet.                                   *)
LEMMA PushedEnv ==
    ASSUME Shape
    PROVE  /\ \E A : Pushed \in Seq(FrameOf(A) \cup {[env |-> Nil, was |-> now]})
           /\ \A k \in 1..Len(Pushed) :
                 Pushed[k].env = Nil \/ (k \in 1..Len(frames) /\ Pushed[k].env = frames[k].env)
<1> DEFINE f == [env |-> Nil, was |-> now]
<1>1. PICK A : ShapeIn(A)
  BY DEF Shape
<1>2. /\ frames \in Seq(FrameOf(A)) /\ f.env = Nil
      /\ Pushed = IF registered THEN Append(frames, f) ELSE frames
  BY <1>1 DEF ShapeIn, Pushed
<1> HIDE DEF f
<1>3. /\ Len(frames) \in Nat /\ Len(Append(frames, f)) = Len(frames) + 1
      /\ \A k \in 1..Len(frames) : Append(frames, f)[k] = frames[k]
      /\ Append(frames, f)[Len(frames) + 1] = f
  BY <1>2, AppendAny
<1>4. Pushed \in Seq(FrameOf(A) \cup {f})
  <2>1. frames \in Seq(FrameOf(A) \cup {f})
    BY <1>2, SeqMonotonic
  <2> QED BY <1>2, <2>1
<1>5. \A k \in 1..Len(Pushed) :
         Pushed[k].env = Nil \/ (k \in 1..Len(frames) /\ Pushed[k].env = frames[k].env)
  BY ONLY <1>2, <1>3
<1> QED BY <1>4, <1>5 DEF f

(* call_frame_attach changes the top frame only.                            *)
LEMMA AttachedEnv ==
    ASSUME NEW S, NEW fs \in Seq(S), NEW e
    PROVE  /\ Len(Attached(fs, e)) = Len(fs) /\ Len(fs) \in Nat
           /\ \A k \in 1..Len(fs) : \/ Attached(fs, e)[k].env = fs[k].env
                                    \/ k = Len(fs) /\ Attached(fs, e)[k] = [fs[k] EXCEPT !.env = e]
<1>0. Len(fs) \in Nat
  OBVIOUS
<1>1. CASE ~(registered /\ fs # <<>>)
  BY <1>0, <1>1 DEF Attached
<1>2. CASE registered /\ fs # <<>>
  <2> DEFINE g == [fs[Len(fs)] EXCEPT !.env = e]
             T == S \cup {g}
  <2>1. fs \in Seq(T) /\ g \in T
    BY SeqMonotonic
  <2>2. Attached(fs, e) = [fs EXCEPT ![Len(fs)] = g]
    BY <1>2 DEF Attached
  <2> HIDE DEF g, T
  <2>3. /\ Len(Attached(fs, e)) = Len(fs)
        /\ \A k \in 1..Len(fs) : Attached(fs, e)[k] = IF k = Len(fs) THEN g ELSE fs[k]
    BY <1>2, <2>1, <2>2, LastChanged
  <2> QED BY <1>0, <2>3 DEF g
<1> QED BY <1>1, <1>2

(* A frame record of which the environment is replaced.                      *)
LEMMA AttachedTo ==
    ASSUME NEW e, NEW f, \E A : f \in FrameOf(A)
    PROVE  [f EXCEPT !.env = e].env = e
BY DEF FrameOf

(* What the actions that begin a call have in common.                       *)
LEMMA BeginsPool ==
    ASSUME IInv, IInv', Safe(heap', stack, frames, Kept, PooledIn(pool')), PoolType(pool'), Once(pool'),
           UNCHANGED <<closures, streams>>,
           NEW a, stack' = Append(stack, a), NEW e \in Places \cup {Nil},
           a.frame = e, a.kind # "program",
           e = Nil => a.scope \in Holders \cap Places /\ a.kind \notin {"call", "direct", "module"},
           e # Nil => /\ a.scope = e /\ e \notin Reach(heap', Holders) /\ e \notin PooledIn(pool')
                      /\ Encloses(heap', e) /\ ~heap'[e].escaped
                      /\ heap'[e].parent = Nil \/ heap'[e].parent \in Holders,
           \A k \in 1..Len(frames') : \/ frames'[k].env = Nil
                                      \/ k \in 1..Len(frames) /\ frames'[k].env = frames[k].env
                                      \/ frames'[k].env = e /\ k = Len(frames')
    PROVE  PoolInv'
<1>1. PICK A : ShapeIn(A)
  BY DEF IInv, Shape
<1>2. stack \in Seq(Act(A))
  BY <1>1 DEF ShapeIn
<1>3. /\ Len(stack) \in Nat /\ Len(stack') = Len(stack) + 1 /\ stack'[Len(stack')] = a
      /\ \A k \in 1..Len(stack) : stack'[k] = stack[k]
  BY <1>2, AppendAny
<1>4. Len(frames) \in Nat
  BY DepthIf DEF Depths
<1>5. Len(frames') \in Nat /\ (Len(frames') = 0 \/ Len(frames') = Level(stack', Len(stack')))
  <2>1. stack' # <<>>
    BY <1>3
  <2> QED BY <2>1, DepthNext DEF Depths
<1>6. Kept' = Kept
  BY DEF Kept
<1>7. /\ stack'[Len(stack')].frame = e /\ stack'[Len(stack')].kind # "program"
      /\ e = Nil => /\ stack'[Len(stack')].scope \in Held(stack, frames, Kept) \cap Places
                    /\ stack'[Len(stack')].kind \notin {"call", "direct", "module"}
      /\ e # Nil => /\ stack'[Len(stack')].scope = e /\ e \notin Reach(heap', Held(stack, frames, Kept))
                    /\ e \notin PooledIn(pool') /\ Encloses(heap', e) /\ ~heap'[e].escaped
                    /\ heap'[e].parent = Nil \/ heap'[e].parent \in Held(stack, frames, Kept)
  BY <1>3 DEF Holders
<1>8. \A i \in 1..Len(stack) :
         stack'[i].scope = stack[i].scope /\ stack'[i].frame = stack[i].frame
            /\ stack'[i].kind = stack[i].kind
  BY <1>3
<1>9. \A k \in 1..Len(frames') : \/ frames'[k].env = Nil
                                 \/ k \in 1..Len(frames) /\ frames'[k].env = frames[k].env
                                 \/ frames'[k].env = e /\ k = Len(frames')
  OBVIOUS
<1>10. Safe(heap', stack, frames, Kept, PooledIn(pool'))
  OBVIOUS
<1>11. Len(stack') = Len(stack) + 1 /\ Len(stack) \in Nat /\ e \in Places \cup {Nil}
  BY <1>3
<1>12. Safe(heap', stack', frames', Kept, PooledIn(pool'))
  BY ONLY <1>4, <1>5, <1>7, <1>8, <1>9, <1>10, <1>11, SafePush
<1> QED BY <1>6, <1>12, PoolThen

(* What a function value holds is held, and has escaped.                    *)
LEMMA KeptHeld ==
    ASSUME PoolInv, NEW x \in closures
    PROVE  x \in Places /\ x \in Kept /\ x \in Holders /\ heap[x].escaped
<1>1. Kept \subseteq Places /\ \A y \in Kept : heap[y].escaped
  BY DEF PoolInv, Safe, EscapesUp
<1>2. x \in Kept
  BY DEF Kept
<1>3. Kept \subseteq Holders
  BY HoldersHeld DEF Holders
<1> QED BY <1>1, <1>2, <1>3

(* Something that nobody holds becomes an environment inside p.              *)
LEMMA MadeNow ==
    ASSUME PoolInv, Shape, NEW e \in Places, e \notin Reach(heap, Holders), NEW p,
           p = Nil \/ p \in Holders \cap Places, NEW m \in Nat,
           heap' = [heap EXCEPT ![e] = NewEnv(p, m)],
           NEW Q, Q \subseteq PooledIn(pool), e \notin Q
    PROVE  /\ Safe(heap', stack, frames, Kept, Q) /\ e \notin Reach(heap', Holders)
           /\ heap'[e].parent = p /\ ~heap'[e].escaped
           /\ \A q \in From(heap', e) : q = e \/ (p # Nil /\ q \in From(heap', p))
           /\ \A x \in Holders \cap Places : From(heap', x) = From(heap, x)
<1>1. Safe(heap, stack, frames, Kept, PooledIn(pool))
  BY PoolNow
<1>2. e \notin Reach(heap, Held(stack, frames, Kept))
  BY DEF Holders
<1>3. p = Nil \/ p \in Held(stack, frames, Kept) \cap Places
  BY DEF Holders
<1>4. Q \subseteq PooledIn(pool) /\ e \notin Q
  OBVIOUS
<1>5. e \in Places
  OBVIOUS
<1>6. m \in Nat
  OBVIOUS
<1> DEFINE g == [heap EXCEPT ![e] = NewEnv(p, m)]
<1>7. /\ Safe(g, stack, frames, Kept, Q) /\ e \notin Reach(g, Held(stack, frames, Kept))
      /\ g[e].parent = p /\ ~g[e].escaped
  BY ONLY <1>1, <1>2, <1>3, <1>4, <1>5, <1>6, SafeNew
<1>8. \A q \in From(g, e) : q = e \/ (p # Nil /\ q \in From(g, p))
  BY ONLY <1>1, <1>2, <1>3, <1>4, <1>5, <1>6, SafeNew
<1>9. \A x \in Held(stack, frames, Kept) \cap Places : From(g, x) = From(heap, x)
  BY ONLY <1>1, <1>2, <1>3, <1>4, <1>5, <1>6, SafeNew
<1>10. heap' = g
  OBVIOUS
<1> HIDE DEF g
<1> QED BY <1>7, <1>8, <1>9, <1>10 DEF Holders

(* A function or closure is entered: its frame is nobody else's.            *)
LEMMA EntersPool ==
    ASSUME PoolInv, IInv, IInv', NEW e, NEW parent \in closures, NEW n \in Nat,
           Acquire(e, Free, parent, n), e # Nil, NEW kind \in {"call", "direct"},
           NEW fs, fs \in {frames, Pushed}, frames' = Attached(fs, e), stack # <<>>,
           stack' = Append(stack, Activation(kind, e, e, NoContract)),
           UNCHANGED <<closures, streams>>
    PROVE  PoolInv'
<1>0. Shape /\ Len(frames) \in Nat
  BY DepthIf DEF IInv, Depths
<1>1. parent \in Places /\ parent \in Kept /\ parent \in Holders
  BY KeptHeld
<1>2. /\ e \in Places /\ e \notin Reach(heap, Holders)
      /\ \E m \in Nat : heap' = [heap EXCEPT ![e] = NewEnv(parent, m)]
      /\ PoolType(pool') /\ Once(pool')
      /\ PooledIn(pool') \subseteq PooledIn(pool) /\ e \notin PooledIn(pool')
  BY <1>0, AcquireFacts
<1>3. PICK m \in Nat : heap' = [heap EXCEPT ![e] = NewEnv(parent, m)]
  BY <1>2
<1>4. Safe(heap, stack, frames, Kept, PooledIn(pool))
  BY <1>0, PoolNow
<1>5. /\ Safe(heap', stack, frames, Kept, PooledIn(pool')) /\ e \notin Reach(heap', Holders)
      /\ heap'[e].parent = parent /\ ~heap'[e].escaped
  BY <1>0, <1>1, <1>2, <1>3, MadeNow
<1>6. Encloses(heap', e)
  <2>1. heap'[parent].escaped
    BY <1>1, <1>5 DEF Safe, EscapesUp
  <2> QED BY <1>5, <2>1 DEF Encloses
<1> DEFINE a == Activation(kind, e, e, NoContract)
<1>7. a.frame = e /\ a.scope = e /\ a.kind = kind
  BY DEF Activation
<1>8. stack' = Append(stack, a)
  OBVIOUS
<1> HIDE DEF a
<1>9. \A k \in 1..Len(frames') : \/ frames'[k].env = Nil
                                 \/ k \in 1..Len(frames) /\ frames'[k].env = frames[k].env
                                 \/ frames'[k].env = e /\ k = Len(frames')
  <2>1. PICK A : ShapeIn(A)
    BY <1>0 DEF Shape
  <2>2. PICK B : Pushed \in Seq(FrameOf(B) \cup {[env |-> Nil, was |-> now]})
    BY <1>0, PushedEnv
  <2> DEFINE S == FrameOf(A) \cup FrameOf(B) \cup {[env |-> Nil, was |-> now]}
  <2>3. fs \in Seq(S)
    <3>1. frames \in Seq(S)
      BY <2>1, SeqMonotonic DEF ShapeIn
    <3>2. Pushed \in Seq(S)
      BY <2>2, SeqMonotonic
    <3> QED BY <3>1, <3>2
  <2>4. \A f \in S : [f EXCEPT !.env = e].env = e
    BY DEF FrameOf
  <2> HIDE DEF S
  <2>5. /\ Len(frames') = Len(fs) /\ Len(fs) \in Nat
        /\ \A k \in 1..Len(fs) : \/ frames'[k].env = fs[k].env
                                 \/ k = Len(fs) /\ frames'[k] = [fs[k] EXCEPT !.env = e]
    BY <2>3, AttachedEnv
  <2>6. \A k \in 1..Len(fs) : fs[k] \in S
    BY <2>3
  <2>7. \A k \in 1..Len(fs) :
           fs[k].env = Nil \/ (k \in 1..Len(frames) /\ fs[k].env = frames[k].env)
    BY <1>0, PushedEnv
  <2> QED BY ONLY <2>4, <2>5, <2>6, <2>7
<1>10. /\ e \in Places \cup {Nil} /\ a.frame = e /\ a.kind \notin {"program", "host"}
       /\ e = Nil => a.scope \in Holders \cap Places /\ a.kind \notin {"call", "direct", "module"}
       /\ e # Nil => /\ a.scope = e /\ e \notin Reach(heap', Holders) /\ e \notin PooledIn(pool')
                     /\ Encloses(heap', e) /\ ~heap'[e].escaped
                     /\ heap'[e].parent = Nil \/ heap'[e].parent \in Holders
  BY <1>1, <1>2, <1>5, <1>6, <1>7, PlaceFacts
<1> QED BY <1>2, <1>5, <1>8, <1>9, <1>10, BeginsPool

(* call_value and call_stream_value.                                        *)
LEMMA CallPool ==
    ASSUME PoolInv, IInv, IInv', NEW e, NEW parent, NEW n \in Capacities,
           Call(parent, n, e) \/ CallDirect(parent, n, e)
    PROVE  PoolInv'
<1>1. n \in Nat
  BY CallsAssumption
<1>2. CASE Call(parent, n, e)
  <2>1. /\ parent \in closures /\ Acquire(e, Free, parent, n) /\ e # Nil
        /\ frames' = Attached(Pushed, e) /\ stack # <<>>
        /\ stack' = Append(stack, Activation("call", e, e, NoContract))
        /\ UNCHANGED <<closures, streams>>
    BY <1>2 DEF Call, InCode, InBuiltin, MakesOneCall, Running, MayCall, KeepData
  <2> QED BY <1>1, <2>1, EntersPool
<1>3. CASE CallDirect(parent, n, e)
  <2>1. /\ parent \in closures /\ Acquire(e, Free, parent, n) /\ e # Nil
        /\ frames' = Attached(frames, e) /\ stack # <<>>
        /\ stack' = Append(stack, Activation("direct", e, e, NoContract))
        /\ UNCHANGED <<closures, streams>>
    BY <1>3 DEF CallDirect, InCode, InBuiltin, MakesOneCall, Running, MayCall, KeepData
  <2> QED BY <1>1, <2>1, EntersPool
<1> QED BY <1>2, <1>3

(* The activation that runs holds its scope and its frame.                  *)
LEMMA TopHeld ==
    ASSUME PoolInv, IInv, Running
    PROVE  /\ Len(stack) \in Nat \ {0} /\ Top = stack[Len(stack)] /\ stack # <<>>
           /\ Top.scope \in Places /\ Top.scope \in Holders
           /\ Top.frame \in Places \cup {Nil} /\ Top.frame \in Holders
           /\ Top.frame # Nil =>
                 Top.frame \in From(heap, Top.scope) /\ Encloses(heap, Top.frame)
           /\ Top.kind \in {"program", "call", "direct", "module"} => Top.frame # Nil
<1>1. Len(stack) \in Nat \ {0} /\ Top = stack[Len(stack)] /\ stack # <<>>
  BY StackNow
<1>2. Len(stack) \in 1..Len(stack) /\ Scopes(heap, stack)
  BY <1>1 DEF PoolInv, Safe
<1>3. Top.scope \in Holders /\ Top.frame \in Holders
  BY <1>1, <1>2, HoldersHeld DEF Holders
<1> QED BY <1>1, <1>2, <1>3 DEF Scopes

(* A builtin, with_transaction.                                              *)
LEMMA BuiltinPool ==
    ASSUME PoolInv, IInv, IInv', (\E c, t : Builtin(c, t)) \/ (\E g : Begin(g))
    PROVE  PoolInv'
<1>1. PICK a : /\ stack' = Append(stack, a)
               /\ a.frame = Nil /\ a.scope = Top.scope /\ a.kind \in BuiltinKinds
  <2>1. ASSUME NEW c, NEW t, Builtin(c, t)
        PROVE  \E a : /\ stack' = Append(stack, a)
                      /\ a.frame = Nil /\ a.scope = Top.scope /\ a.kind \in BuiltinKinds
    <3>1. stack' = Append(stack, [Activation("builtin", Nil, Top.scope, c) EXCEPT !.handle = t])
      BY <2>1 DEF Builtin
    <3> QED BY <3>1 DEF Activation, BuiltinKinds
  <2>2. ASSUME NEW g, Begin(g)
        PROVE  \E a : /\ stack' = Append(stack, a)
                      /\ a.frame = Nil /\ a.scope = Top.scope /\ a.kind \in BuiltinKinds
    <3>1. \E x, y : stack' = Append(stack, [Activation("transaction", Nil, Top.scope, Transaction)
                                              EXCEPT !.handle = x, !.result = y])
      BY <2>2 DEF Begin
    <3>2. PICK x, y : stack' = Append(stack, [Activation("transaction", Nil, Top.scope, Transaction)
                                                EXCEPT !.handle = x, !.result = y])
      BY <3>1
    <3> DEFINE b == [Activation("transaction", Nil, Top.scope, Transaction)
                        EXCEPT !.handle = x, !.result = y]
    <3>3. b.frame = Nil /\ b.scope = Top.scope /\ b.kind \in BuiltinKinds
      BY DEF Activation, BuiltinKinds
    <3> QED BY <3>2, <3>3
  <2> QED BY <2>1, <2>2
<1>2. Running /\ frames' = Pushed /\ UNCHANGED <<closures, streams, heap, pool>>
  BY DEF Builtin, Begin, InCode, KeepFrames
<1>3. stack # <<>> /\ Top.scope \in Holders \cap Places
  BY <1>2, TopHeld
<1>4. /\ Safe(heap', stack, frames, Kept, PooledIn(pool')) /\ PoolType(pool') /\ Once(pool')
  BY <1>2, PoolNow DEF IInv
<1>5. \A k \in 1..Len(frames') : \/ frames'[k].env = Nil
                                 \/ k \in 1..Len(frames) /\ frames'[k].env = frames[k].env
  BY <1>2, PushedEnv DEF IInv
<1>6. /\ a.frame = Nil /\ a.kind \notin {"program", "host", "call", "direct", "module"}
      /\ a.scope \in Holders \cap Places
  BY <1>1, <1>3 DEF BuiltinKinds
<1>7. Nil \in Places \cup {Nil} /\ UNCHANGED <<closures, streams>>
  BY <1>2
<1> QED BY <1>1, <1>3, <1>4, <1>5, <1>6, <1>7, BeginsPool

-----------------------------------------------------------------------------
(* What code does between calls.                                             *)

(* Nothing changes of what the invariant is about.                          *)
LEMMA SamePool ==
    ASSUME PoolInv, IInv, UNCHANGED <<heap, pool, stack, frames, closures, streams>>
    PROVE  PoolInv'
<1>1. Safe(heap, stack, frames, Kept, PooledIn(pool)) /\ PoolType(pool) /\ Once(pool)
  BY PoolNow DEF IInv
<1>2. Kept' = Kept
  BY DEF Kept
<1>3. Safe(heap', stack', frames', Kept', PooledIn(pool')) /\ PoolType(pool') /\ Once(pool')
  BY <1>1, <1>2
<1> QED BY <1>3, PoolThen

(* Only the scope of the innermost activation changes.                      *)
LEMMA TopScoped ==
    ASSUME IInv, Running, NEW x, stack' = Place([Top EXCEPT !.scope = x])
    PROVE  /\ Len(stack) \in Nat \ {0} /\ Len(stack') = Len(stack) /\ stack'[Len(stack)].scope = x
           /\ \A i \in 1..Len(stack) :
                 /\ stack'[i].frame = stack[i].frame /\ stack'[i].kind = stack[i].kind
                 /\ i # Len(stack) => stack'[i].scope = stack[i].scope
<1>1. PICK A : ShapeIn(A)
  BY DEF IInv, Shape
<1> DEFINE a == [Top EXCEPT !.scope = x]
           S == Act(A) \cup {a}
<1>2. stack \in Seq(S) /\ stack # <<>> /\ a \in S
  BY <1>1, SeqMonotonic, StackNow DEF ShapeIn
<1>3. Top \in Act(A) /\ Top = stack[Len(stack)] /\ Len(stack) \in Nat \ {0}
  BY <1>1, TopIs
<1>4. a.scope = x /\ a.frame = Top.frame /\ a.kind = Top.kind
  BY <1>3 DEF Act
<1>5. stack' = [stack EXCEPT ![Len(stack)] = a]
  BY DEF Place
<1> HIDE DEF a, S
<1>6. /\ Len(stack') = Len(stack)
      /\ \A k \in 1..Len(stack) : stack'[k] = IF k = Len(stack) THEN a ELSE stack[k]
  BY <1>2, <1>5, LastChanged
<1> QED BY <1>3, <1>4, <1>6

(* What entering and leaving a block have in common.                        *)
LEMMA ScopePool ==
    ASSUME IInv, Running, NEW x \in Places, stack' = Place([Top EXCEPT !.scope = x]),
           Safe(heap', stack, frames, Kept, PooledIn(pool')), PoolType(pool'), Once(pool'),
           UNCHANGED <<frames, closures, streams>>,
           Top.frame # Nil => Top.frame \in From(heap', x),
           \/ x \in Reach(heap', Holders)
           \/ x \notin PooledIn(pool') /\ ~heap'[x].escaped /\ heap'[x].parent \in Holders
    PROVE  PoolInv'
<1>1. /\ Len(stack) \in Nat \ {0} /\ Len(stack') = Len(stack) /\ stack'[Len(stack)].scope = x
      /\ \A i \in 1..Len(stack) :
            /\ stack'[i].frame = stack[i].frame /\ stack'[i].kind = stack[i].kind
            /\ i # Len(stack) => stack'[i].scope = stack[i].scope
  BY TopScoped
<1>2. Len(frames) \in Nat /\ (Len(frames) = 0 \/ Len(frames) = Level(stack, Len(stack)))
  BY DepthIf, StackNow DEF Depths
<1>3. stack[Len(stack)].frame # Nil => stack[Len(stack)].frame \in From(heap', x)
  BY StackNow
<1>4. \/ x \in Reach(heap', Held(stack, frames, Kept))
      \/ /\ x \notin PooledIn(pool') /\ ~heap'[x].escaped
         /\ heap'[x].parent \in Held(stack, frames, Kept)
  BY DEF Holders
<1>5. Safe(heap', stack, frames, Kept, PooledIn(pool')) /\ x \in Places
  OBVIOUS
<1>6. Safe(heap', stack', frames, Kept, PooledIn(pool'))
  BY ONLY <1>1, <1>2, <1>3, <1>4, <1>5, SafeScope
<1>7. Kept' = Kept /\ frames' = frames
  BY DEF Kept
<1> QED BY <1>6, <1>7, PoolThen

(* A block: an environment of its own, inside that of the code.             *)
LEMMA EnterBlockPool ==
    ASSUME PoolInv, IInv, IInv', EnterBlock
    PROVE  PoolInv'
<1>1. /\ Running /\ Free # Nil /\ heap' = [heap EXCEPT ![Free] = NewEnv(Top.scope, 0)]
      /\ stack' = Place([Top EXCEPT !.scope = Free]) /\ pool' = pool
      /\ UNCHANGED <<frames, closures, streams>>
  BY DEF EnterBlock, InCode, KeepCalls, KeepData
<1>2. Free \in Places /\ Free \notin Reach(heap, Holders) /\ Free \notin PooledIn(pool)
  BY <1>1, FreeIs, PoolNow DEF IInv
<1>3. /\ Top.scope \in Places /\ Top.scope \in Holders /\ Top.scope # Nil
      /\ Top.frame # Nil => Top.frame \in From(heap, Top.scope)
  BY <1>1, TopHeld, PlaceFacts
<1>4. /\ Safe(heap', stack, frames, Kept, PooledIn(pool)) /\ Free \notin Reach(heap', Holders)
      /\ heap'[Free].parent = Top.scope /\ ~heap'[Free].escaped
      /\ From(heap', Top.scope) = From(heap, Top.scope)
  BY <1>1, <1>2, <1>3, MadeNow DEF IInv
<1>5. From(heap', Top.scope) \subseteq From(heap', Free)
  <2>1. Free \in From(heap', Free) /\ Upward(heap', From(heap', Free))
    BY <1>2, FromHas
  <2>2. Top.scope \in From(heap', Free)
    BY <1>3, <1>4, <2>1 DEF Upward
  <2> QED BY <1>2, <2>2, FromHas
<1>6. PoolType(pool') /\ Once(pool')
  BY <1>1, PoolNow DEF IInv
<1>7. Safe(heap', stack, frames, Kept, PooledIn(pool'))
  BY <1>1, <1>4
<1>8. Free \notin PooledIn(pool') /\ heap'[Free].parent \in Holders
  BY <1>1, <1>2, <1>3, <1>4
<1> QED BY <1>1, <1>2, <1>3, <1>4, <1>5, <1>6, <1>7, <1>8, ScopePool

(* Its end: back to what is around it, not beyond the frame.                *)
LEMMA LeaveBlockPool ==
    ASSUME PoolInv, IInv, IInv', LeaveBlock
    PROVE  PoolInv'
<1> DEFINE x == heap[Top.scope].parent
<1>1. /\ Running /\ Top.scope # Top.frame /\ UNCHANGED <<heap, pool, frames, closures, streams>>
      /\ stack' = Place([Top EXCEPT !.scope = x])
      /\ Top.kind \in {"program", "call", "direct", "module"}
  BY DEF LeaveBlock, InCode, KeepFrames, KeepRun, KeepCalls, KeepData
<1>2. /\ Top.scope \in Places /\ Top.scope \in Holders /\ Top.frame \in From(heap, Top.scope)
  BY <1>1, TopHeld
<1>3. x \in Places /\ Top.frame \in From(heap, x)
  BY <1>1, <1>2, FromNext
<1>4. x \in Reach(heap, Holders)
  <2>1. Top.scope \in Reach(heap, Holders) /\ Upward(heap, Reach(heap, Holders))
    BY <1>2, ReachHas
  <2> QED BY <1>3, <2>1 DEF Upward
<1>5. Safe(heap', stack, frames, Kept, PooledIn(pool')) /\ PoolType(pool') /\ Once(pool')
  BY <1>1, PoolNow DEF IInv
<1> HIDE DEF x
<1>6. Top.frame # Nil => Top.frame \in From(heap', x)
  BY <1>1, <1>3
<1>7. x \in Reach(heap', Holders)
  BY <1>1, <1>4
<1> QED BY <1>1, <1>3, <1>5, <1>6, <1>7, ScopePool

(* A module: an environment with nothing around it.                         *)
LEMMA ImportPool ==
    ASSUME PoolInv, IInv, IInv', NEW m, NEW runs, Import(m, runs)
    PROVE  PoolInv'
<1>1. Running /\ UNCHANGED <<pool, frames, closures, streams>>
  BY DEF Import, InCode
<1>2. CASE runs /\ modules[m] = "absent"
  <2> DEFINE a == Activation("module", Free, Free, m)
  <2>1. /\ Free # Nil /\ heap' = [heap EXCEPT ![Free] = NewEnv(Nil, 0)]
        /\ stack' = Append(stack, a)
    BY <1>2 DEF Import
  <2>2. a.frame = Free /\ a.scope = Free /\ a.kind = "module"
    BY DEF Activation
  <2> HIDE DEF a
  <2>3. Free \in Places /\ Free \notin Reach(heap, Holders) /\ Free \notin PooledIn(pool)
    BY <2>1, FreeIs, PoolNow DEF IInv
  <2>4. /\ Safe(heap', stack, frames, Kept, PooledIn(pool)) /\ Free \notin Reach(heap', Holders)
        /\ heap'[Free].parent = Nil /\ ~heap'[Free].escaped
    BY <2>1, <2>3, MadeNow DEF IInv
  <2>5. Encloses(heap', Free)
    BY <2>4, PlaceFacts DEF Encloses
  <2>6. Safe(heap', stack, frames, Kept, PooledIn(pool')) /\ PoolType(pool') /\ Once(pool')
    BY <1>1, <2>4, PoolNow DEF IInv
  <2>7. \A k \in 1..Len(frames') : k \in 1..Len(frames) /\ frames'[k].env = frames[k].env
    BY <1>1
  <2>8. stack # <<>>
    BY <1>1 DEF Running
  <2>9. Free \in Places \cup {Nil} /\ Free \notin PooledIn(pool') /\ UNCHANGED <<closures, streams>>
    BY <1>1, <2>3
  <2> QED BY <2>1, <2>2, <2>4, <2>5, <2>6, <2>7, <2>8, <2>9, BeginsPool
<1>3. CASE ~(runs /\ modules[m] = "absent")
  <2>1. UNCHANGED <<heap, stack>>
    BY <1>3 DEF Import
  <2> QED BY <1>1, <2>1, SamePool
<1> QED BY <1>2, <1>3

(* A declaration changes only the size of what the code holds.              *)
LEMMA DeclarePool ==
    ASSUME PoolInv, IInv, Declare
    PROVE  PoolInv'
<1>1. /\ Running /\ heap' = [heap EXCEPT ![Top.scope].size = Grown]
      /\ UNCHANGED <<pool, stack, frames, closures, streams>>
  BY DEF Declare, InCode, Grow, KeepCalls, KeepData
<1>2. HeapType(heap) /\ Safe(heap, stack, frames, Kept, PooledIn(pool)) /\ PoolType(pool) /\ Once(pool)
  BY PoolNow DEF IInv
<1>3. Grown \in Nat
  BY FramesAssumption
<1>4. /\ HeapType(heap')
      /\ \A e \in Places : heap'[e].parent = heap[e].parent /\ heap'[e].escaped = heap[e].escaped
  BY <1>1, <1>2, <1>3 DEF HeapType
<1>5. Reach(heap, Held(stack, frames, Kept)) \subseteq Places
  BY ReachHas
<1>6. PooledIn(pool) \subseteq Places /\ PooledIn(pool) \cap Reach(heap, Held(stack, frames, Kept)) = {}
  BY <1>2 DEF Safe
<1>7. Safe(heap', stack, frames, Kept, PooledIn(pool))
  BY <1>2, <1>4, <1>5, <1>6, SafeTree
<1>8. Kept' = Kept
  BY <1>1 DEF Kept
<1>9. Safe(heap', stack', frames', Kept', PooledIn(pool')) /\ PoolType(pool') /\ Once(pool')
  BY <1>1, <1>2, <1>7, <1>8
<1> QED BY <1>9, PoolThen

(* Nothing moves but what is held, which is less.                            *)
LEMMA FewerPool ==
    ASSUME PoolInv, IInv, UNCHANGED <<heap, pool>>, Kept' \subseteq Kept,
           stack' = stack \/ stack' = <<>>, frames' = frames
    PROVE  PoolInv'
<1>1. Safe(heap, stack, frames, Kept, PooledIn(pool)) /\ PoolType(pool) /\ Once(pool)
  BY PoolNow DEF IInv
<1>2. Len(stack) \in Nat /\ Len(frames) \in Nat
  BY DepthIf DEF Depths
<1>3. /\ Len(stack') \in 0..Len(stack)
      /\ \A i \in 1..Len(stack') : /\ stack'[i].scope = stack[i].scope
                                   /\ stack'[i].frame = stack[i].frame /\ stack'[i].kind = stack[i].kind
  <2>1. Len(<<>>) = 0
    OBVIOUS
  <2> QED BY <1>2, <2>1
<1>4. Len(frames) \in 0..Len(frames)
  BY <1>2
<1>5. Safe(heap, stack', frames, Kept', PooledIn(pool))
  BY <1>1, <1>2, <1>3, <1>4, SafeLess
<1>6. Safe(heap', stack', frames', Kept', PooledIn(pool')) /\ PoolType(pool') /\ Once(pool')
  BY <1>1, <1>5
<1> QED BY <1>6, PoolThen

(* env_mark_escaped: whoever it marks, it marks all around it.              *)
LEMMA EscapesIs ==
    ASSUME HeapType(heap), NEW x \in Places, MarkEscaped(x)
    PROVE  /\ HeapType(heap')
           /\ \E E : /\ x \in E \/ heap[x].escaped
                     /\ \A e \in Places : /\ heap'[e].parent = heap[e].parent
                                          /\ heap'[e].escaped <=> heap[e].escaped \/ e \in E
                     /\ \A e \in E : heap[e].parent \in Places =>
                           heap[e].parent \in E \/ heap[heap[e].parent].escaped
<1> DEFINE E == EscapedFrom(x)
           T == {p \in Places : ~heap[p].escaped}
<1>1. \A e : e \in E <=>
         e \in T /\ \A C \in SUBSET T : {x} \cap T \subseteq C /\ Enclosed(C, T) => e \in C
  BY DEF EscapedFrom, Outwards
<1>2. heap' = [p \in Places |-> IF p \in E THEN [heap[p] EXCEPT !.escaped = TRUE] ELSE heap[p]]
  BY DEF MarkEscaped
<1> HIDE DEF E
<1>3. x \in E \/ heap[x].escaped
  BY <1>1
<1>4. \A e \in E : heap[e].parent \in Places => heap[e].parent \in E \/ heap[heap[e].parent].escaped
  <2> SUFFICES ASSUME NEW e \in E, heap[e].parent \in T PROVE heap[e].parent \in E
    OBVIOUS
  <2>1. ASSUME NEW C \in SUBSET T, {x} \cap T \subseteq C, Enclosed(C, T) PROVE heap[e].parent \in C
    BY <1>1, <2>1 DEF Enclosed
  <2> QED BY <1>1, <2>1
<1>5. \A p \in Places : heap[p] \in [parent : Places \cup {Nil}, escaped : BOOLEAN, size : Nat]
  BY DEF HeapType
<1>6. \A e \in Places : /\ heap'[e].parent = heap[e].parent
                        /\ heap'[e].escaped <=> heap[e].escaped \/ e \in E
  BY <1>2, <1>5
<1>7. HeapType(heap')
  BY <1>2, <1>5 DEF HeapType
<1> QED BY <1>3, <1>4, <1>6, <1>7

(* The scope of the code escapes, and something may hold it.                *)
LEMMA EscapePool ==
    ASSUME PoolInv, IInv, Running, MarkEscaped(Top.scope), UNCHANGED <<pool, stack, frames>>,
           Kept' \subseteq Kept \cup {Top.scope}
    PROVE  PoolInv'
<1>1. Safe(heap, stack, frames, Kept, PooledIn(pool)) /\ PoolType(pool) /\ Once(pool) /\ HeapType(heap)
  BY PoolNow DEF IInv
<1>2. PICK x : x = Top.scope
  OBVIOUS
<1>3. x \in Places /\ x \in Held(stack, frames, Kept) \cap Places
  BY <1>2, TopHeld DEF Holders
<1>4. PICK E : /\ x \in E \/ heap[x].escaped
               /\ \A e \in Places : /\ heap'[e].parent = heap[e].parent
                                    /\ heap'[e].escaped <=> heap[e].escaped \/ e \in E
               /\ \A e \in E : heap[e].parent \in Places =>
                     heap[e].parent \in E \/ heap[heap[e].parent].escaped
  BY <1>1, <1>2, <1>3, EscapesIs
<1>5. HeapType(heap')
  BY <1>1, <1>2, <1>3, EscapesIs
<1>6. Kept' \subseteq Kept \cup {x}
  BY <1>2
<1>7. Safe(heap', stack, frames, Kept', PooledIn(pool))
  BY ONLY <1>1, <1>3, <1>4, <1>5, <1>6, SafeEscape
<1>8. Safe(heap', stack', frames', Kept', PooledIn(pool')) /\ PoolType(pool') /\ Once(pool')
  BY <1>1, <1>7
<1> QED BY <1>8, PoolThen

(* Closures and streams are made, closures dropped.                         *)
LEMMA HoldsPool ==
    ASSUME PoolInv, IInv, MakeClosure \/ (\E e : DropClosure(e)) \/ (\E rows : MakeStream(rows))
    PROVE  PoolInv'
<1>1. CASE MakeClosure
  <2>1. /\ Running /\ MarkEscaped(Top.scope) /\ UNCHANGED <<pool, stack, frames, streams>>
        /\ closures' = closures \cup {Top.scope}
    BY <1>1 DEF MakeClosure, InCode, KeepCalls
  <2>2. Kept' \subseteq Kept \cup {Top.scope}
    BY <2>1 DEF Kept
  <2> QED BY <2>1, <2>2, EscapePool
<1>2. CASE \E e : DropClosure(e)
  <2>1. UNCHANGED <<heap, pool, stack, frames, streams>> /\ closures' \subseteq closures
    BY <1>2 DEF DropClosure, KeepFrames, KeepCalls
  <2>2. Kept' \subseteq Kept
    BY <2>1 DEF Kept
  <2> QED BY <2>1, <2>2, FewerPool
<1>3. CASE \E rows : MakeStream(rows)
  <2>1. PICK rows : /\ Running /\ MarkEscaped(Top.scope) /\ UNCHANGED <<pool, stack, frames, closures>>
                    /\ streams' = Append(streams, [env |-> Top.scope, rows |-> rows])
    BY <1>3 DEF MakeStream, InCode, KeepCalls
  <2>2. PICK A : ShapeIn(A)
    BY DEF IInv, Shape
  <2>3. streams \in Seq(StreamOf(A))
    BY <2>2 DEF ShapeIn
  <2>4. /\ Len(streams) \in Nat /\ Len(streams') = Len(streams) + 1
        /\ \A k \in 1..Len(streams) : streams'[k] = streams[k]
        /\ streams'[Len(streams) + 1] = [env |-> Top.scope, rows |-> rows]
    BY <2>1, <2>3, AppendAny
  <2>5. \A i \in 1..Len(streams') :
           streams'[i].env = Top.scope \/ (i \in 1..Len(streams) /\ streams'[i].env = streams[i].env)
    BY <2>4
  <2>6. Kept' \subseteq Kept \cup {Top.scope}
    BY <2>1, <2>5 DEF Kept
  <2> QED BY <2>1, <2>6, EscapePool
<1> QED BY <1>1, <1>2, <1>3

-----------------------------------------------------------------------------
(* The actions that end a call.                                              *)

(* What is held is not in the pool.                                         *)
LEMMA HeldNotPooled ==
    ASSUME PoolInv, Shape, NEW x \in Holders \cap Places
    PROVE  x \notin PooledIn(pool)
<1>1. x \in Reach(heap, Holders)
  BY HeldIn DEF Holders
<1> QED BY <1>1, PoolNow

(* The levels of the activations below one that registered a frame.          *)
LEMMA LevelBelow ==
    ASSUME NEW s, NEW n \in Nat \ {0}, s[n].kind \in FrameKinds, NEW i \in 1..(n - 1)
    PROVE  Level(s, i) < Level(s, n) /\ Level(s, i) \in Nat /\ Level(s, n) \in Nat
<1>1. n - 1 \in Nat /\ i \in Nat
  OBVIOUS
<1>2. Cardinality(At(s, n, FrameKinds)) = Cardinality(At(s, n - 1, FrameKinds)) + 1
  <2>1. PICK m \in Nat : m = n - 1
    BY <1>1
  <2>2. n = m + 1
    BY <2>1
  <2>3. Cardinality(At(s, m + 1, FrameKinds)) = Cardinality(At(s, m, FrameKinds)) + 1
    BY <2>2, AtOneMore
  <2> QED BY <2>1, <2>2, <2>3
<1>3. At(s, i, FrameKinds) \subseteq At(s, n - 1, FrameKinds)
  BY <1>1 DEF At
<1>4. IsFiniteSet(At(s, n - 1, FrameKinds)) /\ Cardinality(At(s, n - 1, FrameKinds)) \in Nat
  BY <1>1, AtCounts
<1>5. /\ Cardinality(At(s, i, FrameKinds)) <= Cardinality(At(s, n - 1, FrameKinds))
      /\ Cardinality(At(s, i, FrameKinds)) \in Nat
  BY <1>1, <1>3, <1>4, FS_Subset, AtCounts
<1> QED BY <1>2, <1>4, <1>5 DEF Level

(* The environment of the frame that ends leaves with it.                    *)
LEMMA DeferredLeaves ==
    ASSUME PoolInv, Shape, NEW t, NEW f, Len(frames) \in Nat \ {0},
           Safe(heap, t, f, Kept, PooledIn(pool)),
           Len(f) \in 0..Len(frames) - 1, \A k \in 1..Len(f) : f[k].env = frames[k].env,
           Len(stack) \in Nat, Len(t) \in 0..Len(stack),
           \A i \in 1..Len(t) : /\ t[i].scope = stack[i].scope
                                /\ Level(stack, i) < Len(frames) /\ Level(stack, i) \in Nat
    PROVE  Leaves(frames[Len(frames)].env, t, f, Kept)
<1> SUFFICES ASSUME frames[Len(frames)].env # Nil
             PROVE  Leaves(frames[Len(frames)].env, t, f, Kept)
  BY DEF Leaves
<1> DEFINE n == Len(frames)
           d == frames[n].env
<1>1. n \in 1..Len(frames) /\ d # Nil /\ Answers(heap, stack, frames)
  BY DEF PoolInv, Safe
<1>2. /\ d \in Places \ {Main}
      /\ \A l \in 1..Len(frames) : frames[l].env = d => l = n
      /\ \A i \in 1..Len(stack) : d \in From(heap, stack[i].scope) => n <= Level(stack, i)
  BY <1>1 DEF Answers
<1>3. d \in Holders
  BY <1>1, HoldersHeld DEF Holders
<1>4. \A i \in 1..Len(t) : d \notin From(heap, t[i].scope)
  <2> SUFFICES ASSUME NEW i \in 1..Len(t) PROVE d \notin From(heap, t[i].scope)
    OBVIOUS
  <2>1. /\ i \in 1..Len(stack) /\ t[i].scope = stack[i].scope
        /\ Level(stack, i) < n /\ Level(stack, i) \in Nat
    OBVIOUS
  <2> QED BY <1>2, <2>1
<1>5. \A k \in 1..Len(f) : f[k].env # d
  <2> SUFFICES ASSUME NEW k \in 1..Len(f) PROVE f[k].env # d
    OBVIOUS
  <2>1. k \in 1..Len(frames) /\ k # n /\ f[k].env = frames[k].env
    OBVIOUS
  <2> QED BY <1>2, <2>1
<1> HIDE DEF d, n
<1>6. ~heap[d].escaped => d \notin Reach(heap, Held(t, f, Kept))
  BY <1>2, <1>4, <1>5, Unheld
<1>7. d \notin PooledIn(pool)
  BY <1>2, <1>3, HeldNotPooled
<1> QED BY <1>2, <1>6, <1>7 DEF Leaves, d, n

(* So does that of the call itself, when no frame answers for it.            *)
LEMMA OwnLeaves ==
    ASSUME PoolInv, IInv, Running, NEW t, NEW f, Top.kind \notin {"program", "host"},
           Safe(heap, t, f, Kept, PooledIn(pool)),
           Len(f) \in 0..Len(frames), \A k \in 1..Len(f) : f[k].env = frames[k].env,
           Len(t) = Len(stack) - 1, \A i \in 1..Len(t) : t[i].scope = stack[i].scope
    PROVE  Leaves(EndOwn, t, f, Kept)
<1> SUFFICES ASSUME EndOwn # Nil PROVE Leaves(EndOwn, t, f, Kept)
  BY DEF Leaves
<1> DEFINE n == Len(stack)
           e == Top.frame
<1>0. /\ n \in Nat \ {0} /\ Top = stack[n] /\ Shape /\ Len(frames) \in Nat
      /\ Len(frames) = 0 \/ Len(frames) = Level(stack, n)
  BY StackNow, DepthIf DEF Depths, IInv
<1>1. EndOwn = e /\ e # Nil /\ e # TopFrameEnv
  BY DEF EndOwn
<1>2. e \in Places /\ e \in Holders
  BY <1>1, TopHeld
<1>3. /\ Apart(heap, stack) /\ Answers(heap, stack, frames) /\ Scopes(heap, stack)
      /\ n \in 1..Len(stack) /\ stack[n].frame = e
  BY <1>0 DEF PoolInv, Safe
<1>4. e # Main /\ \A i \in 1..Len(stack) : i < n => e \notin From(heap, stack[i].scope)
  BY <1>0, <1>1, <1>3 DEF Apart
<1>5. \A i \in 1..Len(t) : e \notin From(heap, t[i].scope)
  BY <1>0, <1>4
<1>6. e \in From(heap, stack[n].scope)
  BY <1>1, <1>3 DEF Scopes
<1>7. \A k \in 1..Len(frames) : frames[k].env # e
  <2> SUFFICES ASSUME NEW k \in 1..Len(frames), frames[k].env = e PROVE FALSE
    OBVIOUS
  <2>1. k <= Level(stack, n) /\ Level(stack, n) <= k
    BY <1>1, <1>3, <1>6 DEF Answers
  <2>2. k = Len(frames) /\ Len(frames) # 0
    BY <1>0, <2>1
  <2>3. registered /\ frames # <<>>
    <3>1. FrameBooks /\ Len(<<>>) = 0 /\ registered \in BOOLEAN
      BY DEF IInv, Agreement, CallType
    <3> QED BY <2>2, <3>1 DEF FrameBooks
  <2>4. TopFrameEnv = frames[Len(frames)].env
    <3>1. PICK A : ShapeIn(A)
      BY <1>0 DEF Shape
    <3>2. Last(frames) = frames[Len(frames)]
      BY <2>3, <3>1, FrontOfFrames DEF ShapeIn
    <3> QED BY <2>3, <3>2 DEF TopFrameEnv
  <2> QED BY <1>1, <2>2, <2>4
<1>8. \A k \in 1..Len(f) : f[k].env # e
  BY <1>0, <1>7
<1> HIDE DEF e, n
<1>9. ~heap[e].escaped => e \notin Reach(heap, Held(t, f, Kept))
  BY <1>2, <1>4, <1>5, <1>8, Unheld
<1>10. e \notin PooledIn(pool)
  BY <1>0, <1>2, HeldNotPooled
<1> QED BY <1>1, <1>2, <1>9, <1>10 DEF Leaves

(* The result a call gives changes nobody's environment.                    *)
LEMMA ReceiveEnv ==
    ASSUME NEW B, NEW s \in Seq(Act(B)), NEW r
    PROVE  /\ Len(Receive(s, r)) = Len(s)
           /\ \A k \in 1..Len(s) : /\ Receive(s, r)[k].scope = s[k].scope
                                   /\ Receive(s, r)[k].frame = s[k].frame
                                   /\ Receive(s, r)[k].kind = s[k].kind
<1> DEFINE a == [s[Len(s)] EXCEPT !.result = r]
           S == Act(B) \cup {a}
           t == Receive(s, r)
<1>1. t = s \/ t = [s EXCEPT ![Len(s)] = a]
  BY DEF Receive
<1>2. CASE t = s
  BY <1>2
<1>3. CASE s = <<>>
  <2>1. Len(s) = 0 /\ 0 \notin DOMAIN s
    BY <1>3
  <2>2. [s EXCEPT ![Len(s)] = a] = s
    BY <2>1
  <2> QED BY <1>1, <1>2, <2>2
<1>4. CASE s # <<>> /\ t = [s EXCEPT ![Len(s)] = a]
  <2>1. s \in Seq(S) /\ a \in S /\ Len(s) \in 1..Len(s)
    BY <1>4, SeqMonotonic, LastOfSeq
  <2>2. a.scope = s[Len(s)].scope /\ a.frame = s[Len(s)].frame /\ a.kind = s[Len(s)].kind
    <3>1. s[Len(s)] \in Act(B)
      BY <1>4, LastOfSeq
    <3> QED BY <3>1 DEF Act
  <2> HIDE DEF a, S, t
  <2>3. /\ Len(t) = Len(s)
        /\ \A k \in 1..Len(s) : t[k] = IF k = Len(s) THEN a ELSE s[k]
    BY <1>4, <2>1, LastChanged
  <2> QED BY <2>2, <2>3 DEF t
<1> QED BY <1>1, <1>2, <1>3, <1>4

(* What the actions that end a call have in common.                         *)
LEMMA EndsPool ==
    ASSUME PoolInv, IInv, Running, Top.kind \in {"call", "direct", "builtin", "transaction"},
           stack' = Front(stack) \/ (\E r : stack' = Receive(Front(stack), r)),
           Recycle(EndOwn, EndDeferred), frames' = Popped, UNCHANGED <<closures, streams>>
    PROVE  PoolInv'
<1>0. PICK A : ShapeIn(A)
  BY DEF IInv, Shape
<1>1. /\ Len(stack) \in Nat \ {0} /\ Top = stack[Len(stack)] /\ Len(frames) \in Nat
      /\ Shape /\ FrameBooks /\ registered \in BOOLEAN
  BY StackNow, DepthIf DEF Depths, IInv, Agreement, CallType
<1>2. PICK s : s = Front(stack)
  OBVIOUS
<1>3. /\ s \in Seq(Act(A)) /\ Len(s) = Len(stack) - 1 /\ \A k \in 1..Len(s) : s[k] = stack[k]
  BY <1>0, <1>2, FrontOfStack DEF ShapeIn, Running
<1>4. /\ Len(stack') = Len(stack) - 1
      /\ \A i \in 1..Len(stack') : /\ stack'[i].scope = stack[i].scope
                                   /\ stack'[i].frame = stack[i].frame /\ stack'[i].kind = stack[i].kind
  <2>1. CASE stack' = s
    BY <1>3, <2>1
  <2>2. CASE \E r : stack' = Receive(s, r)
    <3>1. PICK r : stack' = Receive(s, r)
      BY <2>2
    <3> QED BY <1>3, <3>1, ReceiveEnv
  <2> QED BY <1>2, <2>1, <2>2
<1>5. CASE Pops /\ registered
  <2>1. /\ frames' = Front(frames) /\ EndDeferred = TopFrameEnv /\ Top.kind \in FrameKinds
    BY <1>5 DEF Popped, EndDeferred, Pops, FrameKinds
  <2>2. Len(frames) \in Nat \ {0} /\ Len(frames) = Level(stack, Len(stack))
    <3>1. FramesMatch(stack, frames)
      BY <1>1, <1>5 DEF FrameBooks, Running
    <3> QED BY <1>1, <2>1, <3>1, FrameOnTop DEF FramesMatch, Level
  <2>3. frames # <<>>
    BY <2>2
  <2>4. PICK f : f = Front(frames)
    OBVIOUS
  <2>5. /\ Len(f) = Len(frames) - 1 /\ \A k \in 1..Len(f) : f[k] = frames[k]
        /\ Last(frames) = frames[Len(frames)]
    BY <1>0, <2>3, <2>4, FrontOfFrames DEF ShapeIn
  <2>6. EndDeferred = frames[Len(frames)].env
    BY <1>5, <2>1, <2>3, <2>5 DEF TopFrameEnv
  <2>7. /\ Len(stack') \in 0..Len(stack) /\ Len(f) \in 0..Len(frames) /\ Len(f) \in 0..Len(frames) - 1
        /\ Kept \subseteq Kept /\ \A k \in 1..Len(f) : f[k].env = frames[k].env
    BY <1>1, <1>4, <2>2, <2>5
  <2>8. Safe(heap, stack, frames, Kept, PooledIn(pool))
    BY <1>1, PoolNow
  <2>9. Safe(heap, stack', f, Kept, PooledIn(pool))
    BY ONLY <1>1, <1>4, <2>7, <2>8, SafeLess
  <2>10. Leaves(EndOwn, stack', f, Kept)
    BY <1>4, <2>7, <2>9, OwnLeaves
  <2>11. \A i \in 1..Len(stack') : /\ stack'[i].scope = stack[i].scope
                                   /\ Level(stack, i) < Len(frames) /\ Level(stack, i) \in Nat
    <3> SUFFICES ASSUME NEW i \in 1..Len(stack')
                 PROVE  /\ stack'[i].scope = stack[i].scope
                        /\ Level(stack, i) < Len(frames) /\ Level(stack, i) \in Nat
      OBVIOUS
    <3>1. i \in 1..(Len(stack) - 1) /\ stack[Len(stack)].kind \in FrameKinds
      BY <1>1, <1>4, <2>1
    <3>2. Level(stack, i) < Level(stack, Len(stack)) /\ Level(stack, i) \in Nat
      BY <1>1, <3>1, LevelBelow
    <3> QED BY <1>4, <2>2, <3>2
  <2>12. Leaves(EndDeferred, stack', f, Kept)
    BY <1>1, <2>2, <2>6, <2>7, <2>9, <2>11, DeferredLeaves
  <2>13. EndOwn # Nil => EndOwn # EndDeferred
    BY <2>1 DEF EndOwn
  <2>14. Safe(heap', stack', f, Kept, PooledIn(pool')) /\ PoolType(pool') /\ Once(pool')
    BY <1>1, <2>9, <2>10, <2>12, <2>13, RecycleStep
  <2>15. Kept' = Kept /\ frames' = f
    BY <2>1, <2>4 DEF Kept
  <2> QED BY <2>14, <2>15, PoolThen
<1>6. CASE ~(Pops /\ registered)
  <2>1. frames' = frames /\ EndDeferred = Nil
    <3>1. ~registered => TopFrameEnv = Nil
      BY DEF TopFrameEnv
    <3> QED BY <1>1, <1>6, <3>1 DEF Popped, EndDeferred
  <2>2. /\ Len(stack') \in 0..Len(stack) /\ Len(frames) \in 0..Len(frames) /\ Kept \subseteq Kept
        /\ \A k \in 1..Len(frames) : frames[k].env = frames[k].env
    BY <1>1, <1>4
  <2>3. Safe(heap, stack, frames, Kept, PooledIn(pool))
    BY <1>1, PoolNow
  <2>4. Safe(heap, stack', frames, Kept, PooledIn(pool))
    BY ONLY <1>1, <1>4, <2>2, <2>3, SafeLess
  <2>5. Leaves(EndOwn, stack', frames, Kept)
    BY <1>4, <2>2, <2>4, OwnLeaves
  <2>6. Leaves(Nil, stack', frames, Kept) /\ (EndOwn # Nil => EndOwn # Nil)
    BY DEF Leaves
  <2>7. Recycle(EndOwn, Nil)
    BY <2>1
  <2>8. Safe(heap', stack', frames, Kept, PooledIn(pool')) /\ PoolType(pool') /\ Once(pool')
    BY <1>1, <2>4, <2>5, <2>6, <2>7, RecycleStep
  <2>9. Kept' = Kept
    BY DEF Kept
  <2> QED BY <2>1, <2>8, <2>9, PoolThen
<1> QED BY <1>5, <1>6

(* Returns, and the end of with_transaction.                                *)
LEMMA ReturnPool ==
    ASSUME PoolInv, IInv, (\E r : Return(r)) \/ (\E commits : EndTransaction(commits))
    PROVE  PoolInv'
<1>1. CASE \E r : Return(r)
  <2>1. /\ Running /\ Top.kind \in {"call", "direct", "builtin", "transaction"}
        /\ \E r : stack' = Receive(Front(stack), r)
        /\ Recycle(EndOwn, EndDeferred) /\ frames' = Popped /\ UNCHANGED <<closures, streams>>
    BY <1>1 DEF Return
  <2> QED BY <2>1, EndsPool
<1>2. CASE \E commits : EndTransaction(commits)
  <2>1. /\ Running /\ Top.kind \in {"call", "direct", "builtin", "transaction"}
        /\ stack' = Front(stack)
        /\ Recycle(EndOwn, EndDeferred) /\ frames' = Popped /\ UNCHANGED <<closures, streams>>
    BY <1>2 DEF EndTransaction
  <2> QED BY <2>1, EndsPool
<1> QED BY <1>1, <1>2

(* A registered frame that the jump has left gives back what it kept.       *)
LEMMA UnwindFramePool ==
    ASSUME PoolInv, IInv, UnwindFrame
    PROVE  PoolInv'
<1>0. PICK A : ShapeIn(A)
  BY DEF IInv, Shape
<1>1. /\ stack = <<>> /\ frames # <<>> /\ Recycle(TopFrameEnv, Nil) /\ frames' = Front(frames)
      /\ UNCHANGED <<stack, closures, streams>> /\ Shape /\ FrameBooks
  BY DEF UnwindFrame, Left, KeepData, IInv, Agreement
<1>2. registered
  BY <1>1 DEF FrameBooks, IInv, CallType
<1>3. PICK f : f = Front(frames)
  OBVIOUS
<1>4. /\ Len(f) = Len(frames) - 1 /\ \A k \in 1..Len(f) : f[k] = frames[k]
      /\ Len(frames) \in Nat \ {0} /\ Last(frames) = frames[Len(frames)]
  BY <1>0, <1>1, <1>3, FrontOfFrames DEF ShapeIn
<1>5. TopFrameEnv = frames[Len(frames)].env
  BY <1>1, <1>2, <1>4 DEF TopFrameEnv
<1>6. Len(stack) = 0
  BY <1>1
<1>7. /\ Len(stack) \in Nat /\ Len(stack) \in 0..Len(stack) /\ Len(f) \in 0..Len(frames) - 1
      /\ Len(f) \in 0..Len(frames) /\ Len(frames) \in Nat /\ Kept \subseteq Kept
      /\ \A k \in 1..Len(f) : f[k].env = frames[k].env
  BY <1>4, <1>6
<1>8. Safe(heap, stack, frames, Kept, PooledIn(pool))
  BY <1>1, PoolNow
<1>9. \A i \in 1..Len(stack) : /\ stack[i].scope = stack[i].scope
                               /\ stack[i].frame = stack[i].frame /\ stack[i].kind = stack[i].kind
  OBVIOUS
<1>10. Safe(heap, stack, f, Kept, PooledIn(pool))
  BY ONLY <1>7, <1>8, <1>9, SafeLess
<1>11. \A i \in 1..Len(stack) : /\ stack[i].scope = stack[i].scope
                                /\ Level(stack, i) < Len(frames) /\ Level(stack, i) \in Nat
  BY <1>6
<1>12. Leaves(TopFrameEnv, stack, f, Kept)
  BY <1>1, <1>4, <1>5, <1>7, <1>10, <1>11, DeferredLeaves
<1>13. Leaves(Nil, stack, f, Kept) /\ (TopFrameEnv # Nil => TopFrameEnv # Nil)
  BY DEF Leaves
<1>14. Safe(heap', stack, f, Kept, PooledIn(pool')) /\ PoolType(pool') /\ Once(pool')
  BY <1>1, <1>10, <1>12, <1>13, RecycleStep
<1>15. Kept' = Kept /\ frames' = f /\ stack' = stack
  BY <1>1, <1>3 DEF Kept
<1> QED BY <1>14, <1>15, PoolThen

(* The end of a module.                                                     *)
LEMMA LeaveModulePool ==
    ASSUME PoolInv, IInv, LeaveModule
    PROVE  PoolInv'
<1>0. PICK A : ShapeIn(A)
  BY DEF IInv, Shape
<1>1. /\ Running /\ stack' = Front(stack) /\ UNCHANGED <<heap, pool, frames, closures, streams>>
  BY DEF LeaveModule, KeepFrames
<1>2. PICK s : s = Front(stack)
  OBVIOUS
<1>3. /\ Len(s) = Len(stack) - 1 /\ \A k \in 1..Len(s) : s[k] = stack[k]
      /\ Len(stack) \in Nat \ {0} /\ Len(frames) \in Nat
  BY <1>0, <1>1, <1>2, FrontOfStack, StackNow, DepthIf DEF ShapeIn, Running, Depths
<1>4. /\ Len(s) \in 0..Len(stack) /\ Len(frames) \in 0..Len(frames) /\ Kept \subseteq Kept
      /\ \A i \in 1..Len(s) :
            s[i].scope = stack[i].scope /\ s[i].frame = stack[i].frame /\ s[i].kind = stack[i].kind
      /\ \A k \in 1..Len(frames) : frames[k].env = frames[k].env
      /\ Len(stack) \in Nat
  BY <1>3
<1>5. Safe(heap, stack, frames, Kept, PooledIn(pool)) /\ PoolType(pool) /\ Once(pool)
  BY PoolNow DEF IInv
<1>6. Safe(heap, s, frames, Kept, PooledIn(pool))
  BY ONLY <1>3, <1>4, <1>5, SafeLess
<1>7. Kept' = Kept /\ stack' = s
  BY <1>1, <1>2 DEF Kept
<1> QED BY <1>1, <1>5, <1>6, <1>7, PoolThen

-----------------------------------------------------------------------------
(* The host.                                                                 *)

(* Errors, the jump, and the phases of the host.                            *)
LEMMA QuietPool ==
    ASSUME PoolInv, IInv,
           \/ UNCHANGED vars \/ TooDeep \/ Fail \/ Catch \/ MemoryJump \/ Finish
           \/ (\E mutable : EndLoad(mutable)) \/ BeginUnwind \/ Unwind \/ EndUnwind \/ FreeContext
    PROVE  PoolInv'
<1>0. Len(streams) \in Nat /\ \E A : streams \in Seq(StreamOf(A))
  BY SeqsNow DEF IInv, Shape, ShapeIn
<1>1. /\ UNCHANGED <<heap, pool, frames, closures>> /\ (stack' = stack \/ stack' = <<>>)
      /\ \/ UNCHANGED streams \/ streams' = <<>>
         \/ phase = "unwind" /\ streams' = SubSeq(streams, 1, checkpoint.streams)
  <2>1. CASE UNCHANGED vars
    BY <2>1 DEF vars, frameVars, callVars
  <2>2. CASE TooDeep
    BY <2>2 DEF TooDeep, KeepFrames, KeepData
  <2>3. CASE Fail \/ Catch \/ MemoryJump \/ Finish
    BY <2>3 DEF Fail, Catch, MemoryJump, Finish, KeepFrames, KeepData, KeepRun, KeepCalls
  <2>4. CASE (\E mutable : EndLoad(mutable)) \/ FreeContext
    BY <2>4 DEF EndLoad, FreeContext, Release, KeepFrames, KeepData
  <2>5. CASE BeginUnwind \/ EndUnwind
    BY <2>5 DEF BeginUnwind, EndUnwind, KeepFrames, KeepData
  <2>6. CASE Unwind
    BY <2>6 DEF Unwind, KeepFrames
  <2> QED BY <2>1, <2>2, <2>3, <2>4, <2>5, <2>6
<1>2. Len(streams') \in 0..Len(streams) /\ \A i \in 1..Len(streams') : streams'[i] = streams[i]
  <2>1. CASE UNCHANGED streams
    BY <1>0, <2>1
  <2>2. CASE streams' = <<>>
    <3>1. Len(streams') = 0
      BY <2>2
    <3> QED BY <1>0, <3>1
  <2>3. CASE phase = "unwind" /\ streams' = SubSeq(streams, 1, checkpoint.streams)
    <3>1. checkpoint.streams \in Nat /\ checkpoint.streams <= Len(streams)
      BY <2>3 DEF IInv, CallType, Agreement, Boundary
    <3> QED BY <1>0, <2>3, <3>1
  <2> QED BY <1>1, <2>1, <2>2, <2>3
<1>3. Kept' \subseteq Kept
  <2>1. \A i \in 1..Len(streams') : i \in 1..Len(streams)
    BY <1>0, <1>2
  <2> QED BY <1>1, <1>2, <2>1 DEF Kept
<1> QED BY <1>1, <1>3, FewerPool

(* The application calls its context.                                       *)
LEMMA EnterCallPool ==
    ASSUME PoolInv, IInv, IInv', EnterCall
    PROVE  PoolInv'
<1> DEFINE a == [Activation("host", Nil, Main, NoContract) EXCEPT !.result = "begun"]
<1>1. /\ phase = "idle" /\ stack' = <<a>> /\ UNCHANGED <<heap, pool, frames, closures, streams>>
  BY DEF EnterCall, KeepFrames, KeepData
<1>2. stack = <<>> /\ frames = <<>>
  BY <1>1 DEF IInv, Agreement, Boundary
<1>3. a.frame = Nil /\ a.scope = Main /\ a.kind = "host"
  BY DEF Activation
<1> HIDE DEF a
<1>4. stack' = Append(stack, a)
  BY <1>1, <1>2
<1>5. Safe(heap', stack, frames, Kept, PooledIn(pool')) /\ PoolType(pool') /\ Once(pool')
  BY <1>1, PoolNow DEF IInv
<1>6. Main \in Holders \cap Places
  BY HoldersHeld, PlaceFacts DEF Holders
<1>7. \A k \in 1..Len(frames') : k \in 1..Len(frames) /\ frames'[k].env = frames[k].env
  BY <1>1
<1>8. /\ a.frame = Nil /\ a.kind \notin {"program", "call", "direct", "module"}
      /\ a.scope \in Holders \cap Places /\ Nil \in Places \cup {Nil}
  BY <1>3, <1>6
<1> QED BY <1>1, <1>4, <1>5, <1>7, <1>8, BeginsPool

(* Every action keeps the invariant.                                        *)
LEMMA NextPool ==
    ASSUME PoolInv, IInv, IInv', [Next]_vars
    PROVE  PoolInv'
<1>1. CASE UNCHANGED vars
  BY <1>1, QuietPool
<1>2. ASSUME NEW p \in Places, NEW e \in Places, NEW c \in Capacities,
             Call(p, c, e) \/ CallDirect(p, c, e)
      PROVE  PoolInv'
  BY <1>2, CallPool
<1>3. CASE TooDeep \/ Fail \/ Catch \/ MemoryJump \/ Finish \/ BeginUnwind \/ Unwind \/ EndUnwind
             \/ FreeContext \/ (\E mutable : EndLoad(mutable))
  BY <1>3, QuietPool
<1>4. CASE EnterBlock \/ LeaveBlock \/ Declare
  BY <1>4, EnterBlockPool, LeaveBlockPool, DeclarePool
<1>5. CASE (\E c, t : Builtin(c, t)) \/ (\E g : Begin(g))
  BY <1>5, BuiltinPool
<1>6. CASE MakeClosure \/ (\E e : DropClosure(e)) \/ (\E rows : MakeStream(rows))
  BY <1>6, HoldsPool
<1>7. CASE (\E r : Return(r)) \/ (\E commits : EndTransaction(commits))
  BY <1>7, ReturnPool
<1>8. ASSUME NEW m, NEW runs, Import(m, runs)
      PROVE  PoolInv'
  BY <1>8, ImportPool
<1>9. CASE LeaveModule \/ UnwindFrame \/ EnterCall
  BY <1>9, LeaveModulePool, UnwindFramePool, EnterCallPool
<1> QED BY <1>1, <1>2, <1>3, <1>4, <1>5, <1>6, <1>7, <1>8, <1>9 DEF Next

(* At first there is the environment of the program.                         *)
LEMMA InitPool == Init => PoolInv
<1> SUFFICES ASSUME Init PROVE PoolInv
  OBVIOUS
<1> DEFINE a == [kind |-> "program", frame |-> Main, scope |-> Main, name |-> NoContract,
                 was |-> now, handle |-> 0, result |-> "none"]
<1>1. /\ heap = [e \in Places |-> [parent |-> Nil, escaped |-> FALSE, size |-> 0]]
      /\ pool = [b \in Buckets |-> <<>>] /\ stack = <<a>> /\ frames = <<>>
      /\ closures = {} /\ streams = <<>>
  BY DEF Init, FramesInit
<1>2. a.frame = Main /\ a.scope = Main /\ a.kind = "program"
  OBVIOUS
<1> HIDE DEF a
<1>3. Len(stack) = 1 /\ stack[1] = a /\ Len(frames) = 0 /\ Len(streams) = 0
  BY <1>1
<1>4. Kept = {}
  BY <1>1, <1>3 DEF Kept
<1>5. HeapType(heap) /\ \A e \in Places : heap[e].parent = Nil /\ ~heap[e].escaped
  BY <1>1 DEF HeapType
<1>6. \A S : Reach(heap, S) \subseteq Places
  BY ReachHas
<1>7. EscapesUp(heap, stack, frames, Kept)
  BY <1>4, <1>5, <1>6, PlaceFacts DEF EscapesUp
<1>8. Scopes(heap, stack)
  <2>1. Main \in From(heap, Main) /\ Encloses(heap, Main)
    BY <1>5, PlaceFacts, FromHas DEF Encloses
  <2> QED BY <1>2, <1>3, <2>1, PlaceFacts DEF Scopes
<1>9. Apart(heap, stack) /\ Answers(heap, stack, frames)
  BY <1>2, <1>3 DEF Apart, Answers
<1>10. PoolType(pool) /\ \A b \in Buckets : Len(pool[b]) = 0
  BY <1>1 DEF PoolType
<1>11. Once(pool) /\ PooledIn(pool) = {}
  BY <1>10 DEF Once, PooledIn
<1>12. Safe(heap, stack, frames, Kept, PooledIn(pool))
  BY <1>5, <1>7, <1>8, <1>9, <1>11 DEF Safe
<1> QED BY <1>10, <1>11, <1>12, PoolIf

(* No environment in the pool is reached by anything alive, nor is one in it  *)
(* twice, however the calls that used them ended (call_frame_recycle, which  *)
(* puts back what env_mark_escaped has not marked).                          *)
THEOREM PoolStaysPrivate == Spec => []PoolIsPrivate
<1>1. Init => IInv /\ PoolInv
  BY InitAgrees, InitPool
<1>2. (IInv /\ PoolInv) /\ [Next]_vars => (IInv /\ PoolInv)'
  BY NextStep, NextPool
<1>3. IInv /\ PoolInv => PoolIsPrivate
  <2> SUFFICES ASSUME IInv, PoolInv PROVE PoolIsPrivate
    OBVIOUS
  <2>1. Pooled \cap Reach(heap, Holders) = {}
    BY PoolNow DEF IInv
  <2>2. \A f, g \in Spots : InSpot(f) = InSpot(g) => f = g
    BY DEF PoolInv, PoolOnce
  <2>3. Reached(Roots \ {Nil}) = Reach(heap, Holders)
    BY RootsAre DEF IInv
  <2> QED BY <2>1, <2>2, <2>3 DEF PoolIsPrivate
<1> QED BY <1>1, <1>2, <1>3, PTL DEF Spec

-----------------------------------------------------------------------------
(* What the counters of the pool say.                                        *)

UnitsOf(h, e) == {e} \X (1 .. 1 + h[e].size)

(* As many as the bytes of what is in P.                                     *)
Units(h, P) == UNION {UnitsOf(h, e) : e \in P}

CountsIn(h, P, r) ==
    /\ r \in [count : Nat, bytes : Nat] /\ IsFiniteSet(Units(h, P))
    /\ bounded => /\ r.count = Cardinality(P) /\ r.bytes = Cardinality(Units(h, P))
                  /\ r.count <= PoolCount /\ r.bytes <= PoolBytes

(* The bytes of one environment.                                            *)
LEMMA UnitsOfOne ==
    ASSUME NEW h, HeapType(h), NEW e \in Places
    PROVE  /\ IsFiniteSet(UnitsOf(h, e)) /\ Cardinality(UnitsOf(h, e)) = 1 + h[e].size
           /\ h[e].size \in Nat
<1>1. h[e].size \in Nat
  BY DEF HeapType
<1> DEFINE n == 1 + h[e].size
<1>2. n \in Nat
  BY <1>1
<1>3. IsFiniteSet(1..n) /\ Cardinality(1..n) = n
  <2> HIDE DEF n
  <2>1. IsFiniteSet(1..n) /\ Cardinality(1..n) = IF 1 > n THEN 0 ELSE n - 1 + 1
    BY <1>2, FS_Interval
  <2> QED BY <1>2, <2>1
<1>4. IsFiniteSet({e}) /\ Cardinality({e}) = 1
  BY FS_Singleton
<1> HIDE DEF n
<1>5. IsFiniteSet({e} \X (1..n)) /\ Cardinality({e} \X (1..n)) = Cardinality({e}) * Cardinality(1..n)
  BY <1>3, <1>4, FS_Product
<1>6. 1 * n = n
  BY <1>2
<1> QED BY <1>1, <1>3, <1>4, <1>5, <1>6 DEF UnitsOf, n

(* One more in the set: as many bytes more as it has.                       *)
LEMMA UnitsMore ==
    ASSUME NEW h, HeapType(h), NEW P \in SUBSET Places, NEW e \in Places, e \notin P,
           IsFiniteSet(Units(h, P))
    PROVE  /\ IsFiniteSet(Units(h, P \cup {e}))
           /\ Cardinality(Units(h, P)) \in Nat /\ h[e].size \in Nat
           /\ Cardinality(Units(h, P \cup {e})) = Cardinality(Units(h, P)) + (1 + h[e].size)
           /\ IsFiniteSet(P) /\ Cardinality(P) \in Nat
           /\ Cardinality(P \cup {e}) = Cardinality(P) + 1
<1>1. Units(h, P \cup {e}) = Units(h, P) \cup UnitsOf(h, e)
  BY DEF Units
<1>2. Units(h, P) \cap UnitsOf(h, e) = {}
  <2> SUFFICES ASSUME NEW u \in Units(h, P), u \in UnitsOf(h, e) PROVE FALSE
    OBVIOUS
  <2>1. PICK x \in P : u \in UnitsOf(h, x)
    BY DEF Units
  <2> QED BY <2>1 DEF UnitsOf
<1>3. /\ IsFiniteSet(UnitsOf(h, e)) /\ Cardinality(UnitsOf(h, e)) = 1 + h[e].size
      /\ h[e].size \in Nat
  BY UnitsOfOne
<1>4. /\ IsFiniteSet(Units(h, P) \cup UnitsOf(h, e))
      /\ Cardinality(Units(h, P) \cup UnitsOf(h, e))
            = Cardinality(Units(h, P)) + Cardinality(UnitsOf(h, e)) - Cardinality({})
  BY <1>2, <1>3, FS_Union
<1>5. Cardinality({}) = 0 /\ Cardinality(Units(h, P)) \in Nat
  BY FS_EmptySet, FS_CardinalityType
<1>6. IsFiniteSet(P)
  BY PlaceFacts, FS_Subset
<1>7. Cardinality(P) \in Nat /\ Cardinality(P \cup {e}) = Cardinality(P) + 1
  BY <1>6, FS_CardinalityType, FS_AddElement
<1>8. PICK c \in Nat : c = Cardinality(Units(h, P))
  BY <1>5
<1>9. PICK d \in Nat : d = 1 + h[e].size
  BY <1>3
<1>10. Cardinality(Units(h, P \cup {e})) = c + d
  <2>1. Cardinality(UnitsOf(h, e)) = d
    BY <1>3, <1>9
  <2>2. Cardinality(Units(h, P) \cup UnitsOf(h, e)) = c + d - 0
    BY ONLY <1>4, <1>5, <1>8, <2>1
  <2>3. c + d - 0 = c + d
    OBVIOUS
  <2> QED BY ONLY <1>1, <2>2, <2>3
<1>11. IsFiniteSet(Units(h, P \cup {e}))
  BY <1>1, <1>4
<1> QED BY <1>3, <1>5, <1>6, <1>7, <1>8, <1>9, <1>10, <1>11

(* One less.                                                                *)
LEMMA UnitsLess ==
    ASSUME NEW h, HeapType(h), NEW P \in SUBSET Places, NEW e \in P, IsFiniteSet(Units(h, P))
    PROVE  /\ IsFiniteSet(Units(h, P \ {e}))
           /\ Cardinality(Units(h, P \ {e})) \in Nat /\ h[e].size \in Nat
           /\ Cardinality(Units(h, P)) = Cardinality(Units(h, P \ {e})) + (1 + h[e].size)
           /\ Cardinality(P \ {e}) \in Nat /\ Cardinality(P) = Cardinality(P \ {e}) + 1
<1> DEFINE Q == P \ {e}
<1>1. Q \in SUBSET Places /\ e \in Places /\ e \notin Q /\ Q \cup {e} = P
  OBVIOUS
<1>2. IsFiniteSet(Units(h, Q))
  <2>1. Units(h, Q) \subseteq Units(h, P)
    BY DEF Units
  <2> QED BY <2>1, FS_Subset
<1> HIDE DEF Q
<1>3. /\ IsFiniteSet(Units(h, Q)) /\ Cardinality(Units(h, Q)) \in Nat /\ h[e].size \in Nat
      /\ Cardinality(Units(h, Q \cup {e})) = Cardinality(Units(h, Q)) + (1 + h[e].size)
      /\ Cardinality(Q) \in Nat /\ Cardinality(Q \cup {e}) = Cardinality(Q) + 1
  BY <1>1, <1>2, UnitsMore
<1> QED BY <1>1, <1>3 DEF Q

(* The bytes are those of the environments in the set alone.                *)
LEMMA UnitsSame ==
    ASSUME NEW h, NEW g, NEW P, \A e \in P : g[e].size = h[e].size
    PROVE  Units(g, P) = Units(h, P)
BY DEF Units, UnitsOf

CountNow == CountsIn(heap, PooledIn(pool), retained)

(* Nothing the pool has is resized.                                          *)
LEMMA CountSame ==
    ASSUME PoolInv, Shape, CountNow, UNCHANGED <<bounded, pool, retained>>,
           \A e \in PooledIn(pool) : heap'[e].size = heap[e].size
    PROVE  CountNow'
<1>1. Units(heap', PooledIn(pool)) = Units(heap, PooledIn(pool))
  BY UnitsSame
<1>2. CountsIn(heap, PooledIn(pool), retained)
  BY DEF CountNow
<1>3. /\ retained \in [count : Nat, bytes : Nat] /\ IsFiniteSet(Units(heap', PooledIn(pool')))
      /\ bounded' => /\ retained.count = Cardinality(PooledIn(pool'))
                     /\ retained.bytes = Cardinality(Units(heap', PooledIn(pool')))
                     /\ retained.count <= PoolCount /\ retained.bytes <= PoolBytes
  BY <1>1, <1>2 DEF CountsIn
<1> QED BY <1>3 DEF CountNow, CountsIn, PooledIn, Buckets, Units, UnitsOf

(* The counts of the next state.                                            *)
LEMMA CountThen ==
    ASSUME bounded' = bounded, CountsIn(heap', PooledIn(pool'), retained')
    PROVE  CountNow'
BY DEF CountNow, CountsIn, PooledIn, Buckets, Units, UnitsOf

(* call_frame_acquire takes from the counters what it takes from the pool.  *)
LEMMA AcquireCounts ==
    ASSUME PoolInv, Shape, CountNow, NEW e, NEW p, NEW n \in Nat, Acquire(e, Free, p, n), e # Nil,
           bounded' = bounded
    PROVE  CountNow'
<1>0. /\ PoolType(pool) /\ Once(pool) /\ Pooled = PooledIn(pool) /\ HeapType(heap)
      /\ PooledIn(pool) \cap Reach(heap, Holders) = {} /\ PooledIn(pool) \in SUBSET Places
  BY PoolNow DEF PooledIn
<1>1. CASE Fits(n) # {}
  <2>1. AcquireOld(e, p, FirstFit(n))
    BY <1>1 DEF Acquire
  <2>2. PICK b \in Buckets : \E i \in 1..Len(pool[b]) : FirstFit(n) = <<b, i>>
    BY <1>0, <1>1, FirstFitIs
  <2>3. PICK i \in 1..Len(pool[b]) : FirstFit(n) = <<b, i>>
    BY <2>2
  <2>4. InSpot(<<b, i>>) = pool[b][i] /\ pool[b][i] \in Places
    BY <1>0, SpotsAre
  <2>5. AcquireOld(e, p, <<b, i>>)
    BY <2>1, <2>3
  <2>6. /\ e = pool[b][i] /\ pool' = [pool EXCEPT ![b] = RemoveAt(@, i)]
        /\ heap' = [heap EXCEPT ![e] = NewEnv(p, heap[e].size)]
        /\ retained' = IF bounded THEN [count |-> retained.count - 1,
                                        bytes |-> retained.bytes - (1 + heap[e].size)]
                       ELSE retained
    <3>1. /\ e = InSpot(<<b, i>>) /\ pool' = [pool EXCEPT ![<<b, i>>[1]] = RemoveAt(@, <<b, i>>[2])]
          /\ heap' = [heap EXCEPT ![e] = NewEnv(p, @.size)]
          /\ retained' = IF bounded THEN [count |-> retained.count - 1,
                                          bytes |-> retained.bytes - (1 + heap[e].size)]
                         ELSE retained
      BY <2>5 DEF AcquireOld, BytesOf
    <3>2. <<b, i>>[1] = b /\ <<b, i>>[2] = i
      OBVIOUS
    <3> QED BY <2>4, <3>1, <3>2
  <2>7. /\ e \in PooledIn(pool) /\ PooledIn(pool') = PooledIn(pool) \ {e}
    BY <1>0, <2>6, TakeOut
  <2> DEFINE P == PooledIn(pool)
             Q == P \ {e}
  <2>8. /\ retained \in [count : Nat, bytes : Nat] /\ IsFiniteSet(Units(heap, P))
        /\ bounded => /\ retained.count = Cardinality(P) /\ retained.bytes = Cardinality(Units(heap, P))
                      /\ retained.count <= PoolCount /\ retained.bytes <= PoolBytes
    BY DEF CountNow, CountsIn
  <2>9. PICK c : c = 1 + heap[e].size
    OBVIOUS
  <2>10. /\ IsFiniteSet(Units(heap, Q)) /\ Cardinality(Units(heap, Q)) \in Nat /\ c \in Nat
         /\ Cardinality(Units(heap, P)) = Cardinality(Units(heap, Q)) + c
         /\ Cardinality(Q) \in Nat /\ Cardinality(P) = Cardinality(Q) + 1
    <3>1. P \in SUBSET Places /\ e \in P /\ IsFiniteSet(Units(heap, P)) /\ HeapType(heap)
      BY <1>0, <2>7, <2>8
    <3> HIDE DEF P
    <3>2. /\ IsFiniteSet(Units(heap, Q)) /\ Cardinality(Units(heap, Q)) \in Nat
          /\ heap[e].size \in Nat
          /\ Cardinality(Units(heap, P)) = Cardinality(Units(heap, Q)) + (1 + heap[e].size)
          /\ Cardinality(Q) \in Nat /\ Cardinality(P) = Cardinality(Q) + 1
      BY ONLY <3>1, UnitsLess
    <3> QED BY <2>9, <3>2
  <2>11. Units(heap', Q) = Units(heap, Q)
    <3>1. \A x \in Q : heap'[x].size = heap[x].size
      BY <1>0, <2>6 DEF HeapType
    <3> HIDE DEF Q
    <3> QED BY <3>1, UnitsSame
  <2>12. PoolCount \in Nat /\ PoolBytes \in Nat
    BY FramesAssumption
  <2>13. retained' = IF bounded THEN [count |-> retained.count - 1, bytes |-> retained.bytes - c]
                     ELSE retained
    BY <2>6, <2>9
  <2> HIDE DEF P, Q
  <2>14. /\ retained' \in [count : Nat, bytes : Nat]
         /\ bounded => /\ retained'.count = Cardinality(Q) /\ retained'.bytes = Cardinality(Units(heap, Q))
                       /\ retained'.count <= PoolCount /\ retained'.bytes <= PoolBytes
    <3>1. CASE bounded
      <4>1. retained'.count = Cardinality(Q) /\ retained'.bytes = Cardinality(Units(heap, Q))
        BY <2>8, <2>10, <2>13, <3>1
      <4>2. retained' = [count |-> Cardinality(Q), bytes |-> Cardinality(Units(heap, Q))]
        BY <2>8, <2>10, <2>13, <3>1
      <4>3. Cardinality(Q) <= PoolCount /\ Cardinality(Units(heap, Q)) <= PoolBytes
        BY <2>8, <2>10, <2>12, <3>1
      <4> QED BY <2>10, <4>1, <4>2, <4>3
    <3>2. CASE ~bounded
      BY <2>8, <2>13, <3>2
    <3> QED BY <3>1, <3>2
  <2>15. CountsIn(heap', PooledIn(pool'), retained')
    BY <2>7, <2>10, <2>11, <2>14 DEF CountsIn, P, Q
  <2> QED BY <2>15, CountThen
<1>2. CASE Fits(n) = {}
  <2>1. e = Free /\ heap' = [heap EXCEPT ![e] = NewEnv(p, n)] /\ UNCHANGED <<pool, retained>>
    BY <1>2 DEF Acquire, AcquireNew
  <2>2. e \notin PooledIn(pool)
    BY <1>0, <2>1, FreeIs
  <2>3. \A x \in PooledIn(pool) : heap'[x].size = heap[x].size
    BY <1>0, <2>1, <2>2 DEF HeapType
  <2> QED BY <2>1, <2>3, CountSame
<1> QED BY <1>1, <1>2

(* call_frame_recycle adds to the counters what it adds to the pool.        *)
LEMMA RecycledCounts ==
    ASSUME NEW r, HeapType(r.heap), PoolType(r.pool), Once(r.pool), NEW e \in Places,
           e \notin PooledIn(r.pool), r.heap[e].size = heap[e].size,
           CountsIn(r.heap, PooledIn(r.pool), r.retained)
    PROVE  LET q == Recycled(r, e)
           IN  /\ HeapType(q.heap) /\ PoolType(q.pool) /\ Once(q.pool)
               /\ PooledIn(q.pool) \subseteq PooledIn(r.pool) \cup {e}
               /\ \A x \in Places : q.heap[x].size = r.heap[x].size
               /\ CountsIn(q.heap, PooledIn(q.pool), q.retained)
<1>1. CASE ~Keeps(r, e)
  BY <1>1 DEF Recycled
<1>2. CASE Keeps(r, e)
  <2> DEFINE b == BucketOf(heap[e].size)
             g == [r.heap EXCEPT ![e].parent = Nil]
             p == [r.pool EXCEPT ![b] = <<e>> \o @]
             n == IF bounded THEN [count |-> r.retained.count + 1,
                                   bytes |-> r.retained.bytes + (1 + heap[e].size)]
                  ELSE r.retained
             q == Recycled(r, e)
             P == PooledIn(r.pool)
  <2>1. b \in Buckets
    BY BucketIs
  <2>2. q.heap = g /\ q.pool = p /\ q.retained = n
    BY <1>2 DEF Recycled, BytesOf
  <2>3. bounded => r.retained.count < PoolCount /\ r.retained.bytes + (1 + heap[e].size) <= PoolBytes
    BY <1>2 DEF Keeps, BytesOf
  <2>4. HeapType(g) /\ \A x \in Places : g[x].size = r.heap[x].size
    BY DEF HeapType
  <2> HIDE DEF b, q
  <2>5. PoolType(p) /\ Once(p) /\ PooledIn(p) = P \cup {e}
    BY <2>1, PutIn
  <2> HIDE DEF g, p
  <2>6. P \in SUBSET Places /\ e \notin P /\ e \in Places
    BY DEF PooledIn
  <2>7. /\ r.retained \in [count : Nat, bytes : Nat] /\ IsFiniteSet(Units(r.heap, P))
        /\ bounded => /\ r.retained.count = Cardinality(P)
                      /\ r.retained.bytes = Cardinality(Units(r.heap, P))
    BY DEF CountsIn
  <2>8. PICK c : c = 1 + heap[e].size
    OBVIOUS
  <2> HIDE DEF P
  <2>9. /\ IsFiniteSet(Units(r.heap, P \cup {e}))
        /\ Cardinality(Units(r.heap, P)) \in Nat /\ r.heap[e].size \in Nat
        /\ Cardinality(Units(r.heap, P \cup {e})) = Cardinality(Units(r.heap, P)) + (1 + r.heap[e].size)
        /\ Cardinality(P) \in Nat /\ Cardinality(P \cup {e}) = Cardinality(P) + 1
    BY ONLY <2>6, <2>7, UnitsMore, HeapType(r.heap)
  <2>10. /\ c \in Nat
         /\ Cardinality(Units(r.heap, P \cup {e})) = Cardinality(Units(r.heap, P)) + c
    BY <2>8, <2>9
  <2>11. Units(g, P \cup {e}) = Units(r.heap, P \cup {e})
    <3>1. \A x \in P \cup {e} : g[x].size = r.heap[x].size
      BY <2>4, <2>6
    <3> QED BY <3>1, UnitsSame
  <2>12. n = IF bounded THEN [count |-> r.retained.count + 1, bytes |-> r.retained.bytes + c]
             ELSE r.retained
    BY <2>8
  <2> HIDE DEF n
  <2>13. PoolCount \in Nat /\ PoolBytes \in Nat
    BY FramesAssumption
  <2>14. /\ n \in [count : Nat, bytes : Nat]
         /\ bounded => /\ n.count = Cardinality(P \cup {e})
                       /\ n.bytes = Cardinality(Units(r.heap, P \cup {e}))
                       /\ n.count <= PoolCount /\ n.bytes <= PoolBytes
    <3>1. CASE bounded
      <4>1. n = [count |-> r.retained.count + 1, bytes |-> r.retained.bytes + c]
        BY <2>12, <3>1
      <4>2. r.retained.count \in Nat /\ r.retained.bytes \in Nat
        BY <2>7
      <4>3. r.retained.count + 1 <= PoolCount /\ r.retained.bytes + c <= PoolBytes
        BY <2>3, <2>8, <2>13, <3>1, <4>2
      <4>4. /\ r.retained.count + 1 = Cardinality(P \cup {e})
            /\ r.retained.bytes + c = Cardinality(Units(r.heap, P \cup {e}))
        BY <2>7, <2>9, <2>10, <3>1
      <4> QED BY <2>10, <4>1, <4>2, <4>3, <4>4
    <3>2. CASE ~bounded
      BY <2>7, <2>12, <3>2
    <3> QED BY <3>1, <3>2
  <2>15. CountsIn(g, PooledIn(p), n)
    BY <2>5, <2>9, <2>11, <2>14 DEF CountsIn
  <2> QED BY <2>2, <2>4, <2>5, <2>15 DEF q, P
<1> QED BY <1>1, <1>2

(* So do both of its calls at the end of an activation.                     *)
LEMMA RecycleCounts ==
    ASSUME PoolInv, Shape, CountNow, NEW e, NEW d, e # Nil => e \in Holders \cap Places,
           d # Nil => d \in Holders \cap Places, e # Nil => e # d, Recycle(e, d), bounded' = bounded
    PROVE  CountNow'
<1> DEFINE was == [heap |-> heap, pool |-> pool, retained |-> retained]
           one == IF e = Nil THEN was ELSE Recycled(was, e)
           both == IF d = Nil THEN one ELSE Recycled(one, d)
<1>1. heap' = both.heap /\ pool' = both.pool /\ retained' = both.retained
  BY DEF Recycle
<1>2. was.heap = heap /\ was.pool = pool /\ was.retained = retained
  OBVIOUS
<1>3. PoolType(pool) /\ Once(pool) /\ HeapType(heap) /\ CountsIn(heap, PooledIn(pool), retained)
  BY PoolNow DEF CountNow
<1> HIDE DEF was
<1>4. /\ HeapType(one.heap) /\ PoolType(one.pool) /\ Once(one.pool)
      /\ PooledIn(one.pool) \subseteq PooledIn(pool) \cup (IF e = Nil THEN {} ELSE {e})
      /\ \A x \in Places : one.heap[x].size = heap[x].size
      /\ CountsIn(one.heap, PooledIn(one.pool), one.retained)
  <2>1. CASE e = Nil
    BY <1>2, <1>3, <2>1
  <2>2. CASE e # Nil
    <3>1. e \in Places /\ e \notin PooledIn(was.pool) /\ was.heap[e].size = heap[e].size
      BY <1>2, <2>2, HeldNotPooled
    <3>2. /\ HeapType(was.heap) /\ PoolType(was.pool) /\ Once(was.pool)
          /\ CountsIn(was.heap, PooledIn(was.pool), was.retained)
      BY <1>2, <1>3
    <3>3. one = Recycled(was, e)
      BY <2>2
    <3> HIDE DEF one
    <3>4. /\ HeapType(one.heap) /\ PoolType(one.pool) /\ Once(one.pool)
          /\ PooledIn(one.pool) \subseteq PooledIn(was.pool) \cup {e}
          /\ \A x \in Places : one.heap[x].size = was.heap[x].size
          /\ CountsIn(one.heap, PooledIn(one.pool), one.retained)
      BY ONLY <3>1, <3>2, <3>3, RecycledCounts
    <3> QED BY ONLY <1>2, <2>2, <3>4
  <2> QED BY <2>1, <2>2
<1> HIDE DEF one
<1>5. CountsIn(both.heap, PooledIn(both.pool), both.retained)
  <2>1. CASE d = Nil
    BY <1>4, <2>1
  <2>2. CASE d # Nil
    <3>1. d \in Places /\ d \notin PooledIn(one.pool) /\ one.heap[d].size = heap[d].size
      <4>1. d \in Places /\ d \notin PooledIn(pool) /\ d # e
        BY <2>2, HeldNotPooled
      <4> QED BY <1>4, <4>1
    <3>2. /\ HeapType(one.heap) /\ PoolType(one.pool) /\ Once(one.pool)
          /\ CountsIn(one.heap, PooledIn(one.pool), one.retained)
      BY <1>4
    <3>3. both = Recycled(one, d)
      BY <2>2
    <3> HIDE DEF both
    <3> QED BY ONLY <3>1, <3>2, <3>3, RecycledCounts
  <2> QED BY <2>1, <2>2
<1>6. CountsIn(heap', PooledIn(pool'), retained')
  BY <1>1, <1>5
<1> QED BY <1>6, CountThen

(* Nothing changes of what is counted.                                      *)
LEMMA FramesKeptCount ==
    ASSUME PoolInv, IInv, CountNow, UNCHANGED <<bounded, heap, pool, retained>>
    PROVE  CountNow'
BY CountSame DEF IInv

(* An environment changes that the pool does not have.                      *)
LEMMA HeldSize ==
    ASSUME PoolInv, IInv, CountNow, UNCHANGED <<bounded, pool, retained>>, NEW x, NEW y,
           heap' = [heap EXCEPT ![x] = y], x \notin PooledIn(pool)
    PROVE  CountNow'
<1>1. HeapType(heap) /\ PooledIn(pool) \subseteq Places /\ Shape
  BY PoolNow DEF PooledIn, IInv
<1>2. \A e \in PooledIn(pool) : heap'[e].size = heap[e].size
  BY <1>1 DEF HeapType
<1> QED BY <1>1, <1>2, CountSame

(* The environment of the top registered frame is held.                     *)
LEMMA TopFrameHeld ==
    ASSUME PoolInv, IInv, TopFrameEnv # Nil
    PROVE  TopFrameEnv \in Holders \cap Places
<1>0. PICK A : ShapeIn(A)
  BY DEF IInv, Shape
<1>1. frames # <<>>
  BY DEF TopFrameEnv
<1>2. Len(frames) \in Nat \ {0} /\ Last(frames) = frames[Len(frames)]
  BY <1>0, <1>1, FrontOfFrames DEF ShapeIn
<1>3. TopFrameEnv = frames[Len(frames)].env /\ Len(frames) \in 1..Len(frames)
  BY <1>1, <1>2 DEF TopFrameEnv
<1>4. Answers(heap, stack, frames)
  BY DEF PoolInv, Safe
<1> QED BY <1>3, <1>4, HoldersHeld DEF Answers, Holders

(* Every action keeps the counters right.                                   *)
LEMMA NextCount ==
    ASSUME PoolInv, IInv, CountNow, [Next]_vars
    PROVE  CountNow'
<1>0. Shape
  BY DEF IInv
<1>1. CASE UNCHANGED vars
  BY <1>1, FramesKeptCount DEF vars, frameVars
<1>2. ASSUME NEW p \in Places, NEW e \in Places, NEW c \in Capacities,
             Call(p, c, e) \/ CallDirect(p, c, e)
      PROVE  CountNow'
  <2>1. Acquire(e, Free, p, c) /\ e # Nil /\ bounded' = bounded
    BY <1>2 DEF Call, CallDirect
  <2>2. c \in Nat
    BY CallsAssumption
  <2> QED BY <1>0, <2>1, <2>2, AcquireCounts
<1>3. CASE TooDeep \/ Fail \/ Catch \/ MemoryJump \/ Finish \/ BeginUnwind \/ Unwind \/ EndUnwind
             \/ FreeContext \/ (\E mutable : EndLoad(mutable)) \/ LeaveBlock
             \/ (\E c, t : Builtin(c, t)) \/ (\E g : Begin(g)) \/ (\E e : DropClosure(e))
             \/ LeaveModule \/ EnterCall
  <2>1. UNCHANGED <<bounded, heap, pool, retained>>
    <3>1. CASE TooDeep \/ Fail \/ Catch \/ MemoryJump \/ Finish \/ LeaveBlock
      BY <3>1 DEF TooDeep, Fail, Catch, MemoryJump, Finish, LeaveBlock, KeepFrames, KeepRun, KeepCalls
    <3>2. CASE BeginUnwind \/ Unwind \/ EndUnwind
      BY <3>2 DEF BeginUnwind, Unwind, EndUnwind, KeepFrames
    <3>3. CASE FreeContext \/ (\E mutable : EndLoad(mutable))
      BY <3>3 DEF FreeContext, EndLoad, Release, KeepFrames
    <3>4. CASE (\E c, t : Builtin(c, t)) \/ (\E g : Begin(g)) \/ (\E e : DropClosure(e))
      BY <3>4 DEF Builtin, Begin, DropClosure, KeepFrames, KeepCalls
    <3>5. CASE LeaveModule \/ EnterCall
      BY <3>5 DEF LeaveModule, EnterCall, KeepFrames
    <3> QED BY <1>3, <3>1, <3>2, <3>3, <3>4, <3>5
  <2> QED BY <2>1, FramesKeptCount
<1>4. CASE EnterBlock
  <2>1. /\ Free # Nil /\ heap' = [heap EXCEPT ![Free] = NewEnv(Top.scope, 0)]
        /\ UNCHANGED <<bounded, pool, retained>>
    BY <1>4 DEF EnterBlock, KeepCalls
  <2>2. Free \notin PooledIn(pool)
    BY <1>0, <2>1, FreeIs, PoolNow
  <2> QED BY <2>1, <2>2, HeldSize
<1>5. CASE Declare
  <2>1. /\ Running /\ heap' = [heap EXCEPT ![Top.scope] = [heap[Top.scope] EXCEPT !.size = Grown]]
        /\ UNCHANGED <<bounded, pool, retained>>
    BY <1>5 DEF Declare, InCode, Grow, KeepCalls
  <2>2. Top.scope \in Holders \cap Places
    BY <2>1, TopHeld
  <2>3. Top.scope \notin PooledIn(pool)
    BY <1>0, <2>2, HeldNotPooled
  <2> QED BY <2>1, <2>3, HeldSize
<1>6. CASE MakeClosure \/ (\E rows : MakeStream(rows))
  <2>1. MarkEscaped(Top.scope) /\ UNCHANGED <<bounded, pool, retained>>
    BY <1>6 DEF MakeClosure, MakeStream, KeepCalls
  <2>2. HeapType(heap) /\ PooledIn(pool) \subseteq Places
    BY <1>0, PoolNow DEF PooledIn
  <2>3. \A e \in PooledIn(pool) : heap'[e].size = heap[e].size
    BY <2>1, <2>2 DEF MarkEscaped, HeapType
  <2> QED BY <1>0, <2>1, <2>3, CountSame
<1>7. CASE (\E r : Return(r)) \/ (\E commits : EndTransaction(commits))
  <2>1. Running /\ Recycle(EndOwn, EndDeferred) /\ bounded' = bounded
    BY <1>7 DEF Return, EndTransaction
  <2>2. EndOwn # Nil => EndOwn \in Holders \cap Places /\ EndOwn # EndDeferred
    <3>1. EndOwn # Nil => EndOwn = Top.frame /\ EndOwn # TopFrameEnv
      BY DEF EndOwn
    <3> QED BY <2>1, <3>1, TopHeld DEF EndDeferred
  <2>3. EndDeferred # Nil => EndDeferred \in Holders \cap Places
    BY TopFrameHeld DEF EndDeferred
  <2> QED BY <1>0, <2>1, <2>2, <2>3, RecycleCounts
<1>8. CASE UnwindFrame
  <2>1. Recycle(TopFrameEnv, Nil) /\ bounded' = bounded
    BY <1>8 DEF UnwindFrame
  <2>2. TopFrameEnv # Nil => TopFrameEnv \in Holders \cap Places
    BY TopFrameHeld
  <2>3. Nil # Nil => Nil \in Holders \cap Places
    OBVIOUS
  <2> QED BY <1>0, <2>1, <2>2, <2>3, RecycleCounts
<1>9. ASSUME NEW m, NEW runs, Import(m, runs)
      PROVE  CountNow'
  <2>1. UNCHANGED <<bounded, pool, retained>>
    BY <1>9 DEF Import
  <2>2. CASE runs /\ modules[m] = "absent"
    <3>1. Free # Nil /\ heap' = [heap EXCEPT ![Free] = NewEnv(Nil, 0)]
      BY <1>9, <2>2 DEF Import
    <3>2. Free \notin PooledIn(pool)
      BY <1>0, <3>1, FreeIs, PoolNow
    <3> QED BY <2>1, <3>1, <3>2, HeldSize
  <2>3. CASE ~(runs /\ modules[m] = "absent")
    BY <1>9, <2>1, <2>3, FramesKeptCount DEF Import
  <2> QED BY <2>2, <2>3
<1> QED BY <1>1, <1>2, <1>3, <1>4, <1>5, <1>6, <1>7, <1>8, <1>9 DEF Next

-----------------------------------------------------------------------------
(* The temporaries of the builtins on the stack, and what never leaves its    *)
(* type.                                                                     *)

Writing(s) == {i \in 1..Len(s) : s[i].kind = "builtin" /\ s[i].handle = 1}

TempBooks ==
    /\ temps \in Nat /\ Cardinality(Writing(stack)) <= temps
    /\ \A i \in 1..Len(stack) : stack[i].kind = "builtin" => stack[i].handle \in {0, 1}

(* There are finitely many on a stack.                                      *)
LEMMA WritingIs ==
    ASSUME NEW s, Len(s) \in Nat
    PROVE  IsFiniteSet(Writing(s)) /\ Cardinality(Writing(s)) \in Nat
<1>1. Writing(s) \in SUBSET (1..Len(s)) /\ IsFiniteSet(1..Len(s))
  BY FS_Interval DEF Writing
<1>2. IsFiniteSet(Writing(s))
  BY <1>1, FS_Subset
<1> QED BY <1>2, FS_CardinalityType

(* A stack that others were taken from has no more.                         *)
LEMMA WritingLess ==
    ASSUME NEW s, NEW t, Len(s) \in Nat, Len(t) \in 0..Len(s),
           \A i \in 1..Len(t) : t[i].kind = s[i].kind /\ t[i].handle = s[i].handle
    PROVE  Cardinality(Writing(t)) <= Cardinality(Writing(s))
<1>1. Writing(t) \in SUBSET Writing(s)
  BY DEF Writing
<1> QED BY <1>1, WritingIs, FS_Subset

(* One activation more.                                                      *)
LEMMA WritingMore ==
    ASSUME NEW s, NEW t, Len(s) \in Nat, Len(t) = Len(s) + 1,
           \A i \in 1..Len(s) : t[i].kind = s[i].kind /\ t[i].handle = s[i].handle
    PROVE  Cardinality(Writing(t)) = Cardinality(Writing(s))
              + (IF t[Len(t)].kind = "builtin" /\ t[Len(t)].handle = 1 THEN 1 ELSE 0)
<1> DEFINE n == Len(s) + 1
<1>1. IsFiniteSet(Writing(s)) /\ Cardinality(Writing(s)) \in Nat /\ n \notin Writing(s)
  BY WritingIs DEF Writing
<1>2. CASE t[Len(t)].kind = "builtin" /\ t[Len(t)].handle = 1
  <2>1. Writing(t) = Writing(s) \cup {n}
    BY <1>2 DEF Writing
  <2> HIDE DEF n
  <2>2. Cardinality(Writing(s) \cup {n}) = Cardinality(Writing(s)) + 1
    BY <1>1, FS_AddElement
  <2> QED BY <1>2, <2>1, <2>2
<1>3. CASE ~(t[Len(t)].kind = "builtin" /\ t[Len(t)].handle = 1)
  <2>1. Writing(t) = Writing(s)
    BY <1>3 DEF Writing
  <2> QED BY <1>1, <1>3, <2>1
<1> QED BY <1>2, <1>3

(* Activations end that have no temporary, or the jump leaves them.         *)
LEMMA TempsFewer ==
    ASSUME TempBooks, temps' = temps, Len(stack) \in Nat, Len(stack') \in 0..Len(stack),
           \A i \in 1..Len(stack') :
              stack'[i].kind = stack[i].kind /\ stack'[i].handle = stack[i].handle
    PROVE  TempBooks'
<1>1. Cardinality(Writing(stack')) <= Cardinality(Writing(stack))
  BY WritingLess
<1>2. Cardinality(Writing(stack)) \in Nat /\ Cardinality(Writing(stack')) \in Nat
  BY WritingIs
<1>3. temps' \in Nat /\ Cardinality(Writing(stack')) <= temps'
  BY <1>1, <1>2 DEF TempBooks
<1>4. \A i \in 1..Len(stack') : stack'[i].kind = "builtin" => stack'[i].handle \in {0, 1}
  BY DEF TempBooks
<1> QED BY <1>3, <1>4 DEF TempBooks, Writing

(* A builtin registers its temporary file.                                  *)
LEMMA TempsPushed ==
    ASSUME TempBooks, Shape, NEW a, stack' = Append(stack, a),
           a.kind = "builtin" => a.handle \in {0, 1},
           temps' = temps + (IF a.kind = "builtin" THEN a.handle ELSE 0)
    PROVE  TempBooks'
<1>0. PICK A : stack \in Seq(Act(A))
  BY DEF Shape, ShapeIn
<1>1. /\ Len(stack) \in Nat /\ Len(stack') = Len(stack) + 1 /\ stack'[Len(stack')] = a
      /\ \A k \in 1..Len(stack) : stack'[k] = stack[k]
  BY <1>0, AppendAny
<1>2. Cardinality(Writing(stack')) = Cardinality(Writing(stack))
         + (IF a.kind = "builtin" /\ a.handle = 1 THEN 1 ELSE 0)
  BY <1>1, WritingMore
<1>3. Cardinality(Writing(stack)) \in Nat
  BY <1>1, WritingIs
<1>4. temps' \in Nat /\ Cardinality(Writing(stack')) <= temps'
  BY <1>2, <1>3 DEF TempBooks
<1>5. \A i \in 1..Len(stack') : stack'[i].kind = "builtin" => stack'[i].handle \in {0, 1}
  BY <1>1 DEF TempBooks
<1> QED BY <1>4, <1>5 DEF TempBooks, Writing

(* It gives it back.                                                        *)
LEMMA TempsPopped ==
    ASSUME TempBooks, Len(stack) \in Nat \ {0}, Len(stack') = Len(stack) - 1,
           \A i \in 1..Len(stack') :
              stack'[i].kind = stack[i].kind /\ stack'[i].handle = stack[i].handle,
           temps' = temps - (IF stack[Len(stack)].kind = "builtin" THEN stack[Len(stack)].handle ELSE 0)
    PROVE  TempBooks'
<1> DEFINE a == stack[Len(stack)]
<1>1. Len(stack') \in Nat /\ Len(stack) = Len(stack') + 1
  OBVIOUS
<1>2. Cardinality(Writing(stack)) = Cardinality(Writing(stack'))
         + (IF a.kind = "builtin" /\ a.handle = 1 THEN 1 ELSE 0)
  BY <1>1, WritingMore
<1>3. Cardinality(Writing(stack')) \in Nat
  BY <1>1, WritingIs
<1>4. a.kind = "builtin" => a.handle \in {0, 1}
  BY DEF TempBooks
<1>5. temps' \in Nat /\ Cardinality(Writing(stack')) <= temps'
  BY <1>2, <1>3, <1>4 DEF TempBooks
<1>6. \A i \in 1..Len(stack') : stack'[i].kind = "builtin" => stack'[i].handle \in {0, 1}
  BY <1>1 DEF TempBooks
<1> QED BY <1>5, <1>6 DEF TempBooks, Writing

(* Every action keeps the number of temporaries right.                      *)
LEMMA NextTemps ==
    ASSUME PoolInv, IInv, TempBooks, checkpoint.temps \in Nat, [Next]_vars
    PROVE  TempBooks'
<1>0. /\ Shape /\ Len(stack) \in Nat
      /\ \A i \in 1..Len(stack) : stack[i].kind = stack[i].kind /\ stack[i].handle = stack[i].handle
  BY DepthIf DEF IInv, Depths
<1>a. Len(<<>>) = 0
  OBVIOUS
<1>1. ASSUME UNCHANGED <<temps, stack>>
      PROVE  TempBooks'
  BY <1>0, <1>1 DEF TempBooks, Writing
<1>2. ASSUME NEW a, stack' = Append(stack, a), a.kind # "builtin", temps' = temps
      PROVE  TempBooks'
  <2>1. temps' = temps + (IF a.kind = "builtin" THEN a.handle ELSE 0)
    BY <1>2 DEF TempBooks
  <2> QED BY <1>0, <1>2, <2>1, TempsPushed
<1>3. ASSUME stack' = <<>>, temps' = temps
      PROVE  TempBooks'
  BY <1>0, <1>a, <1>3, TempsFewer
<1>4. ASSUME Running, NEW x, stack' = Place([Top EXCEPT !.scope = x]), temps' = temps
      PROVE  TempBooks'
  <2>1. PICK A : ShapeIn(A)
    BY <1>0 DEF Shape
  <2> DEFINE B == A \cup {x}
  <2>2. x \in B /\ A \subseteq B
    OBVIOUS
  <2> HIDE DEF B
  <2>3. ShapeIn(B)
    BY <2>1, <2>2, Wider
  <2>4. Len(stack') = Len(stack) /\ Alike(stack, stack', Len(stack))
    BY <1>4, <2>2, <2>3, PlaceStep DEF Running
  <2> QED BY <1>0, <1>4, <2>4, TempsFewer DEF Alike
<1>5. ASSUME NEW t, t \in Nat, temps' = t, stack' = <<>>
      PROVE  TempBooks'
  <2>1. Len(stack') = 0 /\ Writing(stack') = {} /\ Cardinality({}) = 0
    BY <1>a, <1>5, FS_EmptySet DEF Writing
  <2>2. temps' \in Nat /\ Cardinality(Writing(stack')) <= temps'
    BY <1>5, <2>1
  <2>3. \A i \in 1..Len(stack') : stack'[i].kind = "builtin" => stack'[i].handle \in {0, 1}
    BY <2>1
  <2> QED BY <2>2, <2>3 DEF TempBooks, Writing
<1>6. CASE UNCHANGED vars
  BY <1>1, <1>6 DEF vars, callVars
<1>7. CASE TooDeep \/ Fail \/ Catch \/ Declare \/ MakeClosure \/ (\E e : DropClosure(e))
             \/ (\E rows : MakeStream(rows)) \/ UnwindFrame \/ BeginUnwind \/ EndUnwind
  <2>1. UNCHANGED <<temps, stack>>
    <3>1. CASE TooDeep \/ Fail \/ Catch \/ Declare \/ UnwindFrame \/ BeginUnwind \/ EndUnwind
      BY <3>1 DEF TooDeep, Fail, Catch, Declare, UnwindFrame, BeginUnwind, EndUnwind, KeepData
    <3>2. CASE MakeClosure \/ (\E e : DropClosure(e)) \/ (\E rows : MakeStream(rows))
      BY <3>2 DEF MakeClosure, DropClosure, MakeStream
    <3> QED BY <1>7, <3>1, <3>2
  <2> QED BY <1>1, <2>1
<1>8. CASE (\E p, e, c : Call(p, c, e) \/ CallDirect(p, c, e)) \/ (\E g : Begin(g))
  <2>1. temps' = temps
    BY <1>8 DEF Call, CallDirect, Begin, KeepData
  <2>2. \E a : stack' = Append(stack, a) /\ a.kind # "builtin"
    <3>1. ASSUME NEW p, NEW e, NEW c, Call(p, c, e) \/ CallDirect(p, c, e)
          PROVE  \E a : stack' = Append(stack, a) /\ a.kind # "builtin"
      <4>1. \E kind \in {"call", "direct"} : stack' = Append(stack, Activation(kind, e, e, NoContract))
        BY <3>1 DEF Call, CallDirect
      <4>2. \A kind : Activation(kind, e, e, NoContract).kind = kind
        BY DEF Activation
      <4> QED BY <4>1, <4>2
    <3>2. ASSUME NEW g, Begin(g)
          PROVE  \E a : stack' = Append(stack, a) /\ a.kind # "builtin"
      <4>1. \E x, y : stack' = Append(stack, [Activation("transaction", Nil, Top.scope, Transaction)
                                                EXCEPT !.handle = x, !.result = y])
        BY <3>2 DEF Begin
      <4>2. PICK x, y : stack' = Append(stack, [Activation("transaction", Nil, Top.scope, Transaction)
                                                  EXCEPT !.handle = x, !.result = y])
        BY <4>1
      <4> DEFINE b == [Activation("transaction", Nil, Top.scope, Transaction)
                          EXCEPT !.handle = x, !.result = y]
      <4>3. b.kind = "transaction"
        BY DEF Activation
      <4> QED BY <4>2, <4>3
    <3> QED BY <1>8, <3>1, <3>2
  <2> QED BY <1>2, <2>1, <2>2
<1>9. CASE EnterBlock \/ LeaveBlock
  <2>1. /\ Running /\ temps' = temps
        /\ \E x : stack' = Place([Top EXCEPT !.scope = x])
    <3>1. CASE EnterBlock
      BY <3>1 DEF EnterBlock, InCode, KeepData
    <3>2. CASE LeaveBlock
      <4>1. stack' = Place([Top EXCEPT !.scope = heap[Top.scope].parent])
        BY <3>2 DEF LeaveBlock
      <4> QED BY <3>2, <4>1 DEF LeaveBlock, InCode, KeepData
    <3> QED BY <1>9, <3>1, <3>2
  <2> QED BY <1>4, <2>1
<1>10. ASSUME NEW c, NEW t \in {0, 1}, Builtin(c, t)
       PROVE  TempBooks'
  <2> DEFINE a == [Activation("builtin", Nil, Top.scope, c) EXCEPT !.handle = t]
  <2>1. stack' = Append(stack, a) /\ temps' = temps + t
    BY <1>10 DEF Builtin
  <2>2. a.kind = "builtin" /\ a.handle = t
    BY DEF Activation
  <2> HIDE DEF a
  <2> QED BY <1>0, <2>1, <2>2, TempsPushed
<1>11. ASSUME NEW m, NEW runs, Import(m, runs)
       PROVE  TempBooks'
  <2>1. temps' = temps
    BY <1>11 DEF Import
  <2>2. CASE runs /\ modules[m] = "absent"
    <3> DEFINE a == Activation("module", Free, Free, m)
    <3>1. stack' = Append(stack, a)
      BY <1>11, <2>2 DEF Import
    <3>2. a.kind = "module"
      BY DEF Activation
    <3> HIDE DEF a
    <3> QED BY <1>2, <2>1, <3>1, <3>2
  <2>3. CASE ~(runs /\ modules[m] = "absent")
    BY <1>1, <1>11, <2>1, <2>3 DEF Import
  <2> QED BY <2>2, <2>3
<1>12. CASE MemoryJump \/ Finish
  BY <1>3, <1>12 DEF MemoryJump, Finish, KeepData
<1>13. ASSUME NEW mutable, EndLoad(mutable) \/ FreeContext
       PROVE  TempBooks'
  <2>1. stack' = stack /\ stack = <<>>
    BY <1>13 DEF EndLoad, FreeContext, Release, Left, IInv, Agreement, Boundary
  <2>2. temps' = 0 \/ temps' = temps
    BY <1>13 DEF EndLoad, FreeContext, Release, KeepData
  <2> QED BY <1>5, <2>1, <2>2 DEF TempBooks
<1>14. CASE Unwind
  <2>1. stack' = stack /\ stack = <<>>
    BY <1>14 DEF Unwind, IInv, Agreement, Boundary
  <2>2. temps' = checkpoint.temps \/ temps' = temps
    BY <1>14 DEF Unwind
  <2> QED BY <1>5, <2>1, <2>2 DEF TempBooks
<1>15. CASE EnterCall
  <2> DEFINE a == [Activation("host", Nil, Main, NoContract) EXCEPT !.result = "begun"]
  <2>1. stack = <<>> /\ stack' = <<a>> /\ temps' = temps
    BY <1>15 DEF EnterCall, KeepData, IInv, Agreement, Boundary
  <2>2. a.kind = "host"
    BY DEF Activation
  <2> HIDE DEF a
  <2>3. stack' = Append(stack, a)
    BY <2>1
  <2> QED BY <1>2, <2>1, <2>2, <2>3
<1>16. CASE LeaveModule
  <2>1. /\ Running /\ Top.kind = "module" /\ stack' = Front(stack) /\ temps' = temps
    BY <1>16 DEF LeaveModule
  <2>2. PICK A : ShapeIn(A)
    BY <1>0 DEF Shape
  <2>3. PICK s : s = Front(stack)
    OBVIOUS
  <2>4. Len(s) = Len(stack) - 1 /\ Len(s) \in Nat /\ Alike(stack, s, Len(s))
    BY <2>1, <2>2, <2>3, BelowIs
  <2>5. stack' = s
    BY <2>1, <2>3
  <2> QED BY <1>0, <2>1, <2>4, <2>5, TempsFewer DEF Alike
<1>17. ASSUME NEW r \in {"whole", "stream", "failed"}, NEW commits, Return(r) \/ EndTransaction(commits)
       PROVE  TempBooks'
  <2>1. /\ Running /\ Top.kind \in {"call", "direct", "builtin", "transaction"}
        /\ stack' = Front(stack) \/ stack' = Receive(Front(stack), r)
        /\ temps' = IF Top.kind = "builtin" THEN temps - Top.handle ELSE temps
    BY <1>17 DEF Return, EndTransaction
  <2>2. PICK A : ShapeIn(A)
    BY <1>0 DEF Shape
  <2>3. PICK s : s = Front(stack)
    OBVIOUS
  <2>4. /\ s \in Seq(Act(A)) /\ Len(s) = Len(stack) - 1 /\ Len(s) \in Nat \ {0}
        /\ Alike(stack, s, Len(s))
    BY <2>1, <2>2, <2>3, BelowIs
  <2>5. PICK t : t = Receive(s, r)
    OBVIOUS
  <2>6. Len(t) = Len(s) /\ Alike(s, t, Len(s))
    BY <2>4, <2>5, ReceiveIs
  <2>7. stack' = s \/ stack' = t
    BY <2>1, <2>3, <2>5
  <2>8. /\ Len(stack') = Len(stack) - 1
        /\ \A i \in 1..Len(stack') :
              stack'[i].kind = stack[i].kind /\ stack'[i].handle = stack[i].handle
    BY <2>4, <2>6, <2>7 DEF Alike
  <2>9. Len(stack) \in Nat \ {0} /\ Top = stack[Len(stack)]
    BY <2>1, StackNow
  <2>10. temps' = temps - (IF stack[Len(stack)].kind = "builtin" THEN stack[Len(stack)].handle ELSE 0)
    BY <2>1, <2>9 DEF TempBooks
  <2> QED BY <2>8, <2>9, <2>10, TempsPopped
<1> QED
  BY <1>6, <1>7, <1>8, <1>9, <1>10, <1>11, <1>12, <1>13, <1>14, <1>15, <1>16, <1>17 DEF Next

Plain ==
    /\ bounded \in BOOLEAN /\ dryRun \in BOOLEAN /\ scope \in BOOLEAN
    /\ checkpoint.temps \in Nat

(* The switches stay switches, and what the boundary remembers a number.    *)
LEMMA NextPlain ==
    ASSUME Plain, temps \in Nat, [Next]_vars
    PROVE  Plain'
<1>1. ASSUME UNCHANGED <<bounded, dryRun, scope, checkpoint>>
      PROVE  Plain'
  BY <1>1 DEF Plain
<1>2. CASE UNCHANGED vars
  BY <1>1, <1>2 DEF vars, frameVars, callVars
<1>3. CASE TooDeep \/ EnterBlock \/ LeaveBlock \/ Declare \/ MakeClosure \/ Fail \/ Catch
             \/ (\E e : DropClosure(e)) \/ (\E rows : MakeStream(rows)) \/ MemoryJump \/ Finish
  <2>1. UNCHANGED bounded /\ KeepBoundary
    <3>1. CASE TooDeep \/ EnterBlock \/ LeaveBlock \/ Declare \/ Fail \/ Catch \/ MemoryJump \/ Finish
      BY <3>1
      DEF TooDeep, EnterBlock, LeaveBlock, Declare, Fail, Catch, MemoryJump, Finish, KeepCalls, KeepRun
    <3>2. CASE MakeClosure \/ (\E e : DropClosure(e)) \/ (\E rows : MakeStream(rows))
      BY <3>2 DEF MakeClosure, DropClosure, MakeStream, KeepCalls
    <3> QED BY <1>3, <3>1, <3>2
  <2> QED BY <1>1, <2>1 DEF KeepBoundary
<1>4. CASE (\E p, e, c : Call(p, c, e) \/ CallDirect(p, c, e)) \/ (\E c, t : Builtin(c, t))
             \/ (\E g : Begin(g)) \/ (\E r : Return(r)) \/ (\E commits : EndTransaction(commits))
  <2>1. UNCHANGED bounded /\ KeepBoundary
    <3>1. CASE \E p, e, c : Call(p, c, e) \/ CallDirect(p, c, e)
      BY <3>1 DEF Call, CallDirect
    <3>2. CASE (\E c, t : Builtin(c, t)) \/ (\E g : Begin(g))
      BY <3>2 DEF Builtin, Begin
    <3>3. CASE (\E r : Return(r)) \/ (\E commits : EndTransaction(commits))
      BY <3>3 DEF Return, EndTransaction
    <3> QED BY <1>4, <3>1, <3>2, <3>3
  <2> QED BY <1>1, <2>1 DEF KeepBoundary
<1>5. CASE (\E m, runs : Import(m, runs)) \/ LeaveModule \/ UnwindFrame
  <2>1. UNCHANGED bounded /\ KeepBoundary
    BY <1>5 DEF Import, LeaveModule, UnwindFrame
  <2> QED BY <1>1, <2>1 DEF KeepBoundary
<1>6. CASE (\E mutable : EndLoad(mutable)) \/ FreeContext \/ BeginUnwind \/ EndUnwind
  <2>1. UNCHANGED <<bounded, dryRun, scope, checkpoint>>
    BY <1>6 DEF EndLoad, FreeContext, Release, BeginUnwind, EndUnwind, KeepFrames
  <2> QED BY <1>1, <2>1
<1>7. CASE EnterCall
  <2>1. UNCHANGED <<bounded, dryRun>> /\ scope' = TRUE /\ checkpoint'.temps = temps
    BY <1>7 DEF EnterCall
  <2> QED BY <2>1 DEF Plain
<1>8. CASE Unwind
  <2>1. UNCHANGED <<bounded, dryRun, checkpoint>> /\ scope' \in BOOLEAN
    BY <1>8 DEF Unwind
  <2> QED BY <2>1 DEF Plain
<1> QED BY <1>2, <1>3, <1>4, <1>5, <1>6, <1>7, <1>8 DEF Next

(* All of it holds at first.                                                *)
LEMMA InitBooks == Init => CountNow /\ TempBooks /\ Plain
<1> SUFFICES ASSUME Init PROVE CountNow /\ TempBooks /\ Plain
  OBVIOUS
<1> DEFINE a == [kind |-> "program", frame |-> Main, scope |-> Main, name |-> NoContract,
                 was |-> now, handle |-> 0, result |-> "none"]
<1>1. /\ pool = [b \in Buckets |-> <<>>] /\ stack = <<a>> /\ temps = 0
      /\ retained = [count |-> 0, bytes |-> 0]
  BY DEF Init, FramesInit
<1>6. scope = FALSE /\ bounded \in BOOLEAN /\ dryRun \in BOOLEAN /\ checkpoint.temps = 0
  BY DEF Init
<1>2. Cardinality({}) = 0 /\ IsFiniteSet({})
  BY FS_EmptySet
<1>3. CountNow
  <2>1. \A b \in Buckets : Len(pool[b]) = 0
    BY <1>1
  <2>2. PooledIn(pool) = {}
    BY <2>1 DEF PooledIn
  <2>3. Units(heap, {}) = {}
    BY DEF Units
  <2>4. PoolCount \in Nat /\ PoolBytes \in Nat
    BY FramesAssumption
  <2>5. /\ retained \in [count : Nat, bytes : Nat]
        /\ retained.count = 0 /\ retained.bytes = 0
    BY <1>1
  <2> QED BY <1>2, <2>2, <2>3, <2>4, <2>5 DEF CountNow, CountsIn
<1>4. TempBooks
  <2>1. a.kind = "program"
    OBVIOUS
  <2> HIDE DEF a
  <2>2. Len(stack) = 1 /\ stack[1] = a
    BY <1>1
  <2>3. Writing(stack) = {}
    BY <2>1, <2>2 DEF Writing
  <2>4. temps = 0
    BY <1>1
  <2> QED BY <1>2, <2>1, <2>2, <2>3, <2>4 DEF TempBooks
<1>5. Plain
  <2>1. scope \in BOOLEAN
    BY <1>6
  <2>2. checkpoint.temps \in Nat
    BY <1>6
  <2> QED BY <1>6, <2>1, <2>2 DEF Plain
<1> QED BY <1>3, <1>4, <1>5

(* As many spots as environments: each is in the pool once.                 *)
LEMMA SpotsCount ==
    ASSUME PoolInv, Shape
    PROVE  Cardinality(Spots) = Cardinality(Pooled)
<1>1. /\ Pooled \subseteq Places /\ \A f, g \in Spots : InSpot(f) = InSpot(g) => f = g
  BY PoolNow DEF PoolInv, PoolOnce, PooledIn
<1>2. IsFiniteSet(Pooled)
  BY <1>1, PlaceFacts, FS_Subset
<1> DEFINE b == [e \in Pooled |-> CHOOSE f \in Spots : InSpot(f) = e]
<1>3. \A e \in Pooled : b[e] \in Spots /\ InSpot(b[e]) = e
  BY DEF Pooled
<1>4. \A f \in Spots : InSpot(f) \in Pooled /\ b[InSpot(f)] = f
  <2> SUFFICES ASSUME NEW f \in Spots PROVE InSpot(f) \in Pooled /\ b[InSpot(f)] = f
    OBVIOUS
  <2>1. InSpot(f) \in Pooled
    BY DEF Pooled
  <2>2. b[InSpot(f)] \in Spots /\ InSpot(b[InSpot(f)]) = InSpot(f)
    BY <1>3, <2>1
  <2> QED BY <1>1, <2>1, <2>2
<1>5. b \in [Pooled -> Spots]
  <2>1. b = [e \in Pooled |-> b[e]]
    OBVIOUS
  <2> HIDE DEF b
  <2> QED BY <1>3, <2>1
<1> HIDE DEF b
<1>6. b \in Bijection(Pooled, Spots)
  BY <1>3, <1>4, <1>5 DEF Bijection, Injection, Surjection, IsInjective
<1>7. ExistsBijection(Pooled, Spots)
  BY <1>6 DEF ExistsBijection
<1> QED BY <1>2, <1>7, FS_Bijection

(* The counters say what is in the pool.                                    *)
LEMMA CountsAgree ==
    ASSUME PoolInv, Shape, CountNow
    PROVE  PoolAgrees
<1>1. Pooled = PooledIn(pool) /\ Cardinality(Spots) = Cardinality(Pooled)
  BY PoolNow, SpotsCount
<1>2. UNION {{e} \X (1 .. BytesOf(e)) : e \in Pooled} = Units(heap, Pooled)
  BY DEF Units, UnitsOf, BytesOf
<1> QED BY <1>1, <1>2 DEF CountNow, CountsIn, PoolAgrees

(* The shape of the state.                                                  *)
LEMMA Typed ==
    ASSUME IInv, PoolInv, CountNow, TempBooks, Plain
    PROVE  TypeOK
<1>1. PICK A : ShapeIn(A)
  BY DEF IInv, Shape
<1>2. /\ PoolType(pool) /\ HeapType(heap) /\ Scopes(heap, stack) /\ Answers(heap, stack, frames)
      /\ Kept \subseteq Places
  BY PoolNow DEF PoolInv, Safe, EscapesUp, IInv
<1>3. FramesType
  BY <1>2 DEF FramesType, HeapType, PoolType, CountNow, CountsIn
<1>4. /\ bounded \in BOOLEAN /\ host \in {"program", "context"}
      /\ {registered, dryRun, failed, scope} \subseteq BOOLEAN
      /\ phase \in {"load", "idle", "call", "unwind", "released"} /\ now \in NowType
      /\ modules \in [Modules -> {"absent", "loading", "loaded"}] /\ temps \in Nat
  BY DEF IInv, CallType, Plain, TempBooks
<1>5. /\ DOMAIN stack = 1..Len(stack) /\ DOMAIN frames = 1..Len(frames)
  BY SeqsNow DEF IInv
<1>6. \A i \in DOMAIN stack :
         /\ stack[i].kind \in {"program", "host", "call", "direct", "builtin", "transaction", "module"}
         /\ stack[i].frame \in Places \cup {Nil} /\ stack[i].scope \in Places
         /\ stack[i].was \in NowType
  <2> SUFFICES ASSUME NEW i \in 1..Len(stack)
               PROVE  /\ stack[i].kind \in {"program", "host", "call", "direct", "builtin", "transaction",
                                            "module"}
                      /\ stack[i].frame \in Places \cup {Nil} /\ stack[i].scope \in Places
                      /\ stack[i].was \in NowType
    BY <1>5
  <2>1. stack[i] \in Act(A)
    BY <1>1 DEF ShapeIn
  <2>2. stack[i].frame \in Places \cup {Nil} /\ stack[i].scope \in Places
    BY <1>2 DEF Scopes
  <2>3. /\ stack[i].kind \in {"program", "host", "call", "direct", "builtin", "transaction", "module"}
        /\ stack[i].was \in NowType
    BY <2>1 DEF Act
  <2> QED BY <2>2, <2>3
<1>7. \A i \in DOMAIN frames : frames[i].env \in Places \cup {Nil} /\ frames[i].was \in NowType
  <2> SUFFICES ASSUME NEW i \in 1..Len(frames)
               PROVE  frames[i].env \in Places \cup {Nil} /\ frames[i].was \in NowType
    BY <1>5
  <2>1. frames[i] \in FrameOf(A)
    BY <1>1 DEF ShapeIn
  <2>2. frames[i].env # Nil => frames[i].env \in Places
    BY <1>2 DEF Answers
  <2> QED BY <2>1, <2>2 DEF FrameOf
<1>8. closures \subseteq Places
  BY <1>2 DEF Kept
<1>9. \A h \in DOMAIN handles : handles[h] \in {"open", "committed", "rolledback"}
  <2>1. handles \in Seq({"open", "committed", "rolledback"})
    BY DEF IInv, CallType
  <2> QED BY <2>1
<1> QED BY <1>3, <1>4, <1>6, <1>7, <1>8, <1>9 DEF TypeOK

(* The runtime's books of calls are right at every moment: the types, the     *)
(* registers, what the counters of the pool say, and the context at rest     *)
(* (call_value, call_frame_acquire, call_frame_recycle, the boundary).       *)
THEOREM BooksAreKept == Spec => []BooksKept
<1> DEFINE J == IInv /\ PoolInv /\ CountNow /\ TempBooks /\ Plain
<1>1. Init => J
  BY InitAgrees, InitPool, InitBooks
<1>2. J /\ [Next]_vars => J'
  <2> SUFFICES ASSUME J, [Next]_vars PROVE J'
    OBVIOUS
  <2>1. IInv'
    BY NextStep
  <2>2. PoolInv'
    BY <2>1, NextPool
  <2>3. CountNow' /\ TempBooks' /\ Plain'
    BY NextCount, NextTemps, NextPlain DEF Plain, TempBooks
  <2> QED BY <2>1, <2>2, <2>3
<1>3. J => BooksKept
  <2> SUFFICES ASSUME J PROVE BooksKept
    OBVIOUS
  <2>1. TypeOK /\ PoolAgrees
    BY Typed, CountsAgree DEF IInv
  <2>2. InStep /\ IdleIsClean
    BY Agrees, Rests
  <2> QED BY <2>1, <2>2 DEF BooksKept
<1> HIDE DEF J
<1> QED BY <1>1, <1>2, <1>3, PTL DEF Spec
=============================================================================
