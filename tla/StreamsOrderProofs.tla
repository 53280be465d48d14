-------------------------- MODULE StreamsOrderProofs --------------------------
(***************************************************************************)
(* What the consumer of a pipeline gets comes in the order of the source,  *)
(* for every pipeline, number of items, width and limit.  With the         *)
(* theorem of StreamsProofs that no item gets lost it is all of Faithful.  *)
(***************************************************************************)
EXTENDS StreamsProofs

Before(x, y) == x < y \/ (x = Items + 1 /\ y = x)

Sorted(s) == \A m, n \in 1..Len(s) : m < n => Before(s[m], s[n])

(* The items of a stage that may still come out.                             *)
Own(i, v) ==
    \/ kind[i] \in SourceKinds /\ v \in Items + 1 - st[i].left..Items
    \/ kind[i] \in Barriers /\ \E m \in 1..Len(st[i].buffer) : v = st[i].buffer[m]
    \/ kind[i] = "parallel" /\ \/ \E m \in 1..Len(st[i].jobs) : v = st[i].jobs[m].item
                               \/ st[i].busy = "refill" /\ v = st[i].held
    \/ kind[i] = "encode_csv" /\ (v = st[i].held \/ (v = Header /\ ~st[i].started))
    \/ kind[i] = "flat_map" /\ st[i].inner # 0 /\ st[Inner(i)].left > 0 /\ v = st[Inner(i)].tag
    \/ kind[i] = "on_error" /\ st[i].inner # 0 /\ v = Items + 1

(* Where an item is: in the stage n / 2, between it and the next, or with    *)
(* the consumer.                                                             *)
StillAt(n, v) ==
    \/ \E i \in Main : n = 2 * i /\ Own(i, v)
    \/ n = 2 * Stages + 2 /\ \E m \in 1..Len(output) : v = output[m]

AnswerAt(n, v) ==
    /\ phase = "pulling" /\ answer.item = v
    /\ \/ answer.from \in Main /\ n = 2 * answer.from + 1
       \/ answer.from \notin Main \cup {0} /\ n = 2 * (answer.from - Stages)

Still == {e \in Int \X Item : StillAt(e[1], e[2])}

Spots == {e \in Int \X Item : StillAt(e[1], e[2]) \/ AnswerAt(e[1], e[2])}

(* An on_error whose source has been replaced cuts off what is below it.     *)
Replaced == {k \in Main : kind[k] = "on_error" /\ st[k].inner # 0}

(* What is further on comes before, unless it replaced the rest.             *)
Ord(S, A) ==
    \A a, b, x, y \in Int :
        <<a, x>> \in S /\ <<b, y>> \in S /\ a > b =>
            Before(x, y) \/ \E k \in A : b < 2 * k /\ 2 * k <= a

Tidy(i) ==
    /\ kind[i] \in Barriers => Sorted(st[i].buffer)
    /\ kind[i] = "parallel" =>
          /\ \A m, n \in 1..Len(st[i].jobs) :
                m < n => Before(st[i].jobs[m].item, st[i].jobs[n].item)
          /\ st[i].busy = "refill" =>
                \A m \in 1..Len(st[i].jobs) : Before(st[i].held, st[i].jobs[m].item)
    /\ kind[i] = "encode_csv" /\ st[i].held # End => st[i].started
    /\ st[i].inner # 0 =>
          /\ kind[i] = "flat_map" => st[Inner(i)].left <= 1
          /\ kind[i] = "on_error" => st[Inner(i)].tag = Items + 1

(* What an inner stream has given.                                           *)
InnerGave ==
    answer.from \notin Main \cup {0} =>
        /\ st[answer.from - Stages].inner # 0
        /\ answer.item # End =>
              IF kind[answer.from - Stages] = "flat_map" THEN st[answer.from].left = 0
              ELSE answer.item = Items + 1

(* Who was called first is the last stage, and answers to the consumer.      *)
FirstIsLast ==
    /\ calls # <<>> => calls[1] \in {LastStage, Inner(LastStage)}
    /\ phase = "pulling" /\ calls = <<>> => answer.from \in {LastStage, Inner(LastStage)}
    /\ phase = "start" => calls # <<>>

AllTidy == \A i \in Main : Tidy(i)

Order ==
    /\ FirstIsLast
    /\ Plain => /\ Sorted(output) /\ AllTidy /\ InnerGave
                /\ Ord(Spots, Replaced)

-----------------------------------------------------------------------------
LEMMA SpotIs ==
    \A n, v : /\ <<n, v>> \in Spots <=> n \in Int /\ v \in Item /\ (StillAt(n, v) \/ AnswerAt(n, v))
              /\ <<n, v>> \in Still <=> n \in Int /\ v \in Item /\ StillAt(n, v)
BY DEF Spots, Still

LEMMA SpotIsNow ==
    \A n, v : /\ <<n, v>> \in Spots' <=> n \in Int /\ v \in Item /\ (StillAt(n, v)' \/ AnswerAt(n, v)')
              /\ <<n, v>> \in Still' <=> n \in Int /\ v \in Item /\ StillAt(n, v)'
BY DEF Spots, Still

LEMMA ItemIsInt == Items \in Nat /\ Items >= 2 /\ (\A v \in Item : v \in Int /\ v >= 0 /\ v <= Items + 1) /\ End \notin Item
BY IdFacts DEF Item, End

(* Less is in order as well.                                                 *)
LEMMA OrdLess ==
    ASSUME NEW S, NEW T, NEW A, NEW B, A \subseteq B, Ord(S, A),
           \A a, x \in Int : <<a, x>> \in T => <<a, x>> \in S
    PROVE  Ord(T, B)
BY DEF Ord

(* An item goes on, over no other, and comes before those it leaves behind.  *)
LEMMA OrdShift ==
    ASSUME NEW S, NEW T, NEW A, A \subseteq Int, NEW B, A \subseteq B, Ord(S, A),
           NEW q \in Int, NEW r \in Int, NEW v \in Int, q < r, <<q, v>> \in S,
           \A a, x \in Int : <<a, x>> \in T =>
               \/ a = r /\ x = v
               \/ <<a, x>> \in S /\ (a <= q \/ r <= a) /\ (a = q => Before(v, x)),
           \A k \in A : ~(q < 2 * k /\ 2 * k <= r)
    PROVE  Ord(T, B)
<1>1. SUFFICES ASSUME NEW a \in Int, NEW b \in Int, NEW x \in Int, NEW y \in Int,
                      <<a, x>> \in T, <<b, y>> \in T, a > b
               PROVE  Before(x, y) \/ \E k \in A : b < 2 * k /\ 2 * k <= a
  BY DEF Ord
<1>2. CASE <<a, x>> \in S /\ <<b, y>> \in S  BY <1>1, <1>2 DEF Ord
<1>3. CASE a = r /\ x = v /\ <<b, y>> \in S /\ b <= q /\ (b = q => Before(v, y))
  <2>1. CASE b = q  BY <1>3, <2>1
  <2>2. CASE b < q
    <3>1. Before(v, y) \/ \E k \in A : b < 2 * k /\ 2 * k <= q  BY <1>3, <2>2 DEF Ord
    <3> QED  BY <1>3, <3>1
  <2> QED  BY <1>3, <2>1, <2>2
<1>4. CASE b = r /\ y = v /\ <<a, x>> \in S
  <2>1. Before(x, v) \/ \E k \in A : q < 2 * k /\ 2 * k <= a  BY <1>1, <1>4 DEF Ord
  <2>2. ASSUME NEW k \in A, q < 2 * k, 2 * k <= a PROVE b < 2 * k  BY <1>4, <2>2
  <2> QED  BY <1>4, <2>1, <2>2
<1> QED  BY <1>1, <1>2, <1>3, <1>4

Lined == Sorted(output) /\ AllTidy /\ InnerGave /\ Ord(Spots, Replaced)

(* A stream that is as it was, except that it may have lost its children.    *)
Fades(x, y) ==
    /\ y.left = x.left /\ y.tag = x.tag /\ y.inner = x.inner /\ y.buffer = x.buffer
    /\ y.held = x.held /\ y.started = x.started /\ y.busy = x.busy
    /\ y.jobs = x.jobs \/ y.jobs = <<>>

SameKinds == \A j \in Main : kind'[j] = kind[j]

LEMMA FadeOwn ==
    ASSUME NEW i \in Main, kind'[i] = kind[i], Fades(st[i], st'[i]), Fades(st[Inner(i)], st'[Inner(i)])
    PROVE  (\A v : Own(i, v)' => Own(i, v)) /\ (Tidy(i) => Tidy(i)')
<1>1. Len(<<>>) = 0 /\ 1..0 = {}  OBVIOUS
<1>2. ASSUME NEW v, Own(i, v)' PROVE Own(i, v)  BY <1>1, <1>2 DEF Own, Fades
<1>3. ASSUME Tidy(i) PROVE Tidy(i)'  BY <1>1, <1>3 DEF Tidy, Fades, Sorted, Before
<1> QED  BY <1>2, <1>3

LEMMA ReplacedGrows ==
    ASSUME SameKinds, \A j \in Main : st[j].inner # 0 /\ kind[j] = "on_error" => st'[j].inner # 0
    PROVE  Replaced \subseteq Replaced' /\ Replaced \subseteq Int
<1>1. \A j \in Main : j \in Int  BY IdFacts
<1> QED  BY <1>1 DEF Replaced, SameKinds

(* What no stage has more of than before.                                    *)
LEMMA KeptLined ==
    ASSUME IInv, Lined, SameKinds, output' = output,
           \A j \in Main : /\ (\A v : Own(j, v)' => Own(j, v)) /\ (Tidy(j) => Tidy(j)')
                           /\ st'[j].inner = st[j].inner,
           answer'.item = End \/ (answer' = answer /\ (phase' = "pulling" => phase = "pulling")),
           InnerGave'
    PROVE  Lined'
<1>1. Sorted(output)' /\ AllTidy'  BY DEF Lined, Sorted, AllTidy, Before
<1>2. ASSUME NEW n, NEW v, v \in Item, StillAt(n, v)' \/ AnswerAt(n, v)' PROVE StillAt(n, v) \/ AnswerAt(n, v)
  <2>1. CASE StillAt(n, v)'  BY <2>1 DEF StillAt
  <2>2. CASE AnswerAt(n, v)'
    <3>1. answer'.item # End  BY <1>2, <2>2, ItemIsInt DEF AnswerAt
    <3> QED  BY <2>2, <3>1 DEF AnswerAt
  <2> QED  BY <1>2, <2>1, <2>2
<1>3. \A a, x \in Int : <<a, x>> \in Spots' => <<a, x>> \in Spots  BY <1>2, SpotIs, SpotIsNow
<1>4. Replaced \subseteq Replaced'  BY ReplacedGrows
<1>5. Ord(Spots', Replaced')  BY <1>3, <1>4, OrdLess DEF Lined
<1> QED  BY <1>1, <1>5 DEF Lined

(* What the stages keep is in the order it was.                              *)
LEMMA FadeLined ==
    ASSUME IInv, Lined, SameKinds, \A j \in Ids : Fades(st[j], st'[j]), output' = output,
           answer'.item = End \/ (answer' = answer /\ (phase' = "pulling" => phase = "pulling")),
           InnerGave'
    PROVE  Lined'
<1>1. \A j \in Main : j \in Ids /\ Inner(j) \in Ids  BY IdFacts
<1>2. \A j \in Main : /\ (\A v : Own(j, v)' => Own(j, v)) /\ (Tidy(j) => Tidy(j)')
                      /\ st'[j].inner = st[j].inner
  BY <1>1, FadeOwn DEF SameKinds, Fades
<1> QED  BY <1>2, KeptLined

(* An item goes from a stage to its answer.                                  *)
LEMMA OrdOn ==
    ASSUME NEW S, Ord(S, Replaced), NEW h \in Int, NEW i \in Main, <<2 * i, h>> \in S, NEW T,
           \A a, x \in Int : <<a, x>> \in T =>
               \/ a = 2 * i + 1 /\ x = h
               \/ <<a, x>> \in S /\ (a <= 2 * i \/ 2 * i + 1 <= a) /\ (a = 2 * i => Before(h, x)),
           \A k \in Replaced : ~(2 * i < 2 * k /\ 2 * k <= 2 * i + 1)
    PROVE  Ord(T, Replaced)
<1>1. ASSUME NEW q \in Int, NEW r \in Int, q = 2 * i, r = 2 * i + 1
      PROVE  Ord(T, Replaced)
  <2>1. q < r /\ <<q, h>> \in S  BY <1>1
  <2>2. \A a, x \in Int : <<a, x>> \in T =>
            \/ a = r /\ x = h
            \/ <<a, x>> \in S /\ (a <= q \/ r <= a) /\ (a = q => Before(h, x))
    BY <1>1
  <2>3. \A k \in Replaced : ~(q < 2 * k /\ 2 * k <= r)  BY <1>1
  <2>4. Replaced \subseteq Int  BY IdFacts DEF Replaced, Main
  <2> QED  BY ONLY <2>1, <2>2, <2>3, <2>4, Ord(S, Replaced), OrdShift
<1> QED  BY <1>1, IdFacts DEF Main

(* A stage gives one of its items, which comes before those it keeps.        *)
LEMMA OutOrd ==
    ASSUME NEW S, Ord(S, Replaced), Replaced \subseteq Replaced', Replaced \subseteq Int,
           NEW i \in Main, NEW h \in Int, h \in Item, <<2 * i, h>> \in S,
           \A n, v : v \in Item /\ StillAt(n, v)' => <<n, v>> \in S,
           \A w \in Item : Own(i, w)' => Before(h, w),
           \A n, v : v \in Item /\ AnswerAt(n, v)' => n = 2 * i + 1 /\ v = h
    PROVE  Ord(Spots', Replaced')
<1>1. i \in Int /\ i <= Stages /\ Stages \in Int /\ \A j \in Main : j \in Int  BY IdFacts DEF Main
<1>2. h \in Int /\ 2 * i \in Int /\ 2 * i + 1 \in Int /\ 2 * i < 2 * i + 1  BY <1>1, ItemIsInt
<1>3. ASSUME NEW a \in Int, NEW x \in Int, <<a, x>> \in Spots'
      PROVE  \/ a = 2 * i + 1 /\ x = h
             \/ <<a, x>> \in S /\ (a <= 2 * i \/ 2 * i + 1 <= a) /\ (a = 2 * i => Before(h, x))
  <2>1. x \in Item /\ (StillAt(a, x)' \/ AnswerAt(a, x)')  BY <1>3, SpotIsNow
  <2>2. CASE AnswerAt(a, x)'  BY <2>1, <2>2
  <2>3. CASE StillAt(a, x)'
    <3>1. <<a, x>> \in S  BY <2>1, <2>3
    <3>2. ASSUME a = 2 * i PROVE Own(i, x)'
      <4>1. PICK j \in Main : a = 2 * j /\ Own(j, x)'  BY <1>1, <2>3, <3>2 DEF StillAt
      <4>2. j = i  BY <1>1, <3>2, <4>1
      <4> QED  BY <4>1, <4>2
    <3> QED  BY <1>1, <2>1, <3>1, <3>2
  <2> QED  BY <2>1, <2>2, <2>3
<1>4. \A k \in Replaced : ~(2 * i < 2 * k /\ 2 * k <= 2 * i + 1)  BY <1>1
<1>5. ASSUME NEW T, T = Spots' PROVE Ord(T, Replaced)
  BY <1>2, <1>3, <1>4, <1>5, OrdOn
<1>6. Ord(Spots', Replaced)  BY <1>5
<1> QED  BY <1>6, OrdLess

(* A stage gets an item from the one below it, after all it has.             *)
LEMMA InOrd ==
    ASSUME IInv, Lined, NEW i \in Main, kind[i] \in StageKinds, Told(i, i - 1), answer.item # End
    PROVE  Ord(Still \cup {<<2 * i, answer.item>>}, Replaced) /\ answer.item \in Item
<1> DEFINE v == answer.item
           T == Still \cup {<<2 * i, v>>}
<1>1. /\ i \in Int /\ i <= Stages /\ Stages \in Int /\ \A j \in Main : j \in Int /\ j >= 1 /\ j <= Stages
      /\ i \in Ids /\ Replaced \subseteq Int
  BY IdFacts DEF Main, Replaced
<1>2. /\ i - 1 \in Main /\ st[i].inner = 0 /\ v \in Item /\ phase = "pulling"
      /\ answer.from = i - 1 \/ answer.from = Inner(i - 1)
      /\ Fit(kind, st)
  BY <1>1, ToldFacts DEF Told
<1>3. \A k \in Replaced : k # i  BY <1>2 DEF Replaced
<1>4. ASSUME NEW q \in Int, q < 2 * i, q >= 2 * i - 2, AnswerAt(q, v),
             \A x \in Item : q = 2 * i - 2 /\ Own(i - 1, x) => Before(v, x)
      PROVE  Ord(T, Replaced)
  <2>1. <<q, v>> \in Spots /\ v \in Int /\ 2 * i \in Int  BY <1>1, <1>2, <1>4, ItemIsInt, SpotIs
  <2>2. ASSUME NEW a \in Int, NEW x \in Int, <<a, x>> \in T
        PROVE  \/ a = 2 * i /\ x = v
               \/ <<a, x>> \in Spots /\ (a <= q \/ 2 * i <= a) /\ (a = q => Before(v, x))
    <3>1. CASE <<a, x>> \in Still
      <4>1. x \in Item /\ StillAt(a, x) /\ <<a, x>> \in Spots  BY <3>1, SpotIs
      <4>2. PICK j \in Int : a = 2 * j /\ (j \in Main => Own(j, x))
                             /\ (j \in Main \/ j = Stages + 1)
        <5>1. CASE \E j \in Main : a = 2 * j /\ Own(j, x)  BY <1>1, <5>1
        <5>2. CASE a = 2 * Stages + 2
          <6>1. Stages + 1 \in Int /\ a = 2 * (Stages + 1) /\ Stages + 1 \notin Main
            BY <1>1, <5>2
          <6> QED  BY <6>1
        <5> QED  BY <4>1, <5>1, <5>2 DEF StillAt
      <4>3. a <= q \/ 2 * i <= a  BY <1>1, <1>4, <4>2
      <4>4. ASSUME a = q PROVE Before(v, x)
        <5>1. j = i - 1  BY <1>1, <1>4, <4>2, <4>4
        <5>2. q = 2 * i - 2 /\ Own(i - 1, x)  BY <1>1, <1>2, <4>2, <4>4, <5>1
        <5> QED  BY <1>4, <4>1, <5>2
      <4> QED  BY <4>1, <4>3, <4>4
    <3>2. CASE <<a, x>> = <<2 * i, v>>  BY <3>2
    <3> QED  BY <2>2, <3>1, <3>2
  <2>3. \A k \in Replaced : ~(q < 2 * k /\ 2 * k <= 2 * i)  BY <1>1, <1>3, <1>4
  <2>4. Ord(Spots, Replaced)  BY DEF Lined
  <2> HIDE DEF T, v
  <2> QED  BY <1>1, <1>4, <2>1, <2>2, <2>3, <2>4, OrdShift
<1>5. CASE answer.from = i - 1
  <2>1. AnswerAt(2 * i - 1, v)  BY <1>1, <1>2, <1>5 DEF AnswerAt
  <2>2. 2 * i - 1 \in Int /\ 2 * i - 1 < 2 * i /\ 2 * i - 1 >= 2 * i - 2 /\ 2 * i - 1 # 2 * i - 2  BY <1>1
  <2> QED  BY <1>2, <1>4, <2>1, <2>2
<1>6. CASE answer.from = Inner(i - 1)
  <2>1. Inner(i - 1) \notin Main /\ Inner(i - 1) - Stages = i - 1 /\ Inner(i - 1) # 0 /\ i - 1 \in Ids
    BY <1>2, IdFacts
  <2>2. AnswerAt(2 * i - 2, v)  BY <1>1, <1>2, <1>6, <2>1 DEF AnswerAt
  <2>3. /\ st[i - 1].inner # 0
        /\ IF kind[i - 1] = "flat_map" THEN st[Inner(i - 1)].left = 0 ELSE v = Items + 1
    BY <1>6, <2>1 DEF Lined, InnerGave
  <2>4. kind[i - 1] \in {"flat_map", "on_error"}  BY <1>2, <2>1, <2>3 DEF Fit, Nested
  <2>5. ASSUME NEW x \in Item, Own(i - 1, x) PROVE Before(v, x)
    BY <2>3, <2>4, <2>5 DEF Own, Before, SourceKinds, Barriers
  <2>6. 2 * i - 2 \in Int /\ 2 * i - 2 < 2 * i /\ 2 * i - 2 >= 2 * i - 2  BY <1>1
  <2> QED  BY <1>2, <1>4, <2>2, <2>5, <2>6
<1> QED  BY <1>2, <1>5, <1>6

(* What a stage gets is after all it has.                                    *)
LEMMA AfterOwn ==
    ASSUME IInv, Lined, NEW i \in Main, kind[i] \in StageKinds, Told(i, i - 1), answer.item # End
    PROVE  \A w \in Item : Own(i, w) => Before(w, answer.item)
<1>1. /\ i \in Int /\ i <= Stages /\ Stages \in Int /\ \A j \in Main : j \in Int /\ j >= 1 /\ j <= Stages
      /\ i \in Ids
  BY IdFacts DEF Main
<1>2. /\ i - 1 \in Main /\ st[i].inner = 0 /\ answer.item \in Item /\ phase = "pulling"
      /\ answer.from = i - 1 \/ answer.from = Inner(i - 1)
  BY <1>1, ToldFacts DEF Told
<1>3. PICK q \in Int : AnswerAt(q, answer.item) /\ q >= 2 * i - 2 /\ q <= 2 * i - 1
  <2>1. CASE answer.from = i - 1
    <3>1. 2 * i - 1 \in Int /\ 2 * i - 1 = 2 * (i - 1) + 1 /\ 2 * i - 1 >= 2 * i - 2  BY <1>1
    <3>2. AnswerAt(2 * i - 1, answer.item)  BY <1>2, <2>1, <3>1 DEF AnswerAt
    <3> QED  BY <1>1, <3>1, <3>2
  <2>2. CASE answer.from = Inner(i - 1)
    <3>1. Inner(i - 1) \notin Main /\ Inner(i - 1) - Stages = i - 1 /\ Inner(i - 1) # 0
      BY <1>2, IdFacts
    <3>2. 2 * i - 2 \in Int /\ 2 * i - 2 = 2 * (i - 1) /\ 2 * i - 2 <= 2 * i - 1  BY <1>1
    <3>3. AnswerAt(2 * i - 2, answer.item)  BY <1>2, <2>2, <3>1, <3>2 DEF AnswerAt
    <3> QED  BY <1>1, <3>2, <3>3
  <2> QED  BY <1>2, <2>1, <2>2
<1>4. ASSUME NEW w \in Item, Own(i, w) PROVE Before(w, answer.item)
  <2>1. StillAt(2 * i, w)  BY <1>4 DEF StillAt
  <2>2. <<2 * i, w>> \in Spots /\ <<q, answer.item>> \in Spots
    BY <1>1, <1>2, <1>3, <2>1, SpotIs
  <2>3. /\ 2 * i \in Int /\ 2 * i > q /\ w \in Int /\ answer.item \in Int
        /\ Ord(Spots, Replaced)
    BY <1>1, <1>2, <1>3, ItemIsInt DEF Lined
  <2>4. Before(w, answer.item) \/ \E k \in Replaced : q < 2 * k /\ 2 * k <= 2 * i
    BY <2>2, <2>3 DEF Ord
  <2>5. ASSUME NEW k \in Replaced PROVE ~(q < 2 * k /\ 2 * k <= 2 * i)
    <3>1. k \in Main /\ k # i  BY <1>2 DEF Replaced
    <3> QED  BY <1>1, <1>3, <3>1
  <2> QED  BY <2>4, <2>5
<1> QED  BY <1>4

LEMMA InSpots ==
    \A n \in Int, v \in Item : StillAt(n, v) => <<n, v>> \in Spots
BY SpotIs

(* A step of a stage, in which the others keep what they have.               *)
LEMMA StageLined ==
    ASSUME IInv, Lined, NEW i \in Main, NEW S, Ord(S, Replaced),
           \A n \in Int, v \in Item : StillAt(n, v) => <<n, v>> \in S,
           SameKinds, \A j \in Ids : j # i /\ j # Inner(i) => Fades(st[j], st'[j]), output' = output,
           Tidy(i)', answer'.from \in {0, i}, kind[i] = "on_error" => st'[i].inner = st[i].inner,
           \A v \in Item : Own(i, v)' => <<2 * i, v>> \in S,
           \/ answer'.item = End
           \/ /\ answer'.item \in Item /\ <<2 * i, answer'.item>> \in S
              /\ \A w \in Item : Own(i, w)' => Before(answer'.item, w)
    PROVE  Lined'
<1>1. /\ \A j \in Main : j \in Ids /\ Inner(j) \in Ids /\ j # Inner(i) /\ j \in Int
                         /\ (j # i => Inner(j) # i /\ Inner(j) # Inner(i))
      /\ i \in Int /\ Stages \in Int
  BY IdFacts DEF Inner
<1>2. \A j \in Main : j # i => (\A v : Own(j, v)' => Own(j, v)) /\ (Tidy(j) => Tidy(j)')
  BY <1>1, FadeOwn DEF SameKinds
<1>3. Sorted(output)' /\ AllTidy'  BY <1>2 DEF Lined, Sorted, AllTidy, Before
<1>4. InnerGave'  BY DEF InnerGave
<1>5. Replaced \subseteq Replaced' /\ Replaced \subseteq Int
  <2>1. \A j \in Main : kind[j] = "on_error" => st'[j].inner = st[j].inner  BY <1>1 DEF Fades
  <2> QED  BY <2>1, ReplacedGrows
<1>6. ASSUME NEW n, NEW v, v \in Item, StillAt(n, v)' PROVE <<n, v>> \in S
  <2>1. CASE \E j \in Main : n = 2 * j /\ Own(j, v)'
    <3>1. PICK j \in Main : n = 2 * j /\ Own(j, v)'  BY <2>1
    <3>2. CASE j = i  BY <1>6, <3>1, <3>2
    <3>3. CASE j # i
      <4>1. StillAt(n, v) /\ n \in Int  BY <1>1, <1>2, <3>1, <3>3 DEF StillAt
      <4> QED  BY <1>6, <4>1
    <3> QED  BY <3>2, <3>3
  <2>2. CASE n = 2 * Stages + 2 /\ \E m \in 1..Len(output') : v = output'[m]
    <3>1. StillAt(n, v) /\ n \in Int  BY <1>1, <2>2 DEF StillAt
    <3> QED  BY <1>6, <3>1
  <2> QED  BY <1>6, <2>1, <2>2 DEF StillAt
<1>7. ASSUME NEW n, NEW v, v \in Item, AnswerAt(n, v)'
      PROVE  n = 2 * i + 1 /\ v = answer'.item /\ answer'.item # End
  <2>1. v = answer'.item /\ answer'.from # 0  BY <1>7, IdFacts DEF AnswerAt, Main
  <2>2. answer'.from = i  BY <2>1
  <2>3. n = 2 * i + 1  BY <1>7, <2>2 DEF AnswerAt
  <2>4. answer'.item # End  BY <1>7, <2>1, ItemIsInt
  <2> QED  BY <2>1, <2>3, <2>4
<1>8. Ord(Spots', Replaced')
  <2>1. CASE answer'.item = End
    <3>1. \A a, x \in Int : <<a, x>> \in Spots' => <<a, x>> \in S
      BY <1>6, <1>7, <2>1, SpotIsNow
    <3> QED  BY <1>5, <3>1, OrdLess
  <2>2. CASE answer'.item # End
    <3>1. answer'.item \in Int  BY <2>2, ItemIsInt
    <3> QED  BY <1>5, <1>6, <1>7, <2>2, <3>1, OutOrd
  <2> QED  BY <2>1, <2>2
<1> QED  BY <1>3, <1>4, <1>8 DEF Lined

(* The same when it was not given an item.                                   *)
LEMMA OwnLined ==
    ASSUME IInv, Lined, NEW i \in Main,
           SameKinds, \A j \in Ids : j # i /\ j # Inner(i) => Fades(st[j], st'[j]), output' = output,
           Tidy(i)', answer'.from \in {0, i}, kind[i] = "on_error" => st'[i].inner = st[i].inner,
           \A v \in Item : Own(i, v)' => Own(i, v),
           \/ answer'.item = End
           \/ /\ answer'.item \in Item
              /\ \/ Own(i, answer'.item)
                 \/ phase = "pulling" /\ answer.from = Inner(i) /\ answer.item = answer'.item
              /\ \A w \in Item : Own(i, w)' => Before(answer'.item, w)
    PROVE  Lined'
<1>1. Ord(Spots, Replaced)  BY DEF Lined
<1>2. \A v \in Item : Own(i, v) => <<2 * i, v>> \in Spots
  <2>1. 2 * i \in Int  BY IdFacts
  <2> QED  BY <2>1, SpotIs DEF StillAt
<1>3. ASSUME answer'.item \in Item, phase = "pulling", answer.from = Inner(i), answer.item = answer'.item
      PROVE  <<2 * i, answer'.item>> \in Spots
  <2>1. 2 * i \in Int /\ Inner(i) \notin Main \cup {0} /\ Inner(i) - Stages = i
    BY IdFacts
  <2>2. AnswerAt(2 * i, answer'.item)  BY <1>3, <2>1 DEF AnswerAt
  <2> QED  BY <1>3, <2>1, <2>2, SpotIs
<1> QED  BY <1>1, <1>2, <1>3, InSpots, StageLined

(* And when it was.                                                          *)
LEMMA GivenLined ==
    ASSUME IInv, Lined, NEW i \in Main, kind[i] \in StageKinds, Told(i, i - 1), answer.item # End,
           SameKinds, \A j \in Ids : j # i /\ j # Inner(i) => Fades(st[j], st'[j]), output' = output,
           Tidy(i)', answer'.from \in {0, i}, kind[i] = "on_error" => st'[i].inner = st[i].inner,
           \A v \in Item : Own(i, v)' => Own(i, v) \/ v = answer.item,
           \/ answer'.item = End
           \/ /\ answer'.item \in Item /\ (Own(i, answer'.item) \/ answer'.item = answer.item)
              /\ \A w \in Item : Own(i, w)' => Before(answer'.item, w)
    PROVE  Lined'
<1> DEFINE S == Still \cup {<<2 * i, answer.item>>}
<1>1. Ord(S, Replaced)  BY InOrd
<1>2. \A n \in Int, v \in Item : StillAt(n, v) => <<n, v>> \in S  BY SpotIs
<1>3. \A v \in Item : Own(i, v) \/ v = answer.item => <<2 * i, v>> \in S
  <2>1. 2 * i \in Int  BY IdFacts
  <2> QED  BY <1>2, <2>1 DEF StillAt
<1> HIDE DEF S
<1> QED  BY <1>1, <1>2, <1>3, StageLined

LEMMA EndLined ==
    ASSUME IInv, Lined, NEW i, OnTop(i), Give(i, End), SameKinds, \A j \in Ids : Fades(st[j], st'[j]),
           output' = output
    PROVE  Lined'
<1>1. answer'.item = End /\ answer'.from = i  BY DEF Give
<1>2. i \in Ids /\ (i \notin Main => i - Stages \in Main /\ st[i - Stages].inner # 0)
  BY TopFacts DEF IInv
<1>3. InnerGave'
  <2>1. ASSUME i \notin Main PROVE st'[i - Stages].inner # 0
    <3>1. i - Stages \in Ids  BY <1>2, <2>1, IdFacts
    <3> QED  BY <1>2, <2>1, <3>1 DEF Fades
  <2> QED  BY <1>1, <2>1 DEF InnerGave
<1> QED  BY <1>1, <1>3, FadeLined

LEMMA AskLined ==
    ASSUME IInv, Lined, answer' = NoAnswer, SameKinds, \A j \in Ids : Fades(st[j], st'[j]),
           output' = output
    PROVE  Lined'
<1>1. answer'.item = End /\ answer'.from = 0  BY DEF NoAnswer
<1>2. InnerGave'  BY <1>1 DEF InnerGave
<1> QED  BY <1>1, <1>2, FadeLined

LEMMA ShutFades ==
    ASSUME IInv, NEW C
    PROVE  \A j \in Ids : Fades(st[j], Shut(C)[j]) /\ Shut(C)[j] \in Stream
<1>1. st \in [Ids -> Stream]  BY DEF IInv, Holding, HoldType
<1>2. ASSUME NEW j \in Ids PROVE Fades(st[j], Shut(C)[j]) /\ Shut(C)[j] \in Stream
  <2>1. st[j] \in Stream  BY <1>1
  <2>2. Fades(st[j], Emptied(st[j]))  BY <2>1 DEF Emptied, Stream, Fades
  <2>3. Emptied(st[j]) \in Stream  BY <2>1, EmptiedType
  <2> QED  BY <2>1, <2>2, <2>3 DEF Shut, Fades
<1> QED  BY <1>2

(* A stage that ends or fails, closing or not.                               *)
LEMMA EndsLined ==
    ASSUME IInv, Lined, NEW i, OnTop(i), Finish(i) \/ FailClosed(i) \/ FailOpen(i), KeepRest
    PROVE  Lined'
<1>1. kind' = kind /\ output' = output /\ Give(i, End)
  BY DEF Finish, FailClosed, FailOpen, KeepRest
<1>2. \A j \in Ids : Fades(st[j], st'[j])
  BY ShutFades DEF Finish, FailClosed, FailOpen, Close, KeepStreams, Fades
<1> QED  BY <1>1, <1>2, EndLined DEF SameKinds

-----------------------------------------------------------------------------
(* Sources.                                                                  *)

LEMMA SourceMain ==
    ASSUME IInv, NEW i \in Ids, kind[i] \in SourceKinds
    PROVE  /\ i = 1 \/ i \notin Main
           /\ i \in Main => /\ \A v : Own(i, v) <=> v \in Items + 1 - st[i].left..Items
                            /\ st[i].inner = 0
                            /\ \A v : kind'[i] = kind[i] =>
                                  (Own(i, v)' <=> v \in Items + 1 - st'[i].left..Items)
                            /\ kind'[i] = kind[i] /\ st'[i].inner = st[i].inner => Tidy(i)'
<1>1. Fit(kind, st)  BY BookFacts DEF IInv
<1>2. /\ kind[i] \notin Barriers /\ kind[i] \notin {"parallel", "encode_csv", "flat_map", "on_error"}
      /\ kind[i] \notin StageKinds /\ kind[i] # "none"
  BY DEF SourceKinds, StageKinds, Barriers
<1>3. i = 1 \/ i \notin Main  BY <1>1, <1>2 DEF Fit, KindsFit
<1>4. st[i].inner = 0  BY <1>1, <1>2 DEF Fit, Nested
<1> QED  BY <1>2, <1>3, <1>4 DEF Own, Tidy

(* What is inside a stage is of flat_map or on_error.                        *)
LEMMA InnerOf ==
    ASSUME IInv, NEW i \in Ids, i \notin Main, OnTop(i)
    PROVE  \E m \in Main : /\ i = Inner(m) /\ i - Stages = m /\ st[m].inner # 0 /\ m \in Ids /\ m # i
                           /\ kind[m] \in {"flat_map", "on_error"}
                           /\ kind[i] \in {"list", "lines"}
<1>1. Fit(kind, st) /\ i - Stages \in Main /\ st[i - Stages].inner # 0 /\ kind[i] # "none"
  BY TopFacts DEF IInv
<1>2. i = Inner(i - Stages) /\ i - Stages \in Ids /\ i - Stages # i  BY <1>1, IdFacts
<1>3. kind[i - Stages] \in {"flat_map", "on_error"}  BY <1>1, <1>2 DEF Fit, Nested
<1>4. kind[i] \in {"list", "lines"}  BY <1>1, <1>2 DEF Fit, KindsFit
<1> QED  BY <1>1, <1>2, <1>3, <1>4

(* A source gives its next item.                                             *)
LEMMA SourceLined ==
    ASSUME IInv, Lined, NEW i \in Ids, OnTop(i), kind[i] \in SourceKinds, st[i].left > 0,
           \A j \in Ids : j # i => st'[j] = st[j], st'[i].left = st[i].left - 1,
           st'[i].inner = st[i].inner, st'[i].tag = st[i].tag,
           Give(i, ItemOf(i)), KeepRest
    PROVE  Lined'
<1>1. /\ answer'.from = i /\ answer'.item = ItemOf(i) /\ output' = output /\ SameKinds
      /\ kind' = kind /\ phase' = phase /\ phase = "pulling"
  BY DEF Give, KeepRest, SameKinds, OnTop
<1>2. /\ st \in [Ids -> Stream] /\ Items \in Nat /\ st[i].left \in 0..Items /\ st[i].tag \in Item
      /\ ItemOf(i) \in Item
  <2>1. st \in [Ids -> Stream]  BY DEF IInv, Holding, HoldType
  <2> QED  BY <2>1, IdFacts, ItemOfType DEF Stream
<1>3. \A j \in Ids : j # i => Fades(st[j], st'[j])  BY DEF Fades
<1>4. CASE i \in Main
  <2>1. ItemOf(i) = Items + 1 - st[i].left  BY <1>4 DEF ItemOf
  <2>2. /\ \A v : Own(i, v) <=> v \in Items + 1 - st[i].left..Items
        /\ st[i].inner = 0 /\ Tidy(i)'
        /\ \A v : Own(i, v)' <=> v \in Items + 1 - st'[i].left..Items
    BY <1>1, <1>4, SourceMain
  <2>3. Own(i, ItemOf(i))  BY <1>2, <2>1, <2>2
  <2>4. \A v : Own(i, v)' => Own(i, v) /\ Before(ItemOf(i), v)
    BY <1>2, <2>1, <2>2 DEF Before
  <2> QED  BY <1>1, <1>2, <1>3, <1>4, <2>2, <2>3, <2>4, OwnLined
<1>5. CASE i \notin Main
  <2>1. PICK m \in Main : /\ i = Inner(m) /\ i - Stages = m /\ st[m].inner # 0 /\ m \in Ids /\ m # i
                          /\ kind[m] \in {"flat_map", "on_error"}
    BY <1>5, InnerOf
  <2>2. ItemOf(i) = st[i].tag  BY <1>5 DEF ItemOf
  <2>3. /\ kind[m] = "flat_map" => st[i].left <= 1
        /\ kind[m] = "on_error" => st[i].tag = Items + 1
    BY <2>1 DEF Lined, AllTidy, Tidy
  <2>4. /\ \A v : Own(m, v)' => Own(m, v)
        /\ Own(m, st[i].tag) /\ Tidy(m)'
    <3>1. kind[m] \notin SourceKinds /\ kind[m] \notin Barriers
          /\ kind[m] \notin {"parallel", "encode_csv"} /\ st'[m] = st[m] /\ kind'[m] = kind[m]
      BY <1>1, <2>1 DEF SourceKinds, Barriers
    <3>2. kind[m] = "flat_map" => ~(st'[i].left > 0)  BY <1>2, <2>3
    <3>3. \A v : Own(m, v)' => Own(m, v)  BY <2>1, <3>1, <3>2 DEF Own
    <3>4. Own(m, st[i].tag)  BY <2>1, <2>3, <3>1 DEF Own
    <3>5. kind[m] = "flat_map" => st'[i].left <= 1  BY <1>2, <2>3
    <3>6. Tidy(m)'  BY <2>1, <2>3, <3>1, <3>5 DEF Tidy
    <3> QED  BY <3>3, <3>4, <3>6
  <2>5. \A j \in Main : j # m => (\A v : Own(j, v)' => Own(j, v)) /\ (Tidy(j) => Tidy(j)')
    <3>1. ASSUME NEW j \in Main, j # m PROVE j # i /\ Inner(j) # i /\ j \in Ids /\ Inner(j) \in Ids
      BY <1>5, <2>1, <3>1, IdFacts DEF Inner
    <3> QED  BY <1>1, <1>3, <3>1, FadeOwn DEF SameKinds
  <2>6. Sorted(output)' /\ AllTidy'  BY <1>1, <2>4, <2>5 DEF Lined, Sorted, AllTidy, Before
  <2>7. InnerGave'
    <3>1. st'[m] = st[m] /\ kind'[m] = kind[m]  BY <1>1, <2>1
    <3>2. IF kind[m] = "flat_map" THEN st'[i].left = 0 ELSE ItemOf(i) = Items + 1
      BY <1>2, <2>1, <2>2, <2>3
    <3> QED  BY <1>1, <2>1, <3>1, <3>2 DEF InnerGave
  <2>8. ASSUME NEW n, NEW v, v \in Item, StillAt(n, v)' \/ AnswerAt(n, v)' PROVE StillAt(n, v)
    <3>1. CASE StillAt(n, v)'  BY <1>1, <2>4, <2>5, <3>1 DEF StillAt
    <3>2. CASE AnswerAt(n, v)'
      <4>1. n = 2 * m /\ v = st[i].tag  BY <1>1, <1>5, <2>1, <2>2, <3>2 DEF AnswerAt
      <4> QED  BY <2>4, <4>1 DEF StillAt
    <3> QED  BY <2>8, <3>1, <3>2
  <2>9. \A a, x \in Int : <<a, x>> \in Spots' => <<a, x>> \in Spots  BY <2>8, SpotIs, SpotIsNow
  <2>10. Replaced \subseteq Replaced'
    <3>1. \A j \in Main : st'[j].inner = st[j].inner
      <4>1. \A j \in Main : j \in Ids /\ j # i  BY <1>5, IdFacts
      <4> QED  BY <4>1
    <3> QED  BY <1>1, <3>1, ReplacedGrows
  <2>11. Ord(Spots', Replaced')  BY <2>9, <2>10, OrdLess DEF Lined
  <2> QED  BY <2>6, <2>7, <2>11 DEF Lined
<1> QED  BY <1>4, <1>5

(* A source that takes no step but gives nothing, or an error.               *)
LEMMA SourceIdles ==
    ASSUME IInv, Lined, NEW i \in Main, OnTop(i), kind[i] \in SourceKinds,
           \A j \in Ids : j # i => st'[j] = st[j], st'[i].left \in {st[i].left, st[i].left - 1},
           st'[i].inner = st[i].inner, answer' = NoAnswer \/ Give(i, End), KeepRest
    PROVE  Lined'
<1>1. answer'.from \in {0, i} /\ answer'.item = End /\ output' = output /\ SameKinds /\ kind' = kind
  BY DEF Give, NoAnswer, KeepRest, SameKinds
<1>2. \A j \in Ids : j # i => Fades(st[j], st'[j])  BY DEF Fades
<1>3. i \in Ids /\ st[i].left \in 0..Items /\ Items \in Nat
  <2>1. st \in [Ids -> Stream] /\ i \in Ids  BY IdFacts DEF IInv, Holding, HoldType
  <2> QED  BY <2>1, IdFacts DEF Stream
<1>4. /\ \A v : Own(i, v) <=> v \in Items + 1 - st[i].left..Items
      /\ st[i].inner = 0 /\ Tidy(i)'
      /\ \A v : Own(i, v)' <=> v \in Items + 1 - st'[i].left..Items
  BY <1>1, <1>3, SourceMain
<1>5. \A v : Own(i, v)' => Own(i, v)  BY <1>3, <1>4
<1> QED  BY <1>1, <1>2, <1>4, <1>5, OwnLined

LEMMA RefuseLined ==
    ASSUME IInv, Lined, NEW i \in Ids, Refuse(i)
    PROVE  Lined'
<1>1. /\ OnTop(i) /\ KeepStreams /\ Give(i, End) /\ KeepRest
  BY DEF Refuse, Asked, OnTop, Step
<1>2. output' = output /\ SameKinds /\ \A j \in Ids : Fades(st[j], st'[j])
  BY <1>1 DEF KeepRest, KeepStreams, SameKinds, Fades
<1> QED  BY <1>1, <1>2, EndLined

LEMMA SourceStepLined ==
    ASSUME IInv, Lined, NEW i \in Ids, SourceStep(i) \/ WatchBreaks(i)
    PROVE  Lined'
<1>1. st \in [Ids -> Stream] /\ st[i] \in Stream  BY DEF IInv, Holding, HoldType
<1>2. OnTop(i) /\ KeepRest /\ kind[i] \in SourceKinds /\ answer = NoAnswer
  BY DEF SourceStep, WatchBreaks, NextInMemory, NextInDatabase, TimerCancelled, NextInFile, NextWatch,
         Entered, Asked, OnTop, Step, SourceKinds, WithFile
<1>3. CASE Finish(i) \/ FailClosed(i)  BY <1>2, <1>3, EndsLined
<1>5. CASE NextInMemory(i)
  <2>1. CASE /\ st[i].left > 0 /\ st' = [st EXCEPT ![i].left = @ - 1] /\ Give(i, ItemOf(i))
    <3>1. /\ \A j \in Ids : j # i => st'[j] = st[j]
          /\ st'[i].left = st[i].left - 1 /\ st'[i].inner = st[i].inner /\ st'[i].tag = st[i].tag
      BY <1>1, <2>1 DEF Stream
    <3> QED  BY <1>2, <2>1, <3>1, SourceLined
  <2> QED  BY <1>3, <1>5, <2>1 DEF NextInMemory
<1>6. CASE NextInDatabase(i)
  <2>1. CASE /\ st[i].left > 0 /\ st' = [st EXCEPT ![i].left = @ - 1, ![i].cursor = TRUE]
             /\ Give(i, ItemOf(i))
    <3>1. /\ \A j \in Ids : j # i => st'[j] = st[j]
          /\ st'[i].left = st[i].left - 1 /\ st'[i].inner = st[i].inner /\ st'[i].tag = st[i].tag
      BY <1>1, <2>1 DEF Stream
    <3> QED  BY <1>2, <2>1, <3>1, SourceLined
  <2> QED  BY <1>3, <1>6, <2>1 DEF NextInDatabase
<1>7. CASE NextInFile(i)
  <2>1. CASE /\ st[i].left > 0 /\ st' = [st EXCEPT ![i].file = TRUE, ![i].left = @ - 1]
             /\ (Give(i, ItemOf(i)) \/ (kind[i] = "files" /\ Give(i, End)))
    <3>1. /\ \A j \in Ids : j # i => st'[j] = st[j]
          /\ st'[i].left = st[i].left - 1 /\ st'[i].inner = st[i].inner /\ st'[i].tag = st[i].tag
      BY <1>1, <2>1 DEF Stream
    <3>2. CASE Give(i, ItemOf(i))  BY <1>2, <2>1, <3>1, <3>2, SourceLined
    <3>3. CASE kind[i] = "files" /\ Give(i, End)
      <4>1. i \in Main  BY <1>2, <3>3, InnerOf
      <4> QED  BY <1>2, <3>1, <3>3, <4>1, SourceIdles
    <3> QED  BY <2>1, <3>2, <3>3
  <2> QED  BY <1>3, <1>7, <2>1 DEF NextInFile
<1>8. CASE NextWatch(i)
  <2>1. CASE /\ st[i].left > 0 /\ st' = [st EXCEPT ![i].left = @ - 1, ![i].busy = "no"]
             /\ Give(i, ItemOf(i))
    <3>1. /\ \A j \in Ids : j # i => st'[j] = st[j]
          /\ st'[i].left = st[i].left - 1 /\ st'[i].inner = st[i].inner /\ st'[i].tag = st[i].tag
      BY <1>1, <2>1 DEF Stream
    <3> QED  BY <1>2, <2>1, <3>1, SourceLined
  <2>2. CASE /\ st' = [st EXCEPT ![i].busy = "wait"] /\ UNCHANGED answer
    <3>1. /\ \A j \in Ids : j # i => st'[j] = st[j]
          /\ st'[i].left = st[i].left /\ st'[i].inner = st[i].inner
      BY <1>1, <2>2 DEF Stream
    <3>2. i \in Main
      <4>1. kind[i] = "watch"  BY <1>8 DEF NextWatch
      <4> QED  BY <1>2, <4>1, InnerOf
    <3> QED  BY <1>2, <2>2, <3>1, <3>2, SourceIdles
  <2> QED  BY <1>3, <1>8, <2>1, <2>2 DEF NextWatch
<1>9. CASE TimerCancelled(i) \/ WatchBreaks(i)  BY <1>3, <1>9 DEF TimerCancelled, WatchBreaks
<1> QED  BY <1>5, <1>6, <1>7, <1>8, <1>9 DEF SourceStep

-----------------------------------------------------------------------------
(* Stages.                                                                   *)

LEMMA PerItemOwn ==
    ASSUME NEW i \in Main, kind[i] \in PerItem, kind'[i] = kind[i]
    PROVE  (\A v : ~Own(i, v) /\ ~Own(i, v)') /\ Tidy(i)'
BY DEF PerItem, Own, Tidy, SourceKinds, Barriers

(* What a stage leaves alone when it only changes itself.                    *)
LEMMA AloneLined ==
    ASSUME NEW i, \A j \in Ids : j # i => st'[j] = st[j], KeepRest
    PROVE  /\ \A j \in Ids : j # i /\ j # Inner(i) => Fades(st[j], st'[j])
           /\ SameKinds /\ output' = output /\ kind' = kind
BY DEF Fades, SameKinds, KeepRest

(* A stage asks and nothing else changes.                                    *)
LEMMA AsksLined ==
    ASSUME IInv, Lined, NEW j, Ask(j), KeepStreams, KeepRest
    PROVE  Lined'
<1>1. answer' = NoAnswer /\ SameKinds /\ output' = output /\ \A m \in Ids : Fades(st[m], st'[m])
  BY DEF Ask, KeepStreams, KeepRest, SameKinds, Fades
<1> QED  BY <1>1, AskLined

LEMMA ItemStepLined ==
    ASSUME IInv, Lined, NEW i \in Main, ItemStep(i)
    PROVE  Lined'
<1>1. i \in Ids /\ \A q \in PerItem : q \in StageKinds  BY IdFacts DEF PerItem, StageKinds
<1>2. CASE AskSource(i)
  <2>1. OnTop(i) /\ KeepRest  BY <1>1, <1>2, EnterFacts DEF AskSource
  <2>2. CASE Finish(i)  BY <2>1, <2>2, EndsLined
  <2>3. CASE Ask(i - 1) /\ KeepStreams  BY <2>1, <2>3, AsksLined
  <2> QED  BY <1>2, <2>2, <2>3 DEF AskSource
<1>3. CASE PassItem(i)
  <2>1. /\ Told(i, i - 1) /\ answer.item # End /\ kind[i] \in PerItem /\ KeepRest /\ Give(i, answer.item)
        /\ st' = [st EXCEPT ![i].left = IF kind[i] = "take" THEN @ - 1 ELSE @,
                            ![i].started = TRUE, ![i].held = End]
    BY <1>3 DEF PassItem, Step
  <2>2. /\ st \in [Ids -> Stream] /\ st[i] \in Stream /\ answer.item \in Item
    BY <1>1, <2>1, ToldFacts
  <2>3. (\A j \in Ids : j # i => st'[j] = st[j]) /\ st'[i].inner = st[i].inner
    BY <1>1, <2>1, <2>2 DEF Stream
  <2>4. /\ \A j \in Ids : j # i /\ j # Inner(i) => Fades(st[j], st'[j])
        /\ SameKinds /\ output' = output /\ kind' = kind
    BY <2>1, <2>3, AloneLined
  <2>5. (\A v : ~Own(i, v) /\ ~Own(i, v)') /\ Tidy(i)'  BY <2>1, <2>4, PerItemOwn
  <2>6. answer'.from \in {0, i} /\ answer'.item = answer.item  BY <2>1 DEF Give
  <2> QED  BY <1>1, <2>1, <2>2, <2>3, <2>4, <2>5, <2>6, GivenLined
<1>4. CASE DropItem(i)
  <2>1. /\ Told(i, i - 1) /\ answer.item # End /\ kind[i] \in PerItem /\ KeepRest /\ Ask(i - 1)
        /\ st' = [st EXCEPT ![i].left = IF kind[i] = "skip" THEN @ - 1 ELSE @,
                        ![i].held = IF kind[i] = "parse_csv" /\ st[i].started
                                      THEN answer.item ELSE End,
                        ![i].started = TRUE]
    BY <1>4 DEF DropItem, Step, PerItem
  <2>2. /\ st \in [Ids -> Stream] /\ st[i] \in Stream /\ answer.item \in Item
    BY <1>1, <2>1, ToldFacts
  <2>3. (\A j \in Ids : j # i => st'[j] = st[j]) /\ st'[i].inner = st[i].inner
    BY <1>1, <2>1, <2>2 DEF Stream
  <2>4. /\ \A j \in Ids : j # i /\ j # Inner(i) => Fades(st[j], st'[j])
        /\ SameKinds /\ output' = output /\ kind' = kind
    BY <2>1, <2>3, AloneLined
  <2>5. (\A v : ~Own(i, v) /\ ~Own(i, v)') /\ Tidy(i)'  BY <2>1, <2>4, PerItemOwn
  <2>6. answer'.from \in {0, i} /\ answer'.item = End  BY <2>1 DEF Ask, NoAnswer
  <2> QED  BY <1>1, <2>1, <2>2, <2>3, <2>4, <2>5, <2>6, OwnLined
<1>5. CASE FailItem(i)
  <2>1. Told(i, i - 1) /\ KeepRest /\ (FailClosed(i) \/ FailOpen(i))  BY <1>5 DEF FailItem, Step
  <2>2. OnTop(i)  BY <2>1 DEF Told, OnTop
  <2> QED  BY <2>1, <2>2, EndsLined
<1>6. CASE SourceEnded(i)
  <2>1. Told(i, i - 1) /\ KeepRest /\ (FailClosed(i) \/ Finish(i))  BY <1>6 DEF SourceEnded, Step
  <2>2. OnTop(i)  BY <2>1 DEF Told, OnTop
  <2> QED  BY <2>1, <2>2, EndsLined
<1> QED  BY <1>2, <1>3, <1>4, <1>5, <1>6 DEF ItemStep

LEMMA EncoderOwn ==
    ASSUME NEW i \in Main, kind[i] = "encode_csv", kind'[i] = kind[i]
    PROVE  /\ \A v : Own(i, v) <=> v = st[i].held \/ (v = Header /\ ~st[i].started)
           /\ \A v : Own(i, v)' <=> v = st'[i].held \/ (v = Header /\ ~st'[i].started)
           /\ Tidy(i) => (st[i].held # End => st[i].started)
           /\ (st'[i].held # End => st'[i].started) => Tidy(i)'
BY DEF Own, Tidy, SourceKinds, Barriers

LEMMA RowStepLined ==
    ASSUME IInv, Lined, NEW i \in Main, RowStep(i)
    PROVE  Lined'
<1>1. /\ i \in Ids /\ kind[i] = "encode_csv" /\ kind[i] \in StageKinds /\ kind[i] # "on_error" /\ KeepRest
      /\ kind' = kind /\ Header \in Item /\ Header # End /\ Header \in Int
  BY IdFacts DEF RowStep, AskRow, EncodeRow, Entered, Step, StageKinds, KeepRest, Item, Header, End
<1>2. Tidy(i)  BY DEF Lined, AllTidy
<1>3. /\ \A v : Own(i, v) <=> v = st[i].held \/ (v = Header /\ ~st[i].started)
      /\ \A v : Own(i, v)' <=> v = st'[i].held \/ (v = Header /\ ~st'[i].started)
      /\ (st[i].held # End => st[i].started)
      /\ (st'[i].held # End => st'[i].started) => Tidy(i)'
  BY <1>1, <1>2, EncoderOwn
<1>4. CASE AskRow(i)
  <2>1. OnTop(i) /\ st \in [Ids -> Stream] /\ st[i] \in Stream  BY <1>1, <1>4, EnterFacts DEF AskRow
  <2>2. CASE FailOpen(i)  BY <1>1, <2>1, <2>2, EndsLined
  <2>3. CASE Ask(i - 1) /\ KeepStreams  BY <1>1, <2>3, AsksLined
  <2>4. CASE st[i].held # End /\ Give(i, st[i].held) /\ st' = [st EXCEPT ![i].held = End]
    <3>1. /\ (\A j \in Ids : j # i => st'[j] = st[j]) /\ st'[i].held = End
          /\ st'[i].started = st[i].started /\ st[i].held \in Item
      BY <1>1, <2>1, <2>4 DEF Stream
    <3>2. /\ \A j \in Ids : j # i /\ j # Inner(i) => Fades(st[j], st'[j])
          /\ SameKinds /\ output' = output
      BY <1>1, <3>1, AloneLined
    <3>3. answer'.from = i /\ answer'.item = st[i].held  BY <2>4 DEF Give
    <3>4. /\ Tidy(i)' /\ \A v \in Item : ~Own(i, v)'
      BY <1>3, <2>4, <3>1, ItemIsInt
    <3>5. Own(i, answer'.item) /\ answer'.item \in Item  BY <1>3, <3>1, <3>3
    <3> QED  BY <1>1, <3>2, <3>3, <3>4, <3>5, OwnLined
  <2> QED  BY <1>4, <2>2, <2>3, <2>4 DEF AskRow
<1>5. CASE EncodeRow(i)
  <2>1. Told(i, i - 1)  BY <1>5 DEF EncodeRow
  <2>2. OnTop(i) /\ st \in [Ids -> Stream] /\ st[i] \in Stream /\ answer.item \in Item \cup {End}
    BY <1>1, <2>1, ToldFacts
  <2>3. CASE Finish(i) \/ FailClosed(i) \/ FailOpen(i)  BY <1>1, <2>2, <2>3, EndsLined
  <2>4. CASE /\ answer.item # End
             /\ Give(i, IF st[i].started THEN answer.item ELSE Header)
             /\ st' = [st EXCEPT ![i].started = TRUE,
                                 ![i].held = IF @ = End /\ ~st[i].started THEN answer.item ELSE End]
    <3>1. /\ (\A j \in Ids : j # i => st'[j] = st[j])
          /\ st'[i].held = (IF st[i].held = End /\ ~st[i].started THEN answer.item ELSE End)
          /\ st'[i].started = TRUE
      BY <1>1, <2>2, <2>4 DEF Stream
    <3>2. /\ \A j \in Ids : j # i /\ j # Inner(i) => Fades(st[j], st'[j])
          /\ SameKinds /\ output' = output
      BY <1>1, <3>1, AloneLined
    <3>3. answer'.from = i /\ answer'.item = (IF st[i].started THEN answer.item ELSE Header)
      BY <2>4 DEF Give
    <3>4. Tidy(i)' /\ (\A v \in Item : Own(i, v)' => v = answer.item /\ ~st[i].started)
      BY <1>3, <3>1, ItemIsInt
    <3>5. \A w \in Item : Own(i, w) => Before(w, answer.item)
      BY <1>1, <2>1, <2>4, AfterOwn
    <3>6. answer'.item \in Item /\ (Own(i, answer'.item) \/ answer'.item = answer.item)
      BY <1>1, <1>3, <2>2, <2>4, <3>3
    <3>7. \A w \in Item : Own(i, w)' => Before(answer'.item, w)
      BY <1>1, <1>3, <3>3, <3>4, <3>5
    <3> QED  BY <1>1, <2>1, <2>4, <3>2, <3>3, <3>4, <3>6, <3>7, GivenLined
  <2> QED  BY <1>5, <2>3, <2>4 DEF EncodeRow
<1> QED  BY <1>4, <1>5 DEF RowStep

(* What is taken from the front of a sorted buffer, or put at its end.       *)
LEMMA SortedTail ==
    ASSUME NEW s \in Seq(Item), s # <<>>, Sorted(s)
    PROVE  /\ Tail(s) \in Seq(Item) /\ Sorted(Tail(s)) /\ Head(s) = s[1] /\ 1 \in 1..Len(s) /\ Head(s) \in Item
           /\ \A m \in 1..Len(Tail(s)) : /\ Before(Head(s), Tail(s)[m])
                                         /\ m + 1 \in 1..Len(s) /\ Tail(s)[m] = s[m + 1]
<1>1. /\ Len(s) \in Nat /\ Len(s) >= 1 /\ Head(s) = s[1] /\ Tail(s) \in Seq(Item)
      /\ Len(Tail(s)) = Len(s) - 1 /\ Head(s) \in Item
      /\ \A m \in 1..Len(s) - 1 : Tail(s)[m] = s[m + 1]
  OBVIOUS
<1>2. \A m \in 1..Len(Tail(s)) : /\ m + 1 \in 1..Len(s) /\ Tail(s)[m] = s[m + 1]
                                 /\ 1 \in 1..Len(s) /\ 1 < m + 1
  BY <1>1
<1>3. \A m \in 1..Len(Tail(s)) : Before(Head(s), Tail(s)[m])  BY <1>1, <1>2 DEF Sorted
<1>4. \A m, n \in 1..Len(Tail(s)) : m < n => m + 1 < n + 1  BY <1>1
<1>5. Sorted(Tail(s))  BY <1>1, <1>2, <1>4 DEF Sorted
<1> QED  BY <1>1, <1>2, <1>3, <1>5

LEMMA SortedAppend ==
    ASSUME NEW s \in Seq(Item), Sorted(s), NEW v \in Item, \A m \in 1..Len(s) : Before(s[m], v)
    PROVE  /\ Append(s, v) \in Seq(Item) /\ Sorted(Append(s, v))
           /\ \A m \in 1..Len(Append(s, v)) : Append(s, v)[m] = v \/ (m \in 1..Len(s) /\ Append(s, v)[m] = s[m])
<1> DEFINE t == Append(s, v)
<1>1. /\ Len(s) \in Nat /\ t \in Seq(Item) /\ Len(t) = Len(s) + 1 /\ t[Len(s) + 1] = v
      /\ \A m \in 1..Len(s) : t[m] = s[m]
  OBVIOUS
<1>2. \A m \in 1..Len(t) : m = Len(s) + 1 \/ m \in 1..Len(s)  BY <1>1
<1>3. ASSUME NEW m \in 1..Len(t), NEW n \in 1..Len(t), m < n PROVE Before(t[m], t[n])
  <2>1. m \in 1..Len(s)  BY <1>1, <1>3
  <2>2. CASE n \in 1..Len(s)  BY <1>1, <1>3, <2>1, <2>2 DEF Sorted
  <2>3. CASE n = Len(s) + 1  BY <1>1, <2>1, <2>3
  <2> QED  BY <1>2, <2>2, <2>3
<1>4. Sorted(t)  BY <1>3 DEF Sorted
<1> QED  BY <1>1, <1>2, <1>4

LEMMA BarrierOwn ==
    ASSUME NEW i \in Main, kind[i] \in Barriers, kind'[i] = kind[i]
    PROVE  /\ \A v : Own(i, v) <=> \E m \in 1..Len(st[i].buffer) : v = st[i].buffer[m]
           /\ \A v : Own(i, v)' <=> \E m \in 1..Len(st'[i].buffer) : v = st'[i].buffer[m]
           /\ Tidy(i) => Sorted(st[i].buffer)
           /\ Sorted(st'[i].buffer) => Tidy(i)'
<1>1. \A q \in Barriers : /\ q \notin SourceKinds
                          /\ q \notin {"parallel", "encode_csv", "flat_map", "on_error"}
  BY DEF SourceKinds, Barriers
<1> QED  BY <1>1 DEF Own, Tidy, Sorted, Before

(* A barrier gives the first item of a sorted buffer of items it had.        *)
LEMMA HeadLined ==
    ASSUME IInv, Lined, NEW i \in Main, kind[i] \in Barriers, SameKinds, output' = output,
           \A j \in Ids : j # i => Fades(st[j], st'[j]),
           NEW o \in Seq(Item), o # <<>>, Sorted(o), st'[i].buffer = Tail(o), Give(i, Head(o)),
           \A m \in 1..Len(o) : Own(i, o[m])
    PROVE  Lined'
<1>1. /\ Tail(o) \in Seq(Item) /\ Sorted(Tail(o)) /\ Head(o) = o[1] /\ 1 \in 1..Len(o) /\ Head(o) \in Item
      /\ \A m \in 1..Len(Tail(o)) : /\ Before(Head(o), Tail(o)[m])
                                    /\ m + 1 \in 1..Len(o) /\ Tail(o)[m] = o[m + 1]
  BY SortedTail
<1>2. answer'.from = i /\ answer'.item = Head(o) /\ kind[i] # "on_error"  BY DEF Give, Barriers
<1>3. /\ \A v : Own(i, v)' <=> \E m \in 1..Len(st'[i].buffer) : v = st'[i].buffer[m]
      /\ Sorted(st'[i].buffer) => Tidy(i)'
  BY BarrierOwn DEF SameKinds
<1>4. Tidy(i)' /\ Own(i, Head(o))  BY <1>1, <1>3
<1>5. \A v : Own(i, v)' => Own(i, v) /\ Before(Head(o), v)  BY <1>1, <1>3
<1> QED  BY <1>1, <1>2, <1>4, <1>5, OwnLined

LEMMA BarrierStepLined ==
    ASSUME IInv, Lined, Plain, NEW i \in Main, BarrierStep(i)
    PROVE  Lined'
<1>1. /\ i \in Ids /\ kind[i] \in Barriers /\ kind[i] \in StageKinds /\ kind[i] # "on_error" /\ KeepRest
      /\ kind' = kind /\ SameKinds /\ output' = output /\ kind[i] # "sort"
  BY IdFacts DEF BarrierStep, NextSorted, Load, Loaded, Entered, Step, StageKinds, KeepRest, Barriers,
                 SameKinds, Plain
<1>2. /\ st \in [Ids -> Stream] /\ st[i].buffer \in Seq(Item) /\ Tidy(i)
  <2>1. st \in [Ids -> Stream]  BY DEF IInv, Holding, HoldType
  <2> QED  BY <1>1, <2>1 DEF Lined, AllTidy, Stream
<1>3. /\ \A v : Own(i, v) <=> \E m \in 1..Len(st[i].buffer) : v = st[i].buffer[m]
      /\ \A v : Own(i, v)' <=> \E m \in 1..Len(st'[i].buffer) : v = st'[i].buffer[m]
      /\ Sorted(st[i].buffer)
      /\ Sorted(st'[i].buffer) => Tidy(i)'
  BY <1>1, <1>2, BarrierOwn
<1>4. CASE NextSorted(i)
  <2>1. OnTop(i)  BY <1>1, <1>4, EnterFacts DEF NextSorted
  <2>2. CASE Finish(i)  BY <1>1, <2>1, <2>2, EndsLined
  <2>3. CASE st' = [st EXCEPT ![i].started = TRUE] /\ Ask(i - 1)
    <3>1. (\A j \in Ids : j # i => st'[j] = st[j]) /\ st'[i].buffer = st[i].buffer
      BY <1>1, <1>2, <2>3 DEF Stream
    <3>2. \A j \in Ids : j # i => Fades(st[j], st'[j])  BY <3>1 DEF Fades
    <3>3. answer'.item = End /\ answer'.from = 0  BY <2>3 DEF Ask, NoAnswer
    <3> QED  BY <1>1, <1>3, <3>1, <3>2, <3>3, OwnLined
  <2>4. CASE /\ st[i].buffer # <<>> /\ Give(i, Head(st[i].buffer))
             /\ st' = [st EXCEPT ![i].buffer = Tail(@)]
    <3>1. (\A j \in Ids : j # i => st'[j] = st[j]) /\ st'[i].buffer = Tail(st[i].buffer)
      BY <1>1, <1>2, <2>4 DEF Stream
    <3>2. \A j \in Ids : j # i => Fades(st[j], st'[j])  BY <3>1 DEF Fades
    <3> QED  BY <1>1, <1>2, <1>3, <2>4, <3>1, <3>2, HeadLined
  <2> QED  BY <1>4, <2>2, <2>3, <2>4 DEF NextSorted
<1>5. CASE Load(i)
  <2>1. Told(i, i - 1) /\ answer.item # End  BY <1>5 DEF Load
  <2>2. OnTop(i) /\ answer.item \in Item  BY <1>1, <2>1, ToldFacts
  <2>3. CASE Close(Closing(i - 1)) /\ Give(i, End)
    <3>1. \A j \in Ids : Fades(st[j], st'[j])  BY <2>3, ShutFades DEF Close
    <3> QED  BY <1>1, <2>2, <2>3, <3>1, EndLined
  <2>4. CASE st' = [st EXCEPT ![i].buffer = Append(@, answer.item)] /\ Ask(i - 1)
    <3>1. (\A j \in Ids : j # i => st'[j] = st[j]) /\ st'[i].buffer = Append(st[i].buffer, answer.item)
      BY <1>1, <1>2, <2>4 DEF Stream
    <3>2. \A j \in Ids : j # i => Fades(st[j], st'[j])  BY <3>1 DEF Fades
    <3>3. answer'.item = End /\ answer'.from = 0  BY <2>4 DEF Ask, NoAnswer
    <3>4. \A m \in 1..Len(st[i].buffer) : st[i].buffer[m] \in Item /\ Own(i, st[i].buffer[m])
      BY <1>2, <1>3
    <3>5. \A m \in 1..Len(st[i].buffer) : Before(st[i].buffer[m], answer.item)
      BY <1>1, <2>1, <3>4, AfterOwn
    <3>6. /\ Sorted(st'[i].buffer)
          /\ \A m \in 1..Len(st'[i].buffer) :
                 st'[i].buffer[m] = answer.item \/ Own(i, st'[i].buffer[m])
      BY <1>2, <1>3, <2>2, <3>1, <3>4, <3>5, SortedAppend
    <3>7. Tidy(i)' /\ \A v \in Item : Own(i, v)' => Own(i, v) \/ v = answer.item
      BY <1>3, <3>6
    <3> QED  BY <1>1, <2>1, <3>2, <3>3, <3>7, GivenLined
  <2> QED  BY <1>5, <2>3, <2>4 DEF Load
<1>6. CASE Loaded(i)
  <2> DEFINE items == st[i].buffer
             closed == Closing(i - 1)
  <2>1. /\ Told(i, i - 1)
        /\ \/ Give(i, End) /\ st' = Shut(closed)
           \/ \E o \in IF items = <<>> THEN {<<>>} ELSE {items, <<Head(items)>>} :
                 IF o = <<>> THEN /\ st' = [Shut(closed) EXCEPT ![i].closed = TRUE, ![i].buffer = o]
                                  /\ Give(i, End)
                 ELSE st' = [Shut(closed) EXCEPT ![i].buffer = Tail(o)] /\ Give(i, Head(o))
    BY <1>1, <1>6 DEF Loaded
  <2>2. OnTop(i)  BY <2>1 DEF Told, OnTop
  <2>3. \A j \in Ids : Fades(st[j], Shut(closed)[j]) /\ Shut(closed)[j] \in Stream  BY ShutFades
  <2>4. Shut(closed) \in [Ids -> Stream]  BY <2>3 DEF Shut
  <2> HIDE DEF closed
  <2>5. CASE Give(i, End) /\ st' = Shut(closed)  BY <1>1, <2>2, <2>3, <2>5, EndLined
  <2>6. ASSUME NEW o, o \in IF items = <<>> THEN {<<>>} ELSE {items, <<Head(items)>>}, o = <<>>,
               st' = [Shut(closed) EXCEPT ![i].closed = TRUE, ![i].buffer = o], Give(i, End)
        PROVE  Lined'
    <3>1. (\A j \in Ids : j # i => Fades(st[j], st'[j])) /\ st'[i].buffer = <<>>
      BY <1>1, <2>3, <2>4, <2>6 DEF Stream
    <3>2. Len(<<>>) = 0 /\ 1..0 = {}  OBVIOUS
    <3>3. Tidy(i)' /\ \A v \in Item : ~Own(i, v)'  BY <1>3, <3>1, <3>2 DEF Sorted
    <3>4. answer'.from = i /\ answer'.item = End  BY <2>6 DEF Give
    <3> QED  BY <1>1, <3>1, <3>3, <3>4, OwnLined
  <2>7. ASSUME NEW o, o \in IF items = <<>> THEN {<<>>} ELSE {items, <<Head(items)>>}, o # <<>>,
               st' = [Shut(closed) EXCEPT ![i].buffer = Tail(o)], Give(i, Head(o))
        PROVE  Lined'
    <3>1. (\A j \in Ids : j # i => Fades(st[j], st'[j])) /\ st'[i].buffer = Tail(o)
      BY <1>1, <2>3, <2>4, <2>7 DEF Stream
    <3>2. o \in Seq(Item) /\ Sorted(o) /\ \A m \in 1..Len(o) : Own(i, o[m])
      <4>1. items # <<>>  BY <2>7
      <4>2. CASE o = items  BY <1>2, <1>3, <4>2
      <4>3. CASE o = <<Head(items)>>
        <5>1. Head(items) \in Item /\ Head(items) = items[1] /\ 1 \in 1..Len(items)
          BY <1>2, <4>1
        <5>2. o \in Seq(Item) /\ Len(o) = 1 /\ o[1] = Head(items)  BY <4>3, <5>1
        <5>3. Sorted(o)  BY <5>2 DEF Sorted
        <5> QED  BY <1>3, <5>1, <5>2, <5>3
      <4> QED  BY <2>7, <4>1, <4>2, <4>3
    <3> QED  BY <1>1, <2>7, <3>1, <3>2, HeadLined
  <2> QED  BY <2>1, <2>5, <2>6, <2>7
<1> QED  BY <1>4, <1>5, <1>6 DEF BarrierStep

-----------------------------------------------------------------------------
(* Streams in streams.                                                       *)

LEMMA AttachLined ==
    ASSUME IInv, NEW i \in Main, NEW tag \in Item, Attach(i, tag), output' = output
    PROVE  /\ kind'[i] = kind[i] /\ SameKinds
           /\ \A j \in Ids : j # i /\ j # Inner(i) => st'[j] = st[j] /\ Fades(st[j], st'[j])
           /\ st'[i].inner = Inner(i) /\ st'[i].inner # 0
           /\ st'[Inner(i)].tag = tag /\ st'[Inner(i)].left \in Nat
           /\ kind[i] = "flat_map" => st'[Inner(i)].left <= 1
<1>1. /\ i \in Ids /\ Inner(i) \in Ids /\ Inner(i) # i /\ Inner(i) # 0 /\ \A j \in Main : j # Inner(i)
  BY IdFacts
<1>2. st \in [Ids -> Stream] /\ kind \in [Ids -> AnyKind] /\ st[i] \in Stream
  BY <1>1 DEF IInv, Holding, HoldType
<1>3. PICK k \in {"list", "lines"}, left \in 0..(IF kind[i] = "flat_map" THEN 1 ELSE 2) :
        /\ kind' = [kind EXCEPT ![Inner(i)] = k]
        /\ st' = [st EXCEPT ![i].inner = Inner(i), ![Inner(i)] = Fresh(left, tag)]
  BY DEF Attach
<1>4. /\ \A j \in Ids : j # i /\ j # Inner(i) => st'[j] = st[j]
      /\ st'[i] = [st[i] EXCEPT !.inner = Inner(i)]
      /\ st'[Inner(i)] = Fresh(left, tag) /\ kind'[i] = kind[i] /\ SameKinds
  BY <1>1, <1>2, <1>3 DEF SameKinds
<1>5. st'[i].inner = Inner(i)  BY <1>2, <1>4 DEF Stream
<1>6. Fresh(left, tag).tag = tag /\ Fresh(left, tag).left = left  BY DEF Fresh
<1>7. left \in Nat /\ (kind[i] = "flat_map" => left <= 1)  OBVIOUS
<1> QED  BY <1>1, <1>4, <1>5, <1>6, <1>7 DEF Fades

LEMMA FlatMapOwn ==
    ASSUME NEW i \in Main, kind[i] = "flat_map", kind'[i] = kind[i]
    PROVE  /\ \A v : Own(i, v) <=> st[i].inner # 0 /\ st[Inner(i)].left > 0 /\ v = st[Inner(i)].tag
           /\ \A v : Own(i, v)' <=> st'[i].inner # 0 /\ st'[Inner(i)].left > 0 /\ v = st'[Inner(i)].tag
           /\ (st'[i].inner # 0 => st'[Inner(i)].left <= 1) => Tidy(i)'
BY DEF Own, Tidy, SourceKinds, Barriers

LEMMA OnErrorOwn ==
    ASSUME NEW i \in Main, kind[i] = "on_error", kind'[i] = kind[i]
    PROVE  /\ \A v : Own(i, v) <=> st[i].inner # 0 /\ v = Items + 1
           /\ \A v : Own(i, v)' <=> st'[i].inner # 0 /\ v = Items + 1
           /\ (st'[i].inner # 0 => st'[Inner(i)].tag = Items + 1) => Tidy(i)'
           /\ Tidy(i) => (st[i].inner # 0 => st[Inner(i)].tag = Items + 1)
BY DEF Own, Tidy, SourceKinds, Barriers

(* The handler's stream cuts off what is below it.                           *)
LEMMA ReplaceLined ==
    ASSUME IInv, Lined, NEW i \in Main, Told(i, i - 1), kind[i] = "on_error", Attach(i, Items + 1),
           answer' = NoAnswer, output' = output
    PROVE  Lined'
<1>1. /\ i \in Ids /\ i \in Int /\ Items + 1 \in Item /\ Items \in Int
      /\ \A j \in Main : j \in Ids /\ Inner(j) \in Ids /\ j \in Int /\ j # Inner(i)
                         /\ (j # i => Inner(j) # i /\ Inner(j) # Inner(i))
  BY IdFacts DEF Item, Inner
<1>2. /\ kind'[i] = kind[i] /\ SameKinds
      /\ \A j \in Ids : j # i /\ j # Inner(i) => st'[j] = st[j] /\ Fades(st[j], st'[j])
      /\ st'[i].inner = Inner(i) /\ st'[i].inner # 0
      /\ st'[Inner(i)].tag = Items + 1
  BY <1>1, AttachLined
<1>3. Tidy(i)' /\ (\A v : Own(i, v)' => v = Items + 1)  BY <1>2, OnErrorOwn
<1>4. \A j \in Main : j # i => (\A v : Own(j, v)' => Own(j, v)) /\ (Tidy(j) => Tidy(j)')
  BY <1>1, <1>2, FadeOwn DEF SameKinds
<1>5. Sorted(output)' /\ AllTidy'  BY <1>3, <1>4 DEF Lined, Sorted, AllTidy, Before
<1>6. answer'.from = 0 /\ answer'.item = End  BY DEF NoAnswer
<1>7. InnerGave'  BY <1>6 DEF InnerGave
<1>8. /\ Replaced \subseteq Replaced' /\ i \in Replaced'
  <2>1. \A j \in Main : st[j].inner # 0 => st'[j].inner # 0  BY <1>1, <1>2
  <2> QED  BY <1>2, <2>1 DEF Replaced, SameKinds
<1>9. ASSUME NEW n, NEW v, v \in Item, StillAt(n, v)' \/ AnswerAt(n, v)'
      PROVE  StillAt(n, v) \/ (n = 2 * i /\ v = Items + 1)
  <2>1. ~AnswerAt(n, v)'  BY <1>6, <1>9, ItemIsInt DEF AnswerAt
  <2>2. CASE \E j \in Main : n = 2 * j /\ Own(j, v)'  BY <1>3, <1>4, <2>2 DEF StillAt
  <2>3. CASE n = 2 * Stages + 2 /\ \E m \in 1..Len(output') : v = output'[m]  BY <2>3 DEF StillAt
  <2> QED  BY <1>9, <2>1, <2>2, <2>3 DEF StillAt
<1>10. ASSUME NEW a \in Int, NEW b \in Int, NEW x \in Int, NEW y \in Int,
              <<a, x>> \in Spots', <<b, y>> \in Spots', a > b
       PROVE  Before(x, y) \/ \E k \in Replaced' : b < 2 * k /\ 2 * k <= a
  <2>1. /\ <<a, x>> \in Spots \/ (a = 2 * i /\ x = Items + 1)
        /\ <<b, y>> \in Spots \/ (b = 2 * i /\ y = Items + 1)
        /\ x \in Item /\ y \in Item
    BY <1>9, <1>10, SpotIs, SpotIsNow
  <2>2. CASE <<a, x>> \in Spots /\ <<b, y>> \in Spots
    <3>1. Before(x, y) \/ \E k \in Replaced : b < 2 * k /\ 2 * k <= a
      BY <1>10, <2>2 DEF Lined, Ord
    <3> QED  BY <1>8, <3>1
  <2>3. CASE y = Items + 1
    <3>1. x <= Items + 1  BY <2>1, ItemIsInt
    <3> QED  BY <1>1, <2>3, <3>1 DEF Before
  <2>4. CASE a = 2 * i  BY <1>1, <1>8, <1>10, <2>4
  <2> QED  BY <2>1, <2>2, <2>3, <2>4
<1>11. Ord(Spots', Replaced')
  <2>1. ASSUME NEW T, T = Spots', NEW B, B = Replaced' PROVE Ord(T, B)  BY <1>10, <2>1 DEF Ord
  <2> QED  BY <2>1
<1> QED  BY <1>5, <1>7, <1>11 DEF Lined

LEMMA InnerStepLined ==
    ASSUME IInv, Lined, NEW i \in Main, InnerStep(i)
    PROVE  Lined'
<1>1. /\ i \in Ids /\ kind[i] \in {"flat_map", "on_error"} /\ kind[i] \in StageKinds /\ kind[i] # "none"
      /\ Inner(i) # i /\ Inner(i) \notin Main \cup {0} /\ Inner(i) - Stages = i
  BY IdFacts DEF InnerStep, AskInner, FlatMapOuter, FlatMapInner, OnErrorSource, OnErrorInner, StageKinds
<1>2. /\ st \in [Ids -> Stream] /\ st[i] \in Stream /\ Tidy(i)
  BY <1>1 DEF IInv, Holding, HoldType, Lined, AllTidy
<1>3. CASE AskInner(i)
  <2>1. KeepRest  BY <1>1, <1>3, EnterFacts DEF AskInner
  <2> QED  BY <1>3, <2>1, AsksLined DEF AskInner
<1>4. ASSUME Told(i, i - 1), Finish(i) \/ FailClosed(i), Step(i) PROVE Lined'
  BY <1>4, EndsLined DEF Told, OnTop, Step
<1>5. ASSUME Told(i, Inner(i)), answer.item # End
      PROVE  /\ answer.from = Inner(i) /\ answer.item \in Item /\ phase = "pulling"
             /\ IF kind[i] = "flat_map" THEN st[Inner(i)].left = 0 ELSE answer.item = Items + 1
  <2>1. answer.from = Inner(i) /\ phase = "pulling"  BY <1>1, <1>5 DEF Told
  <2>2. answer.item \in Item  BY <1>1, <1>5, InnerFacts
  <2> QED  BY <1>1, <1>5, <2>1, <2>2 DEF Lined, InnerGave
<1>6. ASSUME KeepRest, KeepStreams, Give(i, answer.item)
      PROVE  /\ \A j \in Ids : j # i /\ j # Inner(i) => Fades(st[j], st'[j])
             /\ SameKinds /\ output' = output /\ kind' = kind /\ st' = st
             /\ answer'.from = i /\ answer'.item = answer.item
  <2>1. st' = st /\ answer'.from = i /\ answer'.item = answer.item  BY <1>6 DEF KeepStreams, Give
  <2> QED  BY <1>6, <2>1, AloneLined
<1>7. CASE FlatMapOuter(i)
  <2>1. CASE (Finish(i) \/ FailClosed(i)) /\ Step(i)  BY <1>4, <1>7, <2>1 DEF FlatMapOuter
  <2>2. CASE answer.item # End /\ Attach(i, answer.item) /\ Ask(Inner(i)) /\ output' = output
    <3>1. kind[i] = "flat_map" /\ Told(i, i - 1)  BY <1>7 DEF FlatMapOuter
    <3>2. answer.item \in Item  BY <1>1, <2>2, <3>1, ToldFacts
    <3>3. /\ kind'[i] = kind[i] /\ SameKinds
          /\ \A j \in Ids : j # i /\ j # Inner(i) => Fades(st[j], st'[j])
          /\ st'[Inner(i)].tag = answer.item /\ st'[Inner(i)].left <= 1
      BY <2>2, <3>1, <3>2, AttachLined
    <3>4. Tidy(i)' /\ \A v : Own(i, v)' => v = answer.item  BY <3>1, <3>3, FlatMapOwn
    <3>5. answer'.item = End /\ answer'.from = 0  BY <2>2 DEF Ask, NoAnswer
    <3> QED  BY <1>1, <2>2, <3>1, <3>3, <3>4, <3>5, GivenLined
  <2> QED  BY <1>7, <2>1, <2>2 DEF FlatMapOuter
<1>8. CASE FlatMapInner(i)
  <2>1. kind[i] = "flat_map" /\ Told(i, Inner(i)) /\ KeepRest  BY <1>8 DEF FlatMapInner, Step
  <2>2. CASE answer.item # End /\ Give(i, answer.item) /\ KeepStreams
    <3>1. /\ answer.from = Inner(i) /\ answer.item \in Item /\ phase = "pulling" /\ st[Inner(i)].left = 0
      BY <1>5, <2>1, <2>2
    <3>2. /\ \A j \in Ids : j # i /\ j # Inner(i) => Fades(st[j], st'[j])
          /\ SameKinds /\ output' = output /\ kind' = kind /\ st' = st
          /\ answer'.from = i /\ answer'.item = answer.item
      BY <1>6, <2>1, <2>2
    <3>3. Tidy(i)' /\ \A v : ~Own(i, v)'  BY <2>1, <3>1, <3>2, FlatMapOwn
    <3> QED  BY <2>1, <3>1, <3>2, <3>3, OwnLined
  <2>3. CASE st' = [Shut(Closing(Inner(i))) EXCEPT ![i].inner = 0] /\ Ask(i - 1)
    <3> DEFINE t == Shut(Closing(Inner(i)))
    <3>1. \A j \in Ids : Fades(st[j], t[j]) /\ t[j] \in Stream  BY ShutFades
    <3>2. t \in [Ids -> Stream] /\ st' = [t EXCEPT ![i].inner = 0]  BY <2>3, <3>1 DEF Shut
    <3> HIDE DEF t
    <3>3. (\A j \in Ids : j # i => st'[j] = t[j]) /\ st'[i].inner = 0  BY <1>1, <3>2 DEF Stream
    <3>4. SameKinds /\ output' = output /\ kind' = kind  BY <2>1 DEF KeepRest, SameKinds
    <3>5. Tidy(i)' /\ \A v : ~Own(i, v)'  BY <2>1, <3>3, <3>4, FlatMapOwn
    <3>6. answer'.item = End /\ answer'.from = 0  BY <2>3 DEF Ask, NoAnswer
    <3> QED  BY <2>1, <3>1, <3>3, <3>4, <3>5, <3>6, OwnLined
  <2> QED  BY <1>8, <2>2, <2>3 DEF FlatMapInner
<1>9. CASE OnErrorSource(i)
  <2>1. kind[i] = "on_error" /\ Told(i, i - 1)  BY <1>9 DEF OnErrorSource
  <2>2. CASE (Finish(i) \/ FailClosed(i)) /\ Step(i)  BY <1>4, <2>1, <2>2
  <2>3. CASE answer.item # End /\ Give(i, answer.item) /\ KeepStreams /\ Step(i)
    <3>1. answer.item \in Item /\ st[i].inner = 0  BY <1>1, <2>1, <2>3, ToldFacts
    <3>2. /\ \A j \in Ids : j # i /\ j # Inner(i) => Fades(st[j], st'[j])
          /\ SameKinds /\ output' = output /\ kind' = kind /\ st' = st
          /\ answer'.from = i /\ answer'.item = answer.item
      BY <1>6, <2>3 DEF Step
    <3>3. Tidy(i)' /\ \A v : ~Own(i, v)'  BY <2>1, <3>1, <3>2, OnErrorOwn
    <3> QED  BY <1>1, <2>1, <2>3, <3>1, <3>2, <3>3, GivenLined
  <2>4. CASE Attach(i, Items + 1) /\ answer' = NoAnswer /\ output' = output
    BY <2>1, <2>4, ReplaceLined
  <2> QED  BY <1>9, <2>2, <2>3, <2>4 DEF OnErrorSource
<1>10. CASE OnErrorInner(i)
  <2>1. kind[i] = "on_error" /\ Told(i, Inner(i)) /\ KeepRest  BY <1>10 DEF OnErrorInner, Step
  <2>2. CASE Finish(i)  BY <2>1, <2>2, EndsLined DEF Told, OnTop
  <2>3. CASE answer.item # End /\ Give(i, answer.item) /\ KeepStreams
    <3>1. /\ answer.from = Inner(i) /\ answer.item \in Item /\ phase = "pulling" /\ answer.item = Items + 1
      BY <1>5, <2>1, <2>3
    <3>2. /\ \A j \in Ids : j # i /\ j # Inner(i) => Fades(st[j], st'[j])
          /\ SameKinds /\ output' = output /\ kind' = kind /\ st' = st
          /\ answer'.from = i /\ answer'.item = answer.item
      BY <1>6, <2>1, <2>3
    <3>3. Tidy(i)' /\ \A v : Own(i, v)' => Own(i, v) /\ Before(answer.item, v)
      BY <1>2, <2>1, <3>1, <3>2, OnErrorOwn DEF Before
    <3> QED  BY <2>1, <3>1, <3>2, <3>3, OwnLined
  <2> QED  BY <1>10, <2>2, <2>3 DEF OnErrorInner
<1> QED  BY <1>3, <1>7, <1>8, <1>9, <1>10 DEF InnerStep

-----------------------------------------------------------------------------
(* parallel.                                                                 *)

InTurn(s) == \A m, n \in 1..Len(s) : m < n => Before(s[m].item, s[n].item)

LEMMA ParallelOwn ==
    ASSUME NEW i \in Main, kind[i] = "parallel", kind'[i] = kind[i]
    PROVE  /\ \A v : Own(i, v) <=> \/ \E m \in 1..Len(st[i].jobs) : v = st[i].jobs[m].item
                                   \/ st[i].busy = "refill" /\ v = st[i].held
           /\ \A v : Own(i, v)' <=> \/ \E m \in 1..Len(st'[i].jobs) : v = st'[i].jobs[m].item
                                    \/ st'[i].busy = "refill" /\ v = st'[i].held
           /\ Tidy(i) => /\ InTurn(st[i].jobs)
                         /\ st[i].busy = "refill" =>
                               \A m \in 1..Len(st[i].jobs) : Before(st[i].held, st[i].jobs[m].item)
           /\ /\ InTurn(st'[i].jobs)
              /\ st'[i].busy = "refill" =>
                    \A m \in 1..Len(st'[i].jobs) : Before(st'[i].held, st'[i].jobs[m].item)
              => Tidy(i)'
BY DEF Own, Tidy, SourceKinds, Barriers, InTurn, Before

(* The oldest child leaves the list.                                         *)
LEMMA InTurnTail ==
    ASSUME NEW s \in Seq(Job), s # <<>>, InTurn(s)
    PROVE  /\ InTurn(Tail(s)) /\ 1 \in 1..Len(s)
           /\ \A m \in 1..Len(Tail(s)) : /\ Before(s[1].item, Tail(s)[m].item)
                                         /\ m + 1 \in 1..Len(s) /\ Tail(s)[m] = s[m + 1]
<1>1. /\ Len(s) \in Nat /\ Len(s) >= 1 /\ Tail(s) \in Seq(Job)
      /\ Len(Tail(s)) = Len(s) - 1
      /\ \A m \in 1..Len(s) - 1 : Tail(s)[m] = s[m + 1]
  OBVIOUS
<1>2. \A m \in 1..Len(Tail(s)) : /\ m + 1 \in 1..Len(s) /\ Tail(s)[m] = s[m + 1]
                                 /\ 1 \in 1..Len(s) /\ 1 < m + 1
  BY <1>1
<1>3. \A m \in 1..Len(Tail(s)) : Before(s[1].item, Tail(s)[m].item)  BY <1>1, <1>2 DEF InTurn
<1>4. \A m, n \in 1..Len(Tail(s)) : m < n => m + 1 < n + 1  BY <1>1
<1>5. InTurn(Tail(s))  BY <1>1, <1>2, <1>4 DEF InTurn
<1> QED  BY <1>1, <1>2, <1>3, <1>5

(* A new child comes to its end.                                             *)
LEMMA InTurnAppend ==
    ASSUME NEW s \in Seq(Job), InTurn(s), NEW v \in Item, \A m \in 1..Len(s) : Before(s[m].item, v)
    PROVE  LET t == Append(s, [item |-> v, state |-> "running"]) IN
           /\ InTurn(t)
           /\ \A m \in 1..Len(t) : \/ t[m].item = v
                                   \/ m \in 1..Len(s) /\ t[m].item = s[m].item
<1> DEFINE e == [item |-> v, state |-> "running"]
           t == Append(s, e)
<1>1. e \in Job /\ e.item = v  BY DEF Job
<1> HIDE DEF e
<1>2. /\ Len(s) \in Nat /\ Len(t) = Len(s) + 1 /\ t[Len(s) + 1] = e
      /\ \A m \in 1..Len(s) : t[m] = s[m]
  BY <1>1
<1>3. \A m \in 1..Len(t) : m = Len(s) + 1 \/ m \in 1..Len(s)  BY <1>2
<1> HIDE DEF t
<1>4. ASSUME NEW m \in 1..Len(t), NEW n \in 1..Len(t), m < n PROVE Before(t[m].item, t[n].item)
  <2>1. m \in 1..Len(s)  BY <1>2, <1>4
  <2>2. CASE n \in 1..Len(s)  BY <1>2, <1>4, <2>1, <2>2 DEF InTurn
  <2>3. CASE n = Len(s) + 1  BY <1>1, <1>2, <2>1, <2>3
  <2> QED  BY <1>3, <2>2, <2>3
<1>5. InTurn(t)  BY <1>4 DEF InTurn
<1>6. \A m \in 1..Len(t) : t[m].item = v \/ (m \in 1..Len(s) /\ t[m].item = s[m].item)
  BY <1>1, <1>2, <1>3
<1> QED  BY <1>5, <1>6 DEF t, e

LEMMA LaunchLined ==
    ASSUME IInv, Lined, NEW i \in Main, Launch(i)
    PROVE  Lined'
<1> DEFINE jobs == Append(st[i].jobs, [item |-> answer.item, state |-> "running"])
           more == [st[i] EXCEPT !.jobs = jobs]
<1>1. /\ Told(i, i - 1) /\ answer.item # End /\ st[i].busy \in {"fill", "refill"} /\ KeepRest
      /\ phase = "pulling" /\ calls # <<>> /\ calls[Len(calls)] = i
  BY DEF Launch, Step, Told
<1>2. kind[i] = "parallel" /\ kind[i] \in StageKinds /\ i \in Ids  BY <1>1, FillerIsParallel
<1>3. /\ answer.item \in Item /\ st[i] \in Stream /\ st \in [Ids -> Stream]
      /\ st[i].jobs \in Seq(Job) /\ st[i].held \in Item \cup {End} /\ Tidy(i)
  <2>1. answer.item \in Item /\ st[i] \in Stream /\ st \in [Ids -> Stream]  BY <1>1, <1>2, ToldFacts
  <2> QED  BY <2>1 DEF Stream, Lined, AllTidy
<1>4. /\ SameKinds /\ output' = output /\ kind' = kind  BY <1>1 DEF KeepRest, SameKinds
<1>5. /\ \A v : Own(i, v) <=> \/ \E m \in 1..Len(st[i].jobs) : v = st[i].jobs[m].item
                              \/ st[i].busy = "refill" /\ v = st[i].held
      /\ \A v : Own(i, v)' <=> \/ \E m \in 1..Len(st'[i].jobs) : v = st'[i].jobs[m].item
                               \/ st'[i].busy = "refill" /\ v = st'[i].held
      /\ InTurn(st[i].jobs)
      /\ st[i].busy = "refill" =>
            \A m \in 1..Len(st[i].jobs) : Before(st[i].held, st[i].jobs[m].item)
      /\ /\ InTurn(st'[i].jobs)
         /\ st'[i].busy = "refill" =>
               \A m \in 1..Len(st'[i].jobs) : Before(st'[i].held, st'[i].jobs[m].item)
         => Tidy(i)'
  BY <1>2, <1>3, <1>4, ParallelOwn
<1>6. \A w \in Item : Own(i, w) => Before(w, answer.item)  BY <1>1, <1>2, AfterOwn
<1>7. \A m \in 1..Len(st[i].jobs) : st[i].jobs[m].item \in Item /\ Before(st[i].jobs[m].item, answer.item)
  <2>1. \A m \in 1..Len(st[i].jobs) : st[i].jobs[m] \in Job  BY <1>3
  <2> QED  BY <1>5, <1>6, <2>1 DEF Job
<1>8. /\ InTurn(jobs)
      /\ \A m \in 1..Len(jobs) : \/ jobs[m].item = answer.item
                                 \/ m \in 1..Len(st[i].jobs) /\ jobs[m].item = st[i].jobs[m].item
  BY <1>3, <1>5, <1>7, InTurnAppend
<1>9. st[i].busy = "refill" => \A m \in 1..Len(jobs) : Before(st[i].held, jobs[m].item)
  <2>1. st[i].busy = "refill" => Before(st[i].held, answer.item)
    <3>1. CASE st[i].held \in Item  BY <1>5, <1>6, <3>1
    <3>2. CASE st[i].held = End  BY <1>3, <3>2, ItemIsInt DEF Before, End
    <3> QED  BY <1>3, <3>1, <3>2
  <2> QED  BY <1>5, <1>8, <2>1
<1>10. Launched(i) = [st EXCEPT ![i] = more]  BY <1>2, <1>3 DEF Launched
<1>11. /\ more.jobs = jobs /\ more.busy = st[i].busy /\ more.held = st[i].held
       /\ DOMAIN more = DOMAIN st[i]
       /\ [more EXCEPT !.busy = "wait"].jobs = jobs /\ [more EXCEPT !.busy = "wait"].busy = "wait"
       /\ [more EXCEPT !.busy = "no", !.held = End].jobs = jobs
       /\ [more EXCEPT !.busy = "no", !.held = End].busy = "no"
  BY <1>3 DEF Stream
<1> HIDE DEF jobs, more
<1>12. CASE st' = Launched(i) /\ Ask(i - 1)
  <2>1. /\ \A j \in Ids : j # i => st'[j] = st[j]
        /\ st'[i].jobs = jobs /\ st'[i].busy = st[i].busy /\ st'[i].held = st[i].held
    BY <1>2, <1>3, <1>10, <1>11, <1>12
  <2>2. \A j \in Ids : j # i /\ j # Inner(i) => Fades(st[j], st'[j])  BY <2>1 DEF Fades
  <2>3. answer'.item = End /\ answer'.from = 0  BY <1>12 DEF Ask, NoAnswer
  <2>4. Tidy(i)' /\ \A v \in Item : Own(i, v)' => Own(i, v) \/ v = answer.item
    BY <1>5, <1>8, <1>9, <2>1
  <2> QED  BY <1>1, <1>2, <1>4, <2>2, <2>3, <2>4, GivenLined
<1>13. CASE st' = [Launched(i) EXCEPT ![i].busy = "wait"] /\ answer' = NoAnswer
  <2>1. /\ \A j \in Ids : j # i => st'[j] = st[j]
        /\ st'[i].jobs = jobs /\ st'[i].busy = "wait"
    BY <1>2, <1>3, <1>10, <1>11, <1>13
  <2>2. \A j \in Ids : j # i /\ j # Inner(i) => Fades(st[j], st'[j])  BY <2>1 DEF Fades
  <2>3. answer'.item = End /\ answer'.from = 0  BY <1>13 DEF NoAnswer
  <2>4. Tidy(i)' /\ \A v \in Item : Own(i, v)' => Own(i, v) \/ v = answer.item
    BY <1>5, <1>8, <2>1
  <2> QED  BY <1>1, <1>2, <1>4, <2>2, <2>3, <2>4, GivenLined
<1>14. CASE /\ st[i].busy = "refill" /\ Give(i, st[i].held)
            /\ st' = [Launched(i) EXCEPT ![i].busy = "no", ![i].held = End]
  <2>1. /\ \A j \in Ids : j # i => st'[j] = st[j]
        /\ st'[i].jobs = jobs /\ st'[i].busy = "no"
    BY <1>2, <1>3, <1>10, <1>11, <1>14
  <2>2. \A j \in Ids : j # i /\ j # Inner(i) => Fades(st[j], st'[j])  BY <2>1 DEF Fades
  <2>3. answer'.item = st[i].held /\ answer'.from = i  BY <1>14 DEF Give
  <2>4. Tidy(i)' /\ \A v \in Item : Own(i, v)' => Own(i, v) \/ v = answer.item
    BY <1>5, <1>8, <2>1
  <2>5. Own(i, st[i].held) /\ \A v : Own(i, v)' => Before(st[i].held, v)
    BY <1>5, <1>9, <1>14, <2>1
  <2> QED  BY <1>1, <1>2, <1>3, <1>4, <2>2, <2>3, <2>4, <2>5, GivenLined
<1> QED  BY <1>1, <1>12, <1>13, <1>14 DEF Launch

(* A stage of children goes on without an item.                              *)
LEMMA ChildrenLined ==
    ASSUME IInv, Lined, NEW i \in Main, kind[i] = "parallel", SameKinds, output' = output,
           \A j \in Ids : j # i => st'[j] = st[j],
           st'[i].jobs = st[i].jobs \/ (st[i].jobs # <<>> /\ st'[i].jobs = Tail(st[i].jobs)),
           st'[i].busy = "refill" => /\ st[i].jobs # <<>> /\ st'[i].held = st[i].jobs[1].item
                                     /\ st'[i].jobs = Tail(st[i].jobs),
           answer'.from \in {0, i},
           \/ answer'.item = End
           \/ /\ st'[i].busy # "refill"
              /\ \/ st[i].busy = "refill" /\ answer'.item = st[i].held /\ st'[i].jobs = st[i].jobs
                 \/ st[i].jobs # <<>> /\ answer'.item = st[i].jobs[1].item /\ st'[i].jobs = Tail(st[i].jobs)
    PROVE  Lined'
<1>1. /\ st[i].jobs \in Seq(Job) /\ st[i].held \in Item \cup {End} /\ Tidy(i) /\ kind'[i] = kind[i]
      /\ kind[i] # "on_error"
  <2>1. i \in Ids /\ st \in [Ids -> Stream]  BY IdFacts DEF IInv, Holding, HoldType
  <2> QED  BY <2>1 DEF Stream, Lined, AllTidy, SameKinds
<1>2. /\ \A v : Own(i, v) <=> \/ \E m \in 1..Len(st[i].jobs) : v = st[i].jobs[m].item
                              \/ st[i].busy = "refill" /\ v = st[i].held
      /\ \A v : Own(i, v)' <=> \/ \E m \in 1..Len(st'[i].jobs) : v = st'[i].jobs[m].item
                               \/ st'[i].busy = "refill" /\ v = st'[i].held
      /\ InTurn(st[i].jobs)
      /\ st[i].busy = "refill" =>
            \A m \in 1..Len(st[i].jobs) : Before(st[i].held, st[i].jobs[m].item)
      /\ /\ InTurn(st'[i].jobs)
         /\ st'[i].busy = "refill" =>
               \A m \in 1..Len(st'[i].jobs) : Before(st'[i].held, st'[i].jobs[m].item)
         => Tidy(i)'
  BY <1>1, ParallelOwn
<1>3. st[i].jobs # <<>> =>
        LET t == Tail(st[i].jobs) IN
        /\ InTurn(t) /\ 1 \in 1..Len(st[i].jobs) /\ st[i].jobs[1].item \in Item
        /\ \A m \in 1..Len(t) : /\ Before(st[i].jobs[1].item, t[m].item)
                                /\ m + 1 \in 1..Len(st[i].jobs) /\ t[m] = st[i].jobs[m + 1]
  <2>1. ASSUME st[i].jobs # <<>>
        PROVE  st[i].jobs[1].item \in Item
    <3>1. st[i].jobs[1] \in Job  BY <1>1, <2>1
    <3> QED  BY <3>1 DEF Job
  <2> QED  BY <1>1, <1>2, <2>1, InTurnTail
<1>4. Tidy(i)'  BY <1>2, <1>3
<1>5. /\ \A m \in 1..Len(st'[i].jobs) : \E n \in 1..Len(st[i].jobs) : st'[i].jobs[m] = st[i].jobs[n]
      /\ \A v : Own(i, v)' => Own(i, v)
  <2>1. CASE st'[i].jobs = st[i].jobs
    <3>1. st'[i].busy # "refill" \/ \E n \in 1..Len(st[i].jobs) : st'[i].held = st[i].jobs[n].item
      BY <1>3
    <3> QED  BY <1>2, <2>1, <3>1
  <2>2. CASE st[i].jobs # <<>> /\ st'[i].jobs = Tail(st[i].jobs)
    <3>1. \A m \in 1..Len(st'[i].jobs) : \E n \in 1..Len(st[i].jobs) : st'[i].jobs[m] = st[i].jobs[n]
      BY <1>3, <2>2
    <3>2. st'[i].busy = "refill" => st'[i].held = st[i].jobs[1].item /\ 1 \in 1..Len(st[i].jobs)
      BY <1>3, <2>2
    <3>3. ASSUME NEW v, Own(i, v)' PROVE Own(i, v)
      <4>1. CASE \E m \in 1..Len(st'[i].jobs) : v = st'[i].jobs[m].item  BY <1>2, <3>1, <4>1
      <4>2. CASE st'[i].busy = "refill" /\ v = st'[i].held  BY <1>2, <3>2, <4>2
      <4> QED  BY <1>2, <3>3, <4>1, <4>2
    <3> QED  BY <3>1, <3>3
  <2> QED  BY <2>1, <2>2
<1>6. \A j \in Ids : j # i /\ j # Inner(i) => Fades(st[j], st'[j])  BY DEF Fades
<1>7. CASE answer'.item = End  BY <1>1, <1>4, <1>5, <1>6, <1>7, OwnLined
<1>8. CASE /\ st'[i].busy # "refill" /\ answer'.item # End
           /\ \/ st[i].busy = "refill" /\ answer'.item = st[i].held /\ st'[i].jobs = st[i].jobs
              \/ st[i].jobs # <<>> /\ answer'.item = st[i].jobs[1].item /\ st'[i].jobs = Tail(st[i].jobs)
  <2>1. Own(i, answer'.item) /\ answer'.item \in Item /\ \A w : Own(i, w)' => Before(answer'.item, w)
    <3>1. \A w : Own(i, w)' => \E m \in 1..Len(st'[i].jobs) : w = st'[i].jobs[m].item
      BY <1>2, <1>8
    <3>2. CASE st[i].busy = "refill" /\ answer'.item = st[i].held /\ st'[i].jobs = st[i].jobs
      BY <1>1, <1>2, <1>8, <3>1, <3>2
    <3>3. CASE st[i].jobs # <<>> /\ answer'.item = st[i].jobs[1].item /\ st'[i].jobs = Tail(st[i].jobs)
      <4>1. Own(i, answer'.item)  BY <1>2, <1>3, <3>3
      <4>2. \A m \in 1..Len(st'[i].jobs) : Before(answer'.item, st'[i].jobs[m].item)  BY <1>3, <3>3
      <4> QED  BY <1>3, <3>1, <3>3, <4>1, <4>2
    <3> QED  BY <1>8, <3>2, <3>3
  <2> QED  BY <1>1, <1>4, <1>5, <1>6, <2>1, OwnLined
<1> QED  BY <1>7, <1>8

LEMMA ParallelStepLined ==
    ASSUME IInv, Lined, NEW i \in Main, ParallelStep(i) \/ CollectOutOfMemory(i)
    PROVE  Lined'
<1>1. i \in Ids /\ st \in [Ids -> Stream] /\ st[i] \in Stream
  BY IdFacts DEF IInv, Holding, HoldType
<1>2. ASSUME KeepRest PROVE SameKinds /\ output' = output
  BY <1>2 DEF KeepRest, SameKinds
<1>3. ASSUME OnTop(i), Close(Closing(i)), Give(i, End), KeepRest PROVE Lined'
  <2>1. \A j \in Ids : Fades(st[j], st'[j])  BY <1>3, ShutFades DEF Close
  <2> QED  BY <1>2, <1>3, <2>1, EndLined
<1>4. CASE NextParallel(i)
  <2>1. OnTop(i) /\ KeepRest /\ answer = NoAnswer /\ kind[i] = "parallel"
    BY <1>1, <1>4, EnterFacts DEF NextParallel
  <2>2. CASE st' = [st EXCEPT ![i].busy = "fill"] /\ Ask(i - 1)
    <3>1. /\ \A j \in Ids : j # i => st'[j] = st[j]
          /\ st'[i].jobs = st[i].jobs /\ st'[i].busy # "refill"
      BY <1>1, <2>2 DEF Stream
    <3>2. answer'.item = End /\ answer'.from = 0  BY <2>2 DEF Ask, NoAnswer
    <3> QED  BY <1>2, <2>1, <3>1, <3>2, ChildrenLined
  <2>3. CASE Close(Closing(i)) /\ Give(i, End)  BY <1>3, <2>1, <2>3
  <2>4. CASE st' = [st EXCEPT ![i].busy = "wait"] /\ UNCHANGED answer
    <3>1. /\ \A j \in Ids : j # i => st'[j] = st[j]
          /\ st'[i].jobs = st[i].jobs /\ st'[i].busy # "refill"
      BY <1>1, <2>4 DEF Stream
    <3>2. answer'.item = End /\ answer'.from = 0  BY <2>1, <2>4 DEF NoAnswer
    <3> QED  BY <1>2, <2>1, <3>1, <3>2, ChildrenLined
  <2> QED  BY <1>4, <2>2, <2>3, <2>4 DEF NextParallel
<1>5. CASE Launch(i)  BY <1>5, LaunchLined
<1>6. CASE LaunchFails(i)
  BY <1>6, EndsLined DEF LaunchFails, Told, OnTop, Step
<1>7. CASE ParallelSourceEnded(i)
  <2>1. OnTop(i) /\ KeepRest /\ kind[i] = "parallel"
    BY <1>7 DEF ParallelSourceEnded, Told, OnTop, Step
  <2>2. CASE FailClosed(i) \/ FailOpen(i)  BY <2>1, <2>2, EndsLined
  <2>3. CASE /\ st[i].busy = "refill" /\ Give(i, st[i].held)
             /\ st' = [st EXCEPT ![i].done = TRUE, ![i].busy = "no", ![i].held = End]
    <3>1. /\ \A j \in Ids : j # i => st'[j] = st[j]
          /\ st'[i].jobs = st[i].jobs /\ st'[i].busy # "refill"
      BY <1>1, <2>3 DEF Stream
    <3>2. answer'.item = st[i].held /\ answer'.from = i  BY <2>3 DEF Give
    <3> QED  BY <1>2, <2>1, <2>3, <3>1, <3>2, ChildrenLined
  <2>4. CASE Close(Closing(i)) /\ Give(i, End)  BY <1>3, <2>1, <2>4
  <2>5. CASE st' = [st EXCEPT ![i].done = TRUE, ![i].busy = "wait"] /\ answer' = NoAnswer
    <3>1. /\ \A j \in Ids : j # i => st'[j] = st[j]
          /\ st'[i].jobs = st[i].jobs /\ st'[i].busy # "refill"
      BY <1>1, <2>5 DEF Stream
    <3>2. answer'.item = End /\ answer'.from = 0  BY <2>5 DEF NoAnswer
    <3> QED  BY <1>2, <2>1, <3>1, <3>2, ChildrenLined
  <2> QED  BY <1>7, <2>2, <2>3, <2>4, <2>5 DEF ParallelSourceEnded
<1>8. ASSUME Waiting(i)
      PROVE  /\ OnTop(i) /\ kind[i] = "parallel" /\ st[i].jobs # <<>>
             /\ \A j \in Ids : j # i => Collected(i)[j] = st[j]
             /\ Collected(i)[i] = [st[i] EXCEPT !.jobs = Tail(st[i].jobs)]
             /\ Collected(i) \in [Ids -> Stream] /\ Collected(i)[i].jobs = Tail(st[i].jobs)
  <2>1. /\ OnTop(i) /\ kind[i] = "parallel" /\ Tail(st[i].jobs) \in Seq(Job)  BY <1>8, WaitingFacts
  <2>2. st[i].jobs # <<>>  BY <1>8 DEF Waiting, Jobs
  <2>3. [st[i] EXCEPT !.jobs = Tail(st[i].jobs)] \in Stream  BY <1>1, <2>1 DEF Stream
  <2>4. [st[i] EXCEPT !.jobs = Tail(st[i].jobs)].jobs = Tail(st[i].jobs)  BY <1>1 DEF Stream
  <2> QED  BY <1>1, <2>1, <2>2, <2>3, <2>4 DEF Collected
<1>9. CASE Collect(i)
  <2>1. Waiting(i) /\ KeepRest /\ Oldest(i).item = st[i].jobs[1].item
    BY <1>9 DEF Collect, Step, Oldest, Jobs
  <2>2. CASE st' = [Collected(i) EXCEPT ![i].busy = "no"] /\ Give(i, Oldest(i).item)
    <3>1. /\ \A j \in Ids : j # i => st'[j] = st[j]
          /\ st'[i].jobs = Tail(st[i].jobs) /\ st'[i].busy # "refill"
      BY <1>1, <1>8, <2>1, <2>2 DEF Stream
    <3>2. answer'.item = st[i].jobs[1].item /\ answer'.from = i  BY <2>1, <2>2 DEF Give
    <3> QED  BY <1>2, <1>8, <2>1, <3>1, <3>2, ChildrenLined
  <2>3. CASE /\ st' = [Collected(i) EXCEPT ![i].busy = "refill", ![i].held = Oldest(i).item]
             /\ Ask(i - 1)
    <3>1. /\ \A j \in Ids : j # i => st'[j] = st[j]
          /\ st'[i].jobs = Tail(st[i].jobs) /\ st'[i].held = st[i].jobs[1].item
      BY <1>1, <1>8, <2>1, <2>3 DEF Stream
    <3>2. answer'.item = End /\ answer'.from = 0  BY <2>3 DEF Ask, NoAnswer
    <3> QED  BY <1>2, <1>8, <2>1, <3>1, <3>2, ChildrenLined
  <2> QED  BY <1>9, <2>2, <2>3 DEF Collect
<1>10. CASE CollectFails(i)  BY <1>8, <1>10, EndsLined DEF CollectFails, Step
<1>11. CASE CollectOutOfMemory(i)
  <2>1. /\ Waiting(i) /\ st' = Collected(i) /\ answer' = NoAnswer /\ SameKinds /\ output' = output
    BY <1>11 DEF CollectOutOfMemory, SameKinds
  <2>2. answer'.item = End /\ answer'.from = 0  BY <2>1 DEF NoAnswer
  <2>3. /\ \A j \in Ids : j # i /\ j # Inner(i) => Fades(st[j], st'[j])
        /\ st[i].jobs # <<>> /\ kind[i] = "parallel" /\ kind'[i] = kind[i]
        /\ st'[i].jobs = Tail(st[i].jobs)
        /\ st'[i].busy = st[i].busy /\ st'[i].held = st[i].held
    BY <1>1, <1>8, <2>1 DEF Fades, Stream, SameKinds
  <2>4. Tidy(i) /\ st[i].jobs \in Seq(Job)  BY <1>1 DEF Lined, AllTidy, Stream
  <2>5. Tidy(i)' /\ \A v : Own(i, v)' => Own(i, v)
    <3>1. /\ \A v : Own(i, v) <=> \/ \E m \in 1..Len(st[i].jobs) : v = st[i].jobs[m].item
                                  \/ st[i].busy = "refill" /\ v = st[i].held
          /\ \A v : Own(i, v)' <=> \/ \E m \in 1..Len(st'[i].jobs) : v = st'[i].jobs[m].item
                                   \/ st'[i].busy = "refill" /\ v = st'[i].held
          /\ InTurn(st[i].jobs)
          /\ st[i].busy = "refill" =>
                \A m \in 1..Len(st[i].jobs) : Before(st[i].held, st[i].jobs[m].item)
          /\ /\ InTurn(st'[i].jobs)
             /\ st'[i].busy = "refill" =>
                   \A m \in 1..Len(st'[i].jobs) : Before(st'[i].held, st'[i].jobs[m].item)
             => Tidy(i)'
      <4>1. kind[i] = "parallel" /\ kind'[i] = kind[i] /\ Tidy(i)  BY <2>3, <2>4
      <4> QED  BY ONLY <4>1, ParallelOwn, i \in Main
    <3>2. /\ InTurn(st'[i].jobs)
          /\ \A m \in 1..Len(st'[i].jobs) : \E n \in 1..Len(st[i].jobs) : st'[i].jobs[m] = st[i].jobs[n]
      BY <2>3, <2>4, <3>1, InTurnTail
    <3>3. Tidy(i)'  BY <2>3, <3>1, <3>2
    <3>4. ASSUME NEW v, Own(i, v)' PROVE Own(i, v)
      <4>1. CASE \E m \in 1..Len(st'[i].jobs) : v = st'[i].jobs[m].item  BY <3>1, <3>2, <4>1
      <4>2. CASE st'[i].busy = "refill" /\ v = st'[i].held  BY <2>3, <3>1, <4>2
      <4> QED  BY <3>1, <3>4, <4>1, <4>2
    <3> QED  BY <3>3, <3>4
  <2> QED  BY <2>1, <2>2, <2>3, <2>5, OwnLined
<1> QED  BY <1>4, <1>5, <1>6, <1>7, <1>9, <1>10, <1>11 DEF ParallelStep

-----------------------------------------------------------------------------
(* The other steps.                                                          *)

(* The children of a stage have other states, for the same items.            *)
LEMMA JobsLined ==
    ASSUME IInv, Lined, NEW i \in Main, NEW jobs, ChangeJobs(i, jobs), Len(jobs) = Len(st[i].jobs),
           \A m \in 1..Len(jobs) : jobs[m].item = st[i].jobs[m].item
    PROVE  Lined'
<1>1. /\ st' = [st EXCEPT ![i].jobs = jobs] /\ SameKinds /\ kind' = kind
      /\ output' = output /\ answer' = answer /\ phase' = phase
  BY DEF ChangeJobs, SameKinds
<1>2. /\ st \in [Ids -> Stream] /\ i \in Ids /\ st[i] \in Stream
      /\ \A j \in Main : j \in Ids /\ Inner(j) \in Ids /\ Inner(j) # i
  BY IdFacts DEF IInv, Holding, HoldType
<1>3. /\ \A j \in Ids : j # i => st'[j] = st[j] /\ Fades(st[j], st'[j])
      /\ st'[i].jobs = jobs /\ st'[i].inner = st[i].inner /\ st'[i].left = st[i].left
      /\ st'[i].buffer = st[i].buffer /\ st'[i].held = st[i].held
      /\ st'[i].started = st[i].started /\ st'[i].busy = st[i].busy
  BY <1>1, <1>2 DEF Stream, Fades
<1>4. ASSUME NEW j \in Main, j # i PROVE (\A v : Own(j, v)' => Own(j, v)) /\ (Tidy(j) => Tidy(j)')
  BY <1>1, <1>2, <1>3, <1>4, FadeOwn
<1>5. (\A v : Own(i, v)' => Own(i, v)) /\ (Tidy(i) => Tidy(i)')
  <2>1. st'[Inner(i)] = st[Inner(i)]  BY <1>2, <1>3
  <2>2. \A v : Own(i, v)' => Own(i, v)  BY <1>1, <1>3, <2>1 DEF Own
  <2>3. Tidy(i) => Tidy(i)'  BY <1>1, <1>3, <2>1 DEF Tidy, Sorted, Before
  <2> QED  BY <2>2, <2>3
<1>6. \A j \in Main : st'[j].inner = st[j].inner  BY <1>2, <1>3
<1>7. InnerGave'
  <2>1. answer.from \in Ids \cup {0}  BY DEF IInv, Talking, TalkType
  <2>2. ASSUME answer.from \notin Main \cup {0}
        PROVE  /\ answer.from \in Ids /\ answer.from # i
               /\ answer.from - Stages \in Main
    BY <2>1, <2>2, <1>2, IdFacts
  <2>3. answer.from \notin Main \cup {0} => st'[answer.from] = st[answer.from]
    BY <1>3, <2>2
  <2>4. answer.from \notin Main \cup {0} =>
          /\ st'[answer.from - Stages].inner = st[answer.from - Stages].inner
          /\ kind'[answer.from - Stages] = kind[answer.from - Stages]
    BY <1>1, <1>6, <2>2
  <2> QED  BY <1>1, <2>3, <2>4 DEF Lined, InnerGave
<1> QED  BY <1>1, <1>4, <1>5, <1>6, <1>7, KeptLined

LEMMA WorkerLined ==
    ASSUME IInv, Lined, NEW i \in Main, Worker(i)
    PROVE  Lined'
<1>1. /\ st[i].jobs \in Seq(Job) /\ Jobs(i) = st[i].jobs
  BY IdFacts DEF IInv, Holding, HoldType, Stream, Jobs
<1>2. \A m \in 1..Len(st[i].jobs) : st[i].jobs[m] \in Job  BY <1>1
<1>3. CASE WorkerEnds(i)
  <2>1. PICK k \in 1..Len(Jobs(i)), state \in {"ok", "error", "bad"} :
          ChangeJobs(i, [Jobs(i) EXCEPT ![k].state = state])
    BY <1>3 DEF WorkerEnds
  <2> DEFINE jobs == [Jobs(i) EXCEPT ![k].state = state]
  <2>2. Len(jobs) = Len(st[i].jobs)  BY <1>1
  <2>3. \A m \in 1..Len(jobs) : jobs[m].item = st[i].jobs[m].item
    BY <1>1, <1>2, <2>2 DEF Job
  <2>4. ChangeJobs(i, jobs)  BY <2>1
  <2> HIDE DEF jobs
  <2> QED  BY <2>2, <2>3, <2>4, JobsLined
<1>4. CASE WorkerOverMemory(i)
  <2>1. PICK k \in 1..Len(Jobs(i)) : \E hit \in SUBSET (1..k - 1) :
          ChangeJobs(i, [j \in 1..Len(Jobs(i)) |->
                            IF j = k THEN [Jobs(i)[j] EXCEPT !.state = "bad"]
                            ELSE IF j \in hit THEN [Jobs(i)[j] EXCEPT !.state = "error"]
                            ELSE Jobs(i)[j]])
    BY <1>4 DEF WorkerOverMemory
  <2>2. PICK hit \in SUBSET (1..k - 1) :
          ChangeJobs(i, [j \in 1..Len(Jobs(i)) |->
                            IF j = k THEN [Jobs(i)[j] EXCEPT !.state = "bad"]
                            ELSE IF j \in hit THEN [Jobs(i)[j] EXCEPT !.state = "error"]
                            ELSE Jobs(i)[j]])
    BY <2>1
  <2> DEFINE jobs == [j \in 1..Len(Jobs(i)) |->
                            IF j = k THEN [Jobs(i)[j] EXCEPT !.state = "bad"]
                            ELSE IF j \in hit THEN [Jobs(i)[j] EXCEPT !.state = "error"]
                            ELSE Jobs(i)[j]]
  <2>3. \A m \in 1..Len(Jobs(i)) : jobs[m].item = st[i].jobs[m].item
    BY <1>1, <1>2 DEF Job
  <2>4. Len(jobs) = Len(st[i].jobs)
    <3>1. DOMAIN jobs = 1..Len(st[i].jobs) /\ Len(st[i].jobs) \in Nat  BY <1>1
    <3>2. jobs \in [1..Len(st[i].jobs) -> Job]  BY <1>1, <1>2 DEF Job
    <3> HIDE DEF jobs
    <3> QED  BY <3>1, <3>2
  <2>5. ChangeJobs(i, jobs)  BY <2>2
  <2> HIDE DEF jobs
  <2> QED  BY <1>1, <2>3, <2>4, <2>5, JobsLined
<1> QED  BY <1>3, <1>4 DEF Worker

(* What an inner stream has given is given as long as the answer stands.     *)
LEMMA InnerKept ==
    ASSUME IInv, Lined, SameKinds, \A j \in Ids : Fades(st[j], st'[j]), answer' = answer
    PROVE  InnerGave'
<1>1. answer.from \in Ids \cup {0}  BY DEF IInv, Talking, TalkType
<1>2. ASSUME answer.from \notin Main \cup {0}
      PROVE  /\ st'[answer.from].left = st[answer.from].left
             /\ st'[answer.from - Stages].inner = st[answer.from - Stages].inner
             /\ kind'[answer.from - Stages] = kind[answer.from - Stages]
  <2>1. answer.from \in Ids /\ answer.from - Stages \in Main /\ answer.from - Stages \in Ids
    BY <1>1, <1>2, IdFacts
  <2> QED  BY <2>1 DEF Fades, SameKinds
<1> QED  BY <1>2 DEF Lined, InnerGave

(* The last stage's answer comes after all the consumer has, and before all  *)
(* that is still in the stages.                                              *)
LEMMA LastOrd ==
    ASSUME IInv, Lined, FirstIsLast, Answered, answer.item # End
    PROVE  /\ answer.item \in Item
           /\ Ord(Still \cup {<<2 * Stages + 2, answer.item>>}, Replaced)
           /\ \A m \in 1..Len(output) : Before(output[m], answer.item)
<1> DEFINE v == answer.item
           r == 2 * Stages + 2
           T == Still \cup {<<r, v>>}
           last == LastStage
<1>1. /\ v \in Item /\ phase = "pulling" /\ last \in Main /\ last \in Ids
      /\ answer.from \in {last, Inner(last)} /\ output \in Seq(Item)
  BY LastIsStage DEF IInv, Talking, TalkType, RestType, Answered, FirstIsLast
<1>2. /\ Stages \in Int /\ r \in Int /\ last \in Int /\ last >= 1 /\ last <= Stages
      /\ \A j \in Main : j \in Int /\ j >= 1 /\ j <= Stages /\ j \in Ids
      /\ Replaced \subseteq Int
  BY <1>1, IdFacts DEF Main, Replaced
<1>3. \A j \in Main : kind[j] # "none" => j <= last
  <2> DEFINE U == {j \in Main : kind[j] # "none"}
  <2>1. U \subseteq 1..Stages /\ Stages \in Nat  BY IdFacts DEF Main
  <2>2. LastStage = Max(U)  BY DEF LastStage
  <2>3. \A j \in Main : kind[j] # "none" <=> j \in U  OBVIOUS
  <2> HIDE DEF U
  <2>4. ASSUME NEW j \in U PROVE Max(U) >= j  BY <2>1, Greatest
  <2>5. \A j \in U : j <= Max(U)  BY <1>1, <1>2, <2>1, <2>2, <2>4
  <2> QED  BY <2>2, <2>3, <2>5
<1>4. \A x : \A j \in Main : Own(j, x) => kind[j] # "none"
  BY DEF Own, SourceKinds, Barriers
<1>5. \A k \in Replaced : k <= last  BY <1>3 DEF Replaced
<1> HIDE DEF last
<1>6. ASSUME NEW q \in Int, q >= 2 * last, q < r, AnswerAt(q, v),
             \A x \in Item : q = 2 * last /\ Own(last, x) => Before(v, x)
      PROVE  Ord(T, Replaced) /\ \A m \in 1..Len(output) : Before(output[m], v)
  <2>1. <<q, v>> \in Spots /\ v \in Int  BY <1>1, <1>6, ItemIsInt, SpotIs
  <2>2. ASSUME NEW a \in Int, NEW x \in Int, <<a, x>> \in T
        PROVE  \/ a = r /\ x = v
               \/ <<a, x>> \in Spots /\ (a <= q \/ r <= a) /\ (a = q => Before(v, x))
    <3>1. CASE <<a, x>> \in Still
      <4>1. x \in Item /\ StillAt(a, x) /\ <<a, x>> \in Spots  BY <3>1, SpotIs
      <4>2. CASE \E j \in Main : a = 2 * j /\ Own(j, x)
        <5>1. PICK j \in Main : a = 2 * j /\ Own(j, x)  BY <4>2
        <5>2. j \in Int /\ j <= last  BY <1>2, <1>3, <1>4, <5>1
        <5>3. a <= q  BY <1>2, <1>6, <5>1, <5>2
        <5>4. ASSUME a = q PROVE Before(v, x)
          <6>1. j = last /\ q = 2 * last  BY <1>2, <1>6, <5>1, <5>2, <5>4
          <6> QED  BY <1>6, <4>1, <5>1, <6>1
        <5> QED  BY <4>1, <5>3, <5>4
      <4>3. CASE a = r
        <5>1. r <= a /\ a # q  BY <1>2, <1>6, <4>3
        <5> QED  BY <4>1, <5>1
      <4> QED  BY <4>1, <4>2, <4>3 DEF StillAt
    <3>2. CASE <<a, x>> = <<r, v>>  BY <3>2
    <3> QED  BY <2>2, <3>1, <3>2
  <2>3. \A k \in Replaced : ~(q < 2 * k /\ 2 * k <= r)  BY <1>2, <1>5, <1>6
  <2>4. Ord(Spots, Replaced)  BY DEF Lined
  <2>5. ASSUME NEW m \in 1..Len(output) PROVE Before(output[m], v)
    <3>1. output[m] \in Item /\ output[m] \in Int  BY <1>1, ItemIsInt
    <3>2. StillAt(r, output[m])  BY DEF StillAt
    <3>3. <<r, output[m]>> \in Spots  BY <1>2, <3>1, <3>2, SpotIs
    <3> HIDE DEF v, r
    <3>4. Before(output[m], v) \/ \E k \in Replaced : q < 2 * k /\ 2 * k <= r
      BY <1>2, <1>6, <2>1, <2>4, <3>1, <3>3 DEF Ord
    <3> QED  BY <2>3, <3>4
  <2> HIDE DEF T, v, r
  <2>6. Ord(T, Replaced)  BY <1>2, <1>6, <2>1, <2>2, <2>3, <2>4, OrdShift
  <2> QED  BY <2>5, <2>6
<1>7. CASE answer.from = last
  <2>1. 2 * last + 1 \in Int /\ 2 * last + 1 < r /\ 2 * last + 1 >= 2 * last /\ 2 * last + 1 # 2 * last
    BY <1>2
  <2>2. AnswerAt(2 * last + 1, v)  BY <1>1, <1>7 DEF AnswerAt
  <2> QED  BY <1>1, <1>6, <2>1, <2>2
<1>8. CASE answer.from = Inner(last)
  <2>1. Inner(last) \notin Main /\ Inner(last) - Stages = last /\ Inner(last) # 0
    BY <1>1, <1>2, IdFacts
  <2>2. AnswerAt(2 * last, v)  BY <1>1, <1>8, <2>1 DEF AnswerAt
  <2>3. /\ st[last].inner # 0
        /\ IF kind[last] = "flat_map" THEN st[Inner(last)].left = 0 ELSE v = Items + 1
    BY <1>8, <2>1 DEF Lined, InnerGave
  <2>4. kind[last] \in {"flat_map", "on_error"}
    <3>1. Fit(kind, st)  BY BookFacts DEF IInv
    <3> QED  BY <1>1, <2>3, <3>1 DEF Fit, Nested
  <2>5. \A x \in Item : Own(last, x) => Before(v, x)
    BY <2>3, <2>4 DEF Own, Before, SourceKinds, Barriers
  <2>6. 2 * last \in Int /\ 2 * last < r /\ 2 * last >= 2 * last  BY <1>2
  <2> QED  BY <1>1, <1>6, <2>2, <2>5, <2>6
<1> QED  BY <1>1, <1>7, <1>8

LEMMA OutputLined ==
    ASSUME IInv, Lined, FirstIsLast, Answered, answer.item # End, SameKinds,
           \A j \in Ids : Fades(st[j], st'[j]),
           output' = Append(output, answer.item), answer' = NoAnswer \/ (answer' = answer /\ phase' # "pulling")
    PROVE  Lined'
<1> DEFINE T == Still \cup {<<2 * Stages + 2, answer.item>>}
<1>1. /\ answer.item \in Item /\ Ord(T, Replaced)
      /\ \A m \in 1..Len(output) : Before(output[m], answer.item)
  BY LastOrd
<1>2. output \in Seq(Item)  BY DEF IInv, RestType
<1>3. /\ Sorted(output')
      /\ \A m \in 1..Len(output') : \/ output'[m] = answer.item
                                    \/ m \in 1..Len(output) /\ output'[m] = output[m]
  BY <1>1, <1>2, SortedAppend DEF Lined
<1>4. \A j \in Main : j \in Ids /\ Inner(j) \in Ids /\ j \in Int  BY IdFacts
<1>5. \A j \in Main : (\A x : Own(j, x)' => Own(j, x)) /\ (Tidy(j) => Tidy(j)')
  BY <1>4, FadeOwn DEF SameKinds
<1>6. AllTidy'  BY <1>5 DEF Lined, AllTidy
<1>7. Sorted(output)'  BY <1>3 DEF Sorted, Before
<1>8. InnerGave'
  <2>1. CASE answer' = NoAnswer  BY <2>1 DEF InnerGave, NoAnswer
  <2>2. CASE answer' = answer  BY <2>2, InnerKept
  <2> QED  BY <2>1, <2>2
<1>9. ASSUME NEW n \in Int, NEW x \in Item, StillAt(n, x)' \/ AnswerAt(n, x)' PROVE <<n, x>> \in T
  <2>1. ~AnswerAt(n, x)'
    <3>1. NoAnswer.item = End  BY DEF NoAnswer
    <3> QED  BY <1>9, <3>1, ItemIsInt DEF AnswerAt
  <2>2. CASE \E j \in Main : n = 2 * j /\ Own(j, x)'
    <3>1. StillAt(n, x)  BY <1>5, <2>2 DEF StillAt
    <3> QED  BY <1>9, <3>1, SpotIs
  <2>3. CASE n = 2 * Stages + 2 /\ \E m \in 1..Len(output') : x = output'[m]
    <3>1. x = answer.item \/ StillAt(n, x)  BY <1>3, <2>3 DEF StillAt
    <3> QED  BY <1>9, <2>3, <3>1, SpotIs
  <2> QED  BY <1>9, <2>1, <2>2, <2>3 DEF StillAt
<1>10. Replaced \subseteq Replaced'
  <2>1. \A j \in Main : st'[j].inner = st[j].inner  BY <1>4 DEF Fades
  <2> QED  BY <2>1, ReplacedGrows
<1>11. Ord(Spots', Replaced')
  <2>1. \A a, x \in Int : <<a, x>> \in Spots' => <<a, x>> \in T  BY <1>9, SpotIsNow
  <2> HIDE DEF T
  <2> QED  BY <1>1, <1>10, <2>1, OrdLess
<1> QED  BY <1>6, <1>7, <1>8, <1>11 DEF Lined

LEMMA StillLined ==
    ASSUME IInv, Lined, UNCHANGED <<kind, st, answer, output>>, phase' = "pulling" => phase = "pulling"
    PROVE  Lined'
<1>1. SameKinds /\ \A j \in Ids : Fades(st[j], st'[j])  BY DEF SameKinds, Fades
<1>2. InnerGave'  BY <1>1, InnerKept
<1> QED  BY <1>1, <1>2, FadeLined

LEMMA BeginLined ==
    ASSUME IInv, Lined, FirstIsLast, Begin
    PROVE  Lined'
<1>1. phase = "start" /\ SameKinds /\ UNCHANGED <<answer, output>>  BY DEF Begin, SameKinds
<1>2. answer.item = End
  <2>1. answer.from = 0  BY <1>1 DEF FirstIsLast, IInv, Talking, Phases
  <2> QED  BY <2>1 DEF IInv, Talking, Phases
<1>3. \A j \in Ids : Fades(st[j], st'[j])
  <2>1. CASE UNCHANGED st  BY <2>1 DEF Fades
  <2>2. CASE Close(Closing(LastStage))  BY <2>2, ShutFades DEF Close
  <2> QED  BY <2>1, <2>2 DEF Begin
<1>4. InnerGave'  BY <1>1, <1>3, InnerKept
<1> QED  BY <1>1, <1>2, <1>3, <1>4, FadeLined

LEMMA ReadOnLined ==
    ASSUME IInv, Lined, FirstIsLast, ReadOn
    PROVE  Lined'
<1>1. /\ Answered /\ answer.item # End /\ output' = Append(output, answer.item) /\ answer' = NoAnswer
      /\ SameKinds /\ \A j \in Ids : Fades(st[j], st'[j])
  BY DEF ReadOn, SameKinds, Fades
<1> QED  BY <1>1, OutputLined

LEMMA StopLined ==
    ASSUME IInv, Lined, FirstIsLast, Stop
    PROVE  Lined'
<1>1. Answered /\ answer' = answer /\ SameKinds /\ phase' # "pulling"  BY DEF Stop, SameKinds
<1>2. \A j \in Ids : Fades(st[j], st'[j])
  <2>1. CASE UNCHANGED st  BY <2>1 DEF Fades
  <2>2. CASE st' = Shut(Closing(LastStage))  BY <2>2, ShutFades
  <2> QED  BY <2>1, <2>2 DEF Stop, LeaveStream
<1>3. InnerGave'  BY <1>1, <1>2, InnerKept
<1>4. CASE output' = output  BY <1>1, <1>2, <1>3, <1>4, FadeLined
<1>5. CASE answer.item # End /\ output' = Append(output, answer.item)
  BY <1>1, <1>2, <1>5, OutputLined
<1> QED  BY <1>4, <1>5 DEF Stop

LEMMA ReleaseLined ==
    ASSUME IInv, Lined, Release
    PROVE  Lined'
<1>1. SameKinds /\ UNCHANGED <<answer, output>> /\ phase' # "pulling"  BY DEF Release, SameKinds
<1>2. \A j \in Ids : Fades(st[j], st'[j])
  <2>1. PICK C : st' = Shut(C)  BY DEF Release
  <2> QED  BY <2>1, ShutFades
<1>3. InnerGave'  BY <1>1, <1>2, InnerKept
<1> QED  BY <1>1, <1>2, <1>3, FadeLined

-----------------------------------------------------------------------------
(* The call at the bottom of the stack.                                      *)

(* What a step of the stage on top does to the stack.                        *)
Stacks(i) ==
    /\ OnTop(i) /\ phase' = phase /\ SameKinds
    /\ \/ calls' = Front(calls) /\ answer'.from = i
       \/ calls' = calls
       \/ \E j : calls' = Append(calls, j)
       \/ i \in Main /\ calls' = Append(Front(calls), Inner(i))

LEMMA StacksLast ==
    ASSUME IInv, IInv', FirstIsLast, NEW i, Stacks(i)
    PROVE  FirstIsLast'
<1>1. /\ calls \in Seq(Ids) /\ calls' \in Seq(Ids) /\ calls # <<>> /\ calls[Len(calls)] = i
      /\ phase = "pulling" /\ phase' = "pulling" /\ LastStage' = LastStage
      /\ LastStage \in Main
  BY SameLast, LastIsStage DEF IInv, Talking, TalkType, Stacks, OnTop, SameKinds
<1>2. /\ Len(calls) \in Nat /\ Len(calls) >= 1 /\ i \in Ids
      /\ Front(calls) \in Seq(Ids) /\ Len(Front(calls)) = Len(calls) - 1
      /\ \A m \in 1..Len(calls) - 1 : Front(calls)[m] = calls[m]
  BY <1>1, FrontFacts
<1>3. calls[1] \in {LastStage, Inner(LastStage)} /\ Inner(LastStage) \notin Main
  BY <1>1, IdFacts DEF FirstIsLast
<1>4. CASE calls' = Front(calls) /\ answer'.from = i
  <2>1. CASE Len(calls) = 1
    <3>1. calls' = <<>> /\ i = calls[1]  BY <1>1, <1>2, <1>4, <2>1
    <3> QED  BY <1>1, <1>3, <1>4, <3>1 DEF FirstIsLast
  <2>2. CASE Len(calls) > 1
    <3>1. calls'[1] = calls[1] /\ calls' # <<>>  BY <1>1, <1>2, <1>4, <2>2
    <3> QED  BY <1>1, <1>3, <3>1 DEF FirstIsLast
  <2> QED  BY <1>2, <2>1, <2>2
<1>5. CASE calls' = calls  BY <1>1, <1>3, <1>5 DEF FirstIsLast
<1>6. CASE \E j : calls' = Append(calls, j)
  <2>1. PICK j : calls' = Append(calls, j)  BY <1>6
  <2>2. calls'[1] = calls[1] /\ calls' # <<>>  BY <1>1, <1>2, <2>1
  <2> QED  BY <1>1, <1>3, <2>2 DEF FirstIsLast
<1>7. CASE i \in Main /\ calls' = Append(Front(calls), Inner(i))
  <2>1. calls' # <<>>  BY <1>2, <1>7
  <2>2. CASE Len(calls) = 1
    <3>1. i = LastStage  BY <1>1, <1>3, <1>7, <2>2
    <3>2. calls'[1] = Inner(i)
      <4>1. Len(Front(calls)) = 0  BY <1>2, <2>2
      <4>2. Inner(i) \in Ids  BY <1>7, IdFacts
      <4>3. calls'[Len(Front(calls)) + 1] = Inner(i)  BY <1>2, <1>7, <4>2, AppendFacts
      <4> QED  BY <4>1, <4>3
    <3> QED  BY <1>1, <2>1, <3>1, <3>2 DEF FirstIsLast
  <2>3. CASE Len(calls) > 1
    <3>1. Inner(i) \in Ids /\ 1 \in 1..Len(Front(calls)) /\ 1 \in 1..Len(calls) - 1
      BY <1>2, <1>7, <2>3, IdFacts
    <3>2. calls'[1] = calls[1]  BY <1>2, <1>7, <3>1, AppendFacts
    <3> QED  BY <1>1, <1>3, <2>1, <3>2 DEF FirstIsLast
  <2> QED  BY <1>2, <2>2, <2>3
<1> QED  BY <1>4, <1>5, <1>6, <1>7 DEF Stacks

(* The ways a stage ends its turn.                                           *)
Turns(i) ==
    \/ \E item : Give(i, item)
    \/ \E j : Ask(j)
    \/ calls' = calls
    \/ i \in Main /\ calls' = Append(Front(calls), Inner(i))

LEMMA TurnsStack ==
    ASSUME NEW i, OnTop(i), Pulls, Turns(i)
    PROVE  Stacks(i)
<1>1. phase' = phase /\ SameKinds  BY DEF Pulls, SameKinds
<1>2. CASE \E item : Give(i, item)  BY <1>1, <1>2 DEF Give, Stacks
<1>3. CASE \E j : Ask(j)  BY <1>1, <1>3 DEF Ask, Stacks
<1> QED  BY <1>1, <1>2, <1>3 DEF Turns, Stacks

LEMMA EndsTurn ==
    ASSUME NEW i, Finish(i) \/ FailClosed(i) \/ FailOpen(i)
    PROVE  Turns(i)
BY DEF Finish, FailClosed, FailOpen, Turns

LEMMA SourceStacks ==
    ASSUME NEW i, Refuse(i) \/ SourceStep(i) \/ WatchBreaks(i)
    PROVE  Stacks(i)
<1>1. OnTop(i)
  BY DEF Refuse, SourceStep, WatchBreaks, NextInMemory, NextInDatabase, TimerCancelled, NextInFile,
         NextWatch, Entered, Asked, OnTop
<1>2. CASE Refuse(i)  BY <1>1, <1>2, SourcePulls, TurnsStack DEF Refuse, Turns
<1>3. CASE NextInMemory(i)
  <2>1. Turns(i)  BY <1>3, EndsTurn DEF NextInMemory, Turns
  <2> QED  BY <1>1, <1>3, <2>1, SourcePulls, TurnsStack DEF SourceStep
<1>4. CASE NextInDatabase(i)
  <2>1. Turns(i)  BY <1>4, EndsTurn DEF NextInDatabase, Turns
  <2> QED  BY <1>1, <1>4, <2>1, SourcePulls, TurnsStack DEF SourceStep
<1>5. CASE NextInFile(i)
  <2>1. Turns(i)  BY <1>5, EndsTurn DEF NextInFile, Turns
  <2> QED  BY <1>1, <1>5, <2>1, SourcePulls, TurnsStack DEF SourceStep
<1>6. CASE NextWatch(i)
  <2>1. Turns(i)  BY <1>6, EndsTurn DEF NextWatch, Turns
  <2> QED  BY <1>1, <1>6, <2>1, SourcePulls, TurnsStack DEF SourceStep
<1>7. CASE TimerCancelled(i) \/ WatchBreaks(i)
  <2>1. Turns(i)  BY <1>7, EndsTurn DEF TimerCancelled, WatchBreaks
  <2> QED  BY <1>1, <1>7, <2>1, SourcePulls, TurnsStack DEF SourceStep
<1> QED  BY <1>2, <1>3, <1>4, <1>5, <1>6, <1>7 DEF SourceStep

LEMMA StageStacks ==
    ASSUME IInv, NEW i \in Main,
           ItemStep(i) \/ RowStep(i) \/ BarrierStep(i) \/ InnerStep(i) \/ ParallelStep(i)
    PROVE  Stacks(i)
<1>1. Pulls  BY StagePulls
<1>2. CASE ItemStep(i)
  <2>1. OnTop(i)
    BY <1>2 DEF ItemStep, AskSource, PassItem, DropItem, FailItem, SourceEnded, Told, Entered, Asked, OnTop
  <2>2. Turns(i)
    BY <1>2, EndsTurn DEF ItemStep, AskSource, PassItem, DropItem, FailItem, SourceEnded, Turns
  <2> QED  BY <1>1, <2>1, <2>2, TurnsStack
<1>3. CASE RowStep(i)
  <2>1. OnTop(i)  BY <1>3 DEF RowStep, AskRow, EncodeRow, Told, Entered, Asked, OnTop
  <2>2. Turns(i)  BY <1>3, EndsTurn DEF RowStep, AskRow, EncodeRow, Turns
  <2> QED  BY <1>1, <2>1, <2>2, TurnsStack
<1>4. CASE BarrierStep(i)
  <2>1. OnTop(i)  BY <1>4 DEF BarrierStep, NextSorted, Load, Loaded, Told, Entered, Asked, OnTop
  <2>2. CASE NextSorted(i) \/ Load(i)  BY <1>1, <2>1, <2>2, EndsTurn, TurnsStack DEF NextSorted, Load, Turns
  <2>3. CASE Loaded(i)
    <3>1. \E item : Give(i, item)  BY <2>3 DEF Loaded
    <3> QED  BY <1>1, <2>1, <3>1, TurnsStack DEF Turns
  <2> QED  BY <1>4, <2>2, <2>3 DEF BarrierStep
<1>5. CASE InnerStep(i)
  <2>1. OnTop(i)
    BY <1>5 DEF InnerStep, AskInner, FlatMapOuter, FlatMapInner, OnErrorSource, OnErrorInner, Told,
                Entered, Asked, OnTop
  <2>2. Turns(i)
    BY <1>5, EndsTurn DEF InnerStep, AskInner, FlatMapOuter, FlatMapInner, OnErrorSource, OnErrorInner,
                          Turns
  <2> QED  BY <1>1, <2>1, <2>2, TurnsStack
<1>6. CASE ParallelStep(i)
  <2>1. OnTop(i)
    BY <1>6 DEF ParallelStep, NextParallel, Launch, LaunchFails, ParallelSourceEnded, Collect,
                CollectFails, Waiting, Told, Entered, Asked, OnTop
  <2>2. Turns(i)
    BY <1>6, EndsTurn DEF ParallelStep, NextParallel, Launch, LaunchFails, ParallelSourceEnded, Collect,
                          CollectFails, Turns
  <2> QED  BY <1>1, <2>1, <2>2, TurnsStack
<1> QED  BY <1>2, <1>3, <1>4, <1>5, <1>6

LEMMA StepLast ==
    ASSUME IInv, IInv', FirstIsLast, [Next]_vars
    PROVE  FirstIsLast' /\ SameKinds
<1>1. ASSUME UNCHANGED <<kind, calls, answer, phase>> PROVE FirstIsLast' /\ SameKinds
  <2>1. LastStage' = LastStage  BY <1>1, SameLast
  <2> QED  BY <1>1, <2>1 DEF FirstIsLast, SameKinds
<1>2. ASSUME NEW i, Stacks(i) PROVE FirstIsLast' /\ SameKinds  BY <1>2, StacksLast DEF Stacks
<1>3. CASE \E i \in Ids : Refuse(i) \/ SourceStep(i)  BY <1>2, <1>3, SourceStacks
<1>4. CASE \E i \in Main :
              ItemStep(i) \/ RowStep(i) \/ BarrierStep(i) \/ InnerStep(i) \/ ParallelStep(i)
  BY <1>2, <1>4, StageStacks
<1>5. CASE Begin \/ Stop \/ Release \/ ReadOn
  <2>1. SameKinds  BY <1>5 DEF Begin, Stop, Release, ReadOn, SameKinds
  <2>2. LastStage' = LastStage  BY <2>1, SameLast DEF SameKinds
  <2>3. CASE Begin
    <3>1. phase = "start" /\ calls' = calls  BY <2>3 DEF Begin
    <3> QED  BY <2>1, <2>2, <3>1 DEF FirstIsLast
  <2>4. CASE Stop \/ Release
    <3>1. phase' \in {"ended", "released"} /\ calls' = calls  BY <2>4 DEF Stop, Release
    <3> QED  BY <2>1, <2>2, <3>1 DEF FirstIsLast
  <2>5. CASE ReadOn
    <3>1. calls' = <<LastStage>>  BY <2>5 DEF ReadOn
    <3>2. calls' # <<>> /\ calls'[1] = LastStage  BY <3>1
    <3> QED  BY <2>1, <2>2, <3>2 DEF FirstIsLast
  <2> QED  BY <1>5, <2>3, <2>4, <2>5
<1>6. CASE Mishap
  <2>1. CASE OutOfMemory \/ \E i \in Main : CollectOutOfMemory(i)
    <3>1. calls' = <<>> /\ phase' = "ended" /\ kind' = kind  BY <2>1 DEF OutOfMemory, CollectOutOfMemory
    <3> QED  BY <3>1 DEF FirstIsLast, SameKinds
  <2>2. CASE \E i \in Main : WatchBreaks(i)  BY <1>2, <2>2, SourceStacks
  <2> QED  BY <1>6, <2>1, <2>2 DEF Mishap
<1>7. CASE \E i \in Main : Worker(i)
  BY <1>1, <1>7 DEF Worker, WorkerEnds, WorkerOverMemory, ChangeJobs
<1>8. CASE UNCHANGED pipeVars \/ UNCHANGED vars  BY <1>1, <1>8 DEF vars, pipeVars
<1> QED  BY <1>3, <1>4, <1>5, <1>6, <1>7, <1>8 DEF Next, RuntimeStep

-----------------------------------------------------------------------------
(* All together.                                                             *)

LEMMA StepLined ==
    ASSUME IInv, Lined, FirstIsLast, Plain, [Next]_vars
    PROVE  Lined'
<1>1. CASE \E i \in Ids : Refuse(i) \/ SourceStep(i)  BY <1>1, RefuseLined, SourceStepLined
<1>2. CASE \E i \in Main :
              ItemStep(i) \/ RowStep(i) \/ BarrierStep(i) \/ InnerStep(i) \/ ParallelStep(i)
  BY <1>2, ItemStepLined, RowStepLined, BarrierStepLined, InnerStepLined, ParallelStepLined
<1>3. CASE Begin \/ ReadOn \/ Stop \/ Release
  BY <1>3, BeginLined, ReadOnLined, StopLined, ReleaseLined
<1>4. CASE Mishap
  <2>1. CASE OutOfMemory
    <3>1. answer' = NoAnswer /\ SameKinds /\ output' = output /\ \A j \in Ids : Fades(st[j], st'[j])
      BY <2>1 DEF OutOfMemory, SameKinds, Fades
    <3> QED  BY <3>1, AskLined
  <2>2. CASE \E i \in Main : CollectOutOfMemory(i) \/ WatchBreaks(i)
    <3>1. \A i \in Main : i \in Ids  BY IdFacts
    <3> QED  BY <2>2, <3>1, ParallelStepLined, SourceStepLined
  <2> QED  BY <1>4, <2>1, <2>2 DEF Mishap
<1>5. CASE \E i \in Main : Worker(i)  BY <1>5, WorkerLined
<1>6. CASE UNCHANGED pipeVars \/ UNCHANGED vars  BY <1>6, StillLined DEF vars, pipeVars
<1> QED  BY <1>1, <1>2, <1>3, <1>4, <1>5, <1>6 DEF Next, RuntimeStep

(* At the start the items are in the source, and the header in its stage.    *)
LEMMA InitLined ==
    ASSUME Init
    PROVE  Order
<1>1. IInv  BY InitIsSound
<1>2. /\ st = [i \in Ids |-> Fresh(CASE kind[i] = "skip" -> 1 [] kind[i] = "take" -> 1
                                     [] OTHER -> Items, 0)]
      /\ answer = NoAnswer /\ phase = "start" /\ output = <<>>
  BY DEF Init
<1>3. \A i \in Ids : /\ st[i].inner = 0 /\ st[i].buffer = <<>> /\ st[i].held = End /\ st[i].jobs = <<>>
                     /\ st[i].busy = "no" /\ ~st[i].started
  BY <1>2 DEF Fresh
<1>4. \A i \in Main : i \in Ids /\ i \in Int /\ i >= 1  BY IdFacts
<1>5. Len(<<>>) = 0 /\ 1..0 = {}  OBVIOUS
<1>6. FirstIsLast
  <2>1. PICK last \in Main : calls = <<last>> /\ LastStage = last  BY InitKinds
  <2>2. calls # <<>> /\ calls[1] = LastStage  BY <2>1
  <2> QED  BY <1>2, <2>2 DEF FirstIsLast
<1>7. Sorted(output)  BY <1>2, <1>5 DEF Sorted
<1>8. AllTidy  BY <1>3, <1>4, <1>5 DEF AllTidy, Tidy, Sorted
<1>9. answer.from = 0 /\ answer.item = End  BY <1>2 DEF NoAnswer
<1>10. InnerGave  BY <1>9 DEF InnerGave
<1>11. /\ KindsFit(kind) /\ 1 \in Main /\ 1 \in Ids /\ Items \in Int
       /\ st[1].left = Items
  <2>1. KindsFit(kind)  BY <1>1, BookFacts DEF IInv, Fit
  <2>2. kind[1] # "skip" /\ kind[1] # "take"  BY <2>1 DEF KindsFit, SourceKinds
  <2>3. st[1] = Fresh(Items, 0)  BY <1>2, <2>2, SourceIsId
  <2> QED  BY <2>1, <2>3, SourceIsId, IdFacts DEF Fresh
<1>12. ASSUME NEW n, NEW v \in Item, StillAt(n, v) \/ AnswerAt(n, v)
       PROVE  \/ n = 2 /\ v >= 1
              \/ \E i \in Main : n = 2 * i /\ i >= 2 /\ kind[i] = "encode_csv" /\ v = 0
  <2>1. ~AnswerAt(n, v)  BY <1>2 DEF AnswerAt
  <2>2. PICK i \in Main : n = 2 * i /\ Own(i, v)  BY <1>2, <1>5, <1>12, <2>1 DEF StillAt
  <2>3. i \in Ids /\ i \in Int /\ i >= 1  BY <1>4
  <2>4. CASE kind[i] \in SourceKinds
    <3>1. i = 1  BY <1>11, <2>4 DEF KindsFit, SourceKinds, StageKinds
    <3>2. Own(1, v) => v \in Items + 1 - Items..Items
      BY <1>3, <1>11, <2>4, <3>1 DEF Own, SourceKinds, Barriers
    <3> QED  BY <1>11, <2>2, <3>1, <3>2
  <2>5. CASE kind[i] \notin SourceKinds
    <3>1. i # 1  BY <1>11, <2>5 DEF KindsFit
    <3>2. kind[i] = "encode_csv" /\ v = 0
      BY <1>3, <1>5, <2>2, <2>3, <2>5, ItemIsInt DEF Own, Header
    <3> QED  BY <2>2, <2>3, <3>1, <3>2
  <2> QED  BY <2>4, <2>5
<1>13. ASSUME Plain PROVE Ord(Spots, Replaced)
  <2>1. ASSUME NEW a \in Int, NEW b \in Int, NEW x \in Int, NEW y \in Int,
               <<a, x>> \in Spots, <<b, y>> \in Spots, a > b
        PROVE  Before(x, y)
    <3>1. /\ x \in Item /\ y \in Item
          /\ \/ a = 2 /\ x >= 1
             \/ \E i \in Main : a = 2 * i /\ i >= 2 /\ kind[i] = "encode_csv" /\ x = 0
          /\ \/ b = 2 /\ y >= 1
             \/ \E i \in Main : b = 2 * i /\ i >= 2 /\ kind[i] = "encode_csv" /\ y = 0
      BY <1>12, <2>1, SpotIs
    <3>2. CASE b = 2 /\ y >= 1
      <4>1. x = 0  BY <2>1, <3>1, <3>2
      <4> QED  BY <3>2, <4>1 DEF Before
    <3>3. ASSUME NEW i \in Main, b = 2 * i, i >= 2, kind[i] = "encode_csv"
          PROVE  FALSE
      <4>1. ASSUME NEW j \in Main, a = 2 * j, kind[j] = "encode_csv" PROVE FALSE
        <5>1. i = j  BY <1>13, <3>3, <4>1 DEF Plain
        <5> QED  BY <1>4, <2>1, <3>3, <4>1, <5>1
      <4>2. a # 2  BY <1>4, <2>1, <3>3
      <4> QED  BY <3>1, <4>1, <4>2
    <3> QED  BY <3>1, <3>2, <3>3
  <2> QED  BY <2>1 DEF Ord
<1> QED  BY <1>6, <1>7, <1>8, <1>10, <1>13 DEF Order

LEMMA StepOrder ==
    ASSUME IInv, IInv', Order, [Next]_vars
    PROVE  Order'
<1>1. FirstIsLast' /\ SameKinds  BY StepLast DEF Order
<1>2. Plain' <=> Plain  BY <1>1 DEF Plain, SameKinds
<1>3. ASSUME Plain PROVE Lined'
  <2>1. Lined /\ FirstIsLast  BY <1>3 DEF Order, Lined
  <2> QED  BY <1>3, <2>1, StepLined
<1> QED  BY <1>1, <1>2, <1>3 DEF Order, Lined

(* Items come out in the order of the source, each once, though parallel     *)
(* works on several at a time, flat_map and on_error read other streams in   *)
(* between, and group_by and encode_csv hold some back; those of a handler's *)
(* stream come after those of the stream it replaces (stream_next,           *)
(* parallel_next).                                                           *)
THEOREM ItemsComeInOrder == Spec => []InOrder
<1>1. Init => IInv /\ Order  BY InitIsSound, InitLined
<1>2. IInv /\ Order /\ [Next]_vars => IInv' /\ Order'  BY StepKeeps, StepOrder
<1>3. IInv /\ Order => InOrder
  BY DEF Order, Sorted, Before, InOrder, Increasing
<1> QED  BY <1>1, <1>2, <1>3, PTL DEF Spec

(* What the consumer gets is the source: all of it, once, and in its order,  *)
(* whatever is between them.                                                 *)
THEOREM WhatComesIsTheSource == Spec => []Faithful
<1>1. Faithful <=> InOrder /\ NothingLost  BY DEF Faithful
<1> QED  BY <1>1, ItemsComeInOrder, NoItemIsLost, PTL
=============================================================================
