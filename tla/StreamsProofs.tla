----------------------------- MODULE StreamsProofs -----------------------------
(***************************************************************************)
(* The books of a pipeline are exact and a close reaches everything, for   *)
(* every pipeline, width and limit (Streams).                              *)
(*                                                                         *)
(* The invariants are operators of the kinds k, the streams s, the stack   *)
(* of calls c and the stage f that answered last, so that the lemmas speak *)
(* of a state or of the one after it alike.                                *)
(***************************************************************************)
EXTENDS Streams, FiniteSetTheorems, SequenceTheorems, WellFoundedInduction, TLAPS

AnyKind == SourceKinds \cup StageKinds \cup {"none"}

(* A source at the bottom, stages over it without a gap, lists or files      *)
(* inside.                                                                   *)
KindsFit(k) ==
    /\ k[1] \in SourceKinds
    /\ \A i \in Main : /\ i # 1 => k[i] \in StageKinds \cup {"none"}
                       /\ k[i] # "none" => \A j \in 1..i : k[j] # "none"
                       /\ k[Inner(i)] \in {"none", "list", "lines"}

(* What a stream may hold, by its kind; a closed one holds nothing.          *)
HoldsAsOne(q, x) ==
    /\ x.file => q \in WithFile
    /\ x.cursor => q = "database"
    /\ x.jobs # <<>> => q = "parallel"
    /\ x.busy \in {"fill", "refill"} => q = "parallel"
    /\ x.closed => ~x.file /\ ~x.cursor /\ x.jobs = <<>>
    /\ Len(x.jobs) <= Width

HoldsByKind(k, s) == \A i \in Ids : HoldsAsOne(k[i], s[i])

(* Only flat_map and on_error have an inner stream, and one that is not      *)
(* attached holds no file.                                                   *)
Nested(k, s) ==
    /\ \A i \in Ids : s[i].inner # 0 =>
          /\ i \in Main /\ k[i] \in {"flat_map", "on_error"}
          /\ s[i].inner = Inner(i) /\ k[Inner(i)] # "none"
    /\ \A i \in Main : s[i].inner = 0 => ~s[Inner(i)].file

ClosedBelow(s) ==
    \A i \in Main : s[i].closed =>
        /\ \A j \in 1..i : s[j].closed
        /\ s[i].inner # 0 => s[Inner(i)].closed

Fit(k, s) == KindsFit(k) /\ HoldsByKind(k, s) /\ Nested(k, s) /\ ClosedBelow(s)

(* A call on the stack that has asked for an item and perhaps got it.        *)
Pending(c, f, m) == m < Len(c) \/ f # 0

Reply(c, f, m) == IF m < Len(c) THEN c[m + 1] ELSE f

(* The stack goes down the pipeline, and ends in an inner stream that is     *)
(* attached, if in any.                                                      *)
Descends(k, s, c) ==
    /\ \A m, n \in 1..Len(c) : m < n =>
          c[n] < c[m] \/ (c[n] \notin Main /\ c[n] <= Inner(c[m]))
    /\ \A m \in 1..Len(c) : /\ k[c[m]] # "none"
                            /\ c[m] \notin Main => s[c[m] - Stages].inner # 0

(* Who waits for an answer is open, has asked its inner stream when there is *)
(* one, has a place for the child it asks for, and more to take.             *)
WaitsFor(q, x, i, j) ==
    /\ i \in Main /\ ~x.closed /\ q \in StageKinds
    /\ x.inner # 0 => j = Inner(i)
    /\ x.busy \in {"fill", "refill"} => Len(x.jobs) < Width
    /\ q = "take" => x.left > 0

Waits(k, s, c, f) ==
    \A m \in 1..Len(c) : Pending(c, f, m) =>
        WaitsFor(k[c[m]], s[c[m]], c[m], Reply(c, f, m))

CallsFit(k, s, c, f) == Descends(k, s, c) /\ Waits(k, s, c, f)

-----------------------------------------------------------------------------
(* Lemmas on the ids of streams.                                             *)

(* The arithmetic of ids: the inner streams are beyond the main ones.        *)
LEMMA IdFacts ==
    /\ Stages \in Nat /\ Stages >= 1 /\ Items \in Nat /\ Items >= 2 /\ Width \in Nat /\ Width >= 1
    /\ \A i \in Ids : i \in Int /\ i >= 1 /\ i <= 2 * Stages
    /\ \A i \in Main : i \in Ids /\ Inner(i) \in Ids /\ Inner(i) \notin Main /\ Inner(i) - Stages = i
    /\ \A i \in Ids \ Main : i - Stages \in Main /\ Inner(i - Stages) = i
    /\ \A i \in Main : \A j \in 1..i : j \in Main
BY PipelineAssumption DEF Ids, Main, Inner

LEMMA SourceIsId == 1 \in Main /\ 1 \in Ids
BY PipelineAssumption DEF Ids, Main

(* A set of natural numbers has a least one, and one below a bound a        *)
(* greatest.                                                                 *)
LEMMA Least ==
    ASSUME NEW T, T \subseteq Nat, T # {}
    PROVE  \E x \in T : \A y \in T : x <= y
<1> DEFINE R == OpToRel(<, Nat)
<1>1. IsWellFoundedOn(R, Nat)  BY NatLessThanWellFounded
<1>2. \A x, y \in Nat : <<y, x>> \in R <=> y < x  BY DEF OpToRel
<1> HIDE DEF R
<1>3. PICK x \in T : \A y \in T : ~(<<y, x>> \in R)  BY <1>1, WFMin
<1>4. \A y \in T : ~(y < x)  BY <1>2, <1>3
<1>5. \A y \in T : y \in Nat /\ x \in Nat  OBVIOUS
<1> QED  BY <1>4, <1>5

LEMMA Greatest ==
    ASSUME NEW n \in Nat, NEW T, T \subseteq 1..n, T # {}
    PROVE  Max(T) \in T /\ \A y \in T : Max(T) >= y
<1> DEFINE U == {m \in 0..n : \A y \in T : y <= m}
<1>1. U \subseteq Nat  OBVIOUS
<1>2. n \in U  OBVIOUS
<1>3. PICK u \in U : \A m \in U : u <= m  BY <1>1, <1>2, Least
<1>4. u \in T
  <2>1. SUFFICES ASSUME u \notin T PROVE FALSE  OBVIOUS
  <2>2. PICK z \in T : TRUE  OBVIOUS
  <2>3. z \in 1..n /\ z <= u  BY <1>3
  <2>4. u \in Nat /\ u - 1 \in 0..n  BY <2>3, <1>3
  <2>5. \A y \in T : y <= u - 1 BY <1>3, <2>1, <2>4
  <2>6. u - 1 \in U  BY <2>4, <2>5
  <2> QED  BY <1>3, <2>6, <2>4
<1>5. \E x \in T : \A y \in T : x >= y  BY <1>3, <1>4
<1> QED  BY <1>5 DEF Max

-----------------------------------------------------------------------------
(* Lemmas on what streams hold.                                              *)

Kids(s, S) == {c \in S \X (1..Width) : c[2] <= Len(s[c[1]].jobs)}

Hold(s, a, S) ==
    Kids(s, S) \cup {<<i, 0>> : i \in {j \in S : s[j].file \/ (j = 1 /\ a)}}

Places == Ids \X (0..Width)

(* What is in the two sets, place by place.                                  *)
LEMMA HoldPlaces ==
    ASSUME NEW s \in [Ids -> Stream], NEW a \in BOOLEAN, NEW S \in SUBSET Ids
    PROVE  /\ Hold(s, a, S) \subseteq Places /\ Kids(s, S) \subseteq Places
           /\ \A p \in Ids, q \in 0..Width :
                /\ <<p, q>> \in Kids(s, S) <=> p \in S /\ q >= 1 /\ q <= Len(s[p].jobs)
                /\ <<p, q>> \in Hold(s, a, S) <=>
                      p \in S /\ \/ q >= 1 /\ q <= Len(s[p].jobs)
                                 \/ q = 0 /\ (s[p].file \/ (p = 1 /\ a))
<1> DEFINE Own == {<<i, 0>> : i \in {j \in S : s[j].file \/ (j = 1 /\ a)}}
<1>1. \A i \in S : s[i] \in Stream /\ Len(s[i].jobs) \in Nat  BY DEF Stream
<1>2. Kids(s, S) \subseteq Places  BY IdFacts DEF Kids, Places
<1>3. Own \subseteq Places  BY IdFacts DEF Places
<1>4. Hold(s, a, S) = Kids(s, S) \cup Own  BY DEF Hold
<1>5. ASSUME NEW p \in Ids, NEW q \in 0..Width
      PROVE  /\ <<p, q>> \in Kids(s, S) <=> p \in S /\ q >= 1 /\ q <= Len(s[p].jobs)
             /\ <<p, q>> \in Own <=> p \in S /\ q = 0 /\ (s[p].file \/ (p = 1 /\ a))
  <2>1. <<p, q>> \in Kids(s, S) <=> p \in S /\ q >= 1 /\ q <= Len(s[p].jobs)
    BY <1>1, IdFacts DEF Kids
  <2>2. <<p, q>> \in Own <=> p \in S /\ q = 0 /\ (s[p].file \/ (p = 1 /\ a))
    OBVIOUS
  <2> QED  BY <2>1, <2>2
<1> HIDE DEF Own
<1> QED  BY <1>2, <1>3, <1>4, <1>5

(* The same for all streams.                                                 *)
LEMMA AllPlaces ==
    ASSUME NEW s \in [Ids -> Stream], NEW a \in BOOLEAN
    PROVE  /\ Hold(s, a, Ids) \subseteq Places /\ Kids(s, Ids) \subseteq Places
           /\ \A p \in Ids, q \in 0..Width :
                /\ <<p, q>> \in Kids(s, Ids) <=> q >= 1 /\ q <= Len(s[p].jobs)
                /\ <<p, q>> \in Hold(s, a, Ids) <=>
                      \/ q >= 1 /\ q <= Len(s[p].jobs)
                      \/ q = 0 /\ (s[p].file \/ (p = 1 /\ a))
<1>1. Ids \in SUBSET Ids  OBVIOUS
<1> QED  BY <1>1, HoldPlaces

LEMMA SubsetSelf == Ids \in SUBSET Ids
OBVIOUS

LEMMA PlaceIsPair == \A x \in Places : \E p \in Ids, q \in 0..Width : x = <<p, q>>
BY DEF Places

(* They are finite, and their sizes are natural numbers.                     *)
LEMMA HoldFinite ==
    ASSUME NEW s \in [Ids -> Stream], NEW a \in BOOLEAN, NEW S \in SUBSET Ids
    PROVE  /\ IsFiniteSet(Hold(s, a, S)) /\ IsFiniteSet(Kids(s, S))
           /\ Cardinality(Hold(s, a, S)) \in Nat /\ Cardinality(Kids(s, S)) \in Nat
<1>1. IsFiniteSet(Ids)  BY FS_Interval, IdFacts DEF Ids
<1>2. IsFiniteSet(0..Width)  BY FS_Interval, IdFacts
<1>3. IsFiniteSet(Places)  BY <1>1, <1>2, FS_Product DEF Places
<1>4. Hold(s, a, S) \in SUBSET Places /\ Kids(s, S) \in SUBSET Places  BY HoldPlaces
<1>5. IsFiniteSet(Hold(s, a, S)) /\ IsFiniteSet(Kids(s, S))  BY <1>3, <1>4, FS_Subset
<1> QED  BY <1>5, FS_CardinalityType

(* Streams that hold the same places have the same books.                    *)
LEMMA SameHold ==
    ASSUME NEW s \in [Ids -> Stream], NEW t \in [Ids -> Stream], NEW a \in BOOLEAN,
           \A i \in Ids : Len(t[i].jobs) = Len(s[i].jobs) /\ t[i].file = s[i].file
    PROVE  Hold(t, a, Ids) = Hold(s, a, Ids) /\ Kids(t, Ids) = Kids(s, Ids)
<1>1. \A p \in Ids, q \in 0..Width :
         /\ <<p, q>> \in Kids(t, Ids) <=> <<p, q>> \in Kids(s, Ids)
         /\ <<p, q>> \in Hold(t, a, Ids) <=> <<p, q>> \in Hold(s, a, Ids)
  <2> TAKE p \in Ids, q \in 0..Width
  <2>1. /\ <<p, q>> \in Kids(s, Ids) <=> q >= 1 /\ q <= Len(s[p].jobs)
        /\ <<p, q>> \in Hold(s, a, Ids) <=>
              \/ q >= 1 /\ q <= Len(s[p].jobs)
              \/ q = 0 /\ (s[p].file \/ (p = 1 /\ a))
    BY AllPlaces
  <2>2. /\ <<p, q>> \in Kids(t, Ids) <=> q >= 1 /\ q <= Len(t[p].jobs)
        /\ <<p, q>> \in Hold(t, a, Ids) <=>
              \/ q >= 1 /\ q <= Len(t[p].jobs)
              \/ q = 0 /\ (t[p].file \/ (p = 1 /\ a))
    BY AllPlaces
  <2> QED  BY <2>1, <2>2
<1>2. Hold(t, a, Ids) \subseteq Places /\ Kids(t, Ids) \subseteq Places
      /\ Hold(s, a, Ids) \subseteq Places /\ Kids(s, Ids) \subseteq Places
  BY AllPlaces
<1>4. Kids(t, Ids) = Kids(s, Ids)
  <2>1. \A x \in Places : x \in Kids(t, Ids) <=> x \in Kids(s, Ids)  BY <1>1, PlaceIsPair
  <2> QED  BY <1>2, <2>1
<1>5. Hold(t, a, Ids) = Hold(s, a, Ids)
  <2>1. \A x \in Places : x \in Hold(t, a, Ids) <=> x \in Hold(s, a, Ids)  BY <1>1, PlaceIsPair
  <2> QED  BY <1>2, <2>1
<1> QED  BY <1>4, <1>5

(* Shutting the streams in S gives back what they hold, and nothing else.    *)
ShutIn(s, S) == [i \in Ids |-> IF i \in S THEN Emptied(s[i]) ELSE s[i]]

LEMMA EmptiedType ==
    ASSUME NEW x \in Stream
    PROVE  /\ Emptied(x) \in Stream
           /\ Emptied(x).closed /\ ~Emptied(x).file /\ ~Emptied(x).cursor /\ Emptied(x).jobs = <<>>
           /\ Emptied(x).inner = x.inner /\ Emptied(x).busy = x.busy /\ Emptied(x).left = x.left
           /\ Emptied(x).started = x.started /\ Emptied(x).buffer = x.buffer
           /\ Emptied(x).tag = x.tag /\ Emptied(x).held = x.held /\ Emptied(x).done = x.done
<1>1. <<>> \in Seq(Job)  OBVIOUS
<1>2. Emptied(x) = [x EXCEPT !.closed = TRUE, !.file = FALSE, !.cursor = FALSE, !.jobs = <<>>]
  BY DEF Emptied
<1>3. Emptied(x) \in Stream  BY <1>1, <1>2 DEF Stream
<1> QED  BY <1>2, <1>3 DEF Stream

LEMMA ShutType ==
    ASSUME NEW s \in [Ids -> Stream], NEW S \in SUBSET Ids
    PROVE  /\ ShutIn(s, S) \in [Ids -> Stream]
           /\ \A i \in S : ShutIn(s, S)[i] = Emptied(s[i])
           /\ \A i \in Ids \ S : ShutIn(s, S)[i] = s[i]
BY EmptiedType DEF ShutIn

LEMMA ShutCounts ==
    ASSUME NEW s \in [Ids -> Stream], NEW S \in SUBSET Ids, NEW a \in BOOLEAN, NEW b \in BOOLEAN,
           b <=> a /\ 1 \notin S
    PROVE  /\ Cardinality(Hold(ShutIn(s, S), b, Ids))
                = Cardinality(Hold(s, a, Ids)) - Cardinality(Hold(s, a, S))
           /\ Cardinality(Kids(ShutIn(s, S), Ids))
                = Cardinality(Kids(s, Ids)) - Cardinality(Kids(s, S))
<1> DEFINE t == ShutIn(s, S)
<1>1. /\ t \in [Ids -> Stream]
      /\ \A i \in S : ~t[i].file /\ Len(t[i].jobs) = 0
      /\ \A i \in Ids \ S : t[i] = s[i]
  BY ShutType, EmptiedType
<1> HIDE DEF t
<1>2. \A p \in Ids, q \in 0..Width :
         /\ <<p, q>> \in Kids(t, Ids) <=> <<p, q>> \in Kids(s, Ids) /\ p \notin S
         /\ <<p, q>> \in Hold(t, b, Ids) <=> <<p, q>> \in Hold(s, a, Ids) /\ p \notin S
  <2> TAKE p \in Ids, q \in 0..Width
  <2>1. s[p].jobs \in Seq(Job) /\ Len(s[p].jobs) \in Nat  BY DEF Stream
  <2>2. CASE p \in S
    BY <1>1, <2>2, HoldPlaces
  <2>3. CASE p \notin S
    BY <1>1, <2>3, HoldPlaces
  <2> QED  BY <2>2, <2>3
<1>3. \A p \in Ids, q \in 0..Width :
         /\ <<p, q>> \in Kids(s, S) <=> <<p, q>> \in Kids(s, Ids) /\ p \in S
         /\ <<p, q>> \in Hold(s, a, S) <=> <<p, q>> \in Hold(s, a, Ids) /\ p \in S
  BY HoldPlaces
<1>4. /\ Hold(t, b, Ids) \subseteq Places /\ Kids(t, Ids) \subseteq Places
      /\ Hold(s, a, Ids) \subseteq Places /\ Kids(s, Ids) \subseteq Places
      /\ Hold(s, a, S) \subseteq Places /\ Kids(s, S) \subseteq Places
  BY <1>1, HoldPlaces
<1>5. /\ Hold(t, b, Ids) = Hold(s, a, Ids) \ Hold(s, a, S)
      /\ Hold(s, a, Ids) \cap Hold(s, a, S) = Hold(s, a, S)
  BY <1>2, <1>3, <1>4, PlaceIsPair
<1>6. /\ Kids(t, Ids) = Kids(s, Ids) \ Kids(s, S)
      /\ Kids(s, Ids) \cap Kids(s, S) = Kids(s, S)
  BY <1>2, <1>3, <1>4, PlaceIsPair
<1>7. IsFiniteSet(Hold(s, a, Ids)) /\ IsFiniteSet(Kids(s, Ids))
  BY HoldFinite, SubsetSelf
<1>8. Cardinality(Hold(t, b, Ids)) = Cardinality(Hold(s, a, Ids)) - Cardinality(Hold(s, a, S))
  <2> DEFINE H == Hold(s, a, Ids)
             P == Hold(s, a, S)
  <2>1. IsFiniteSet(H) /\ Hold(t, b, Ids) = H \ P /\ H \cap P = P  BY <1>5, <1>7
  <2> HIDE DEF H, P
  <2>2. Cardinality(H \ P) = Cardinality(H) - Cardinality(H \cap P)  BY <2>1, FS_Difference
  <2> QED  BY <2>1, <2>2 DEF H, P
<1>9. Cardinality(Kids(t, Ids)) = Cardinality(Kids(s, Ids)) - Cardinality(Kids(s, S))
  BY <1>6, <1>7, FS_Difference
<1> QED  BY <1>8, <1>9 DEF t

(* A part holds no more than the whole.                                      *)
LEMMA PartHolds ==
    ASSUME NEW s \in [Ids -> Stream], NEW a \in BOOLEAN, NEW S \in SUBSET Ids
    PROVE  /\ Cardinality(Hold(s, a, S)) <= Cardinality(Hold(s, a, Ids))
           /\ Cardinality(Kids(s, S)) <= Cardinality(Kids(s, Ids))
<1>1. Hold(s, a, S) \in SUBSET Hold(s, a, Ids) /\ Kids(s, S) \in SUBSET Kids(s, Ids)
  BY DEF Hold, Kids
<1>2. IsFiniteSet(Hold(s, a, Ids)) /\ IsFiniteSet(Kids(s, Ids))  BY HoldFinite
<1> QED  BY <1>1, <1>2, FS_Subset

(* A file opened, and a watch armed.                                         *)
LEMMA OpenCounts ==
    ASSUME NEW s \in [Ids -> Stream], NEW t \in [Ids -> Stream],
           NEW a \in BOOLEAN, NEW b \in BOOLEAN, NEW i \in Ids,
           \A j \in Ids : Len(t[j].jobs) = Len(s[j].jobs),
           \A j \in Ids : j # i => (t[j].file \/ (j = 1 /\ b) <=> s[j].file \/ (j = 1 /\ a)),
           ~(s[i].file \/ (i = 1 /\ a)), t[i].file \/ (i = 1 /\ b)
    PROVE  /\ Cardinality(Hold(t, b, Ids)) = Cardinality(Hold(s, a, Ids)) + 1
           /\ Kids(t, Ids) = Kids(s, Ids)
<1>1. \A p \in Ids, q \in 0..Width :
         /\ <<p, q>> \in Kids(t, Ids) <=> <<p, q>> \in Kids(s, Ids)
         /\ <<p, q>> \in Hold(t, b, Ids) <=> <<p, q>> \in Hold(s, a, Ids) \/ (p = i /\ q = 0)
  <2> TAKE p \in Ids, q \in 0..Width
  <2>1. /\ <<p, q>> \in Kids(s, Ids) <=> q >= 1 /\ q <= Len(s[p].jobs)
        /\ <<p, q>> \in Hold(s, a, Ids) <=>
              \/ q >= 1 /\ q <= Len(s[p].jobs)
              \/ q = 0 /\ (s[p].file \/ (p = 1 /\ a))
    BY AllPlaces
  <2>2. /\ <<p, q>> \in Kids(t, Ids) <=> q >= 1 /\ q <= Len(t[p].jobs)
        /\ <<p, q>> \in Hold(t, b, Ids) <=>
              \/ q >= 1 /\ q <= Len(t[p].jobs)
              \/ q = 0 /\ (t[p].file \/ (p = 1 /\ b))
    BY AllPlaces
  <2> QED  BY <2>1, <2>2
<1>2. /\ Hold(t, b, Ids) \subseteq Places /\ Kids(t, Ids) \subseteq Places
      /\ Hold(s, a, Ids) \subseteq Places /\ Kids(s, Ids) \subseteq Places
  BY AllPlaces
<1>3. 0 \in 0..Width  BY IdFacts
<1>4. <<i, 0>> \in Places  BY <1>3 DEF Places
<1>5. <<i, 0>> \notin Hold(s, a, Ids)  BY <1>3, AllPlaces
<1>6. Hold(t, b, Ids) = Hold(s, a, Ids) \cup {<<i, 0>>}  BY <1>1, <1>2, PlaceIsPair, <1>4
<1>7. Kids(t, Ids) = Kids(s, Ids)
  <2>1. \A x \in Places : x \in Kids(t, Ids) <=> x \in Kids(s, Ids)  BY <1>1, PlaceIsPair
  <2> QED  BY <1>2, <2>1
<1>8. IsFiniteSet(Hold(s, a, Ids))  BY HoldFinite, SubsetSelf
<1> QED  BY <1>5, <1>6, <1>7, <1>8, FS_AddElement

(* A child more, or one less.                                                *)
LEMMA ChildCounts ==
    ASSUME NEW s \in [Ids -> Stream], NEW t \in [Ids -> Stream], NEW a \in BOOLEAN, NEW i \in Ids,
           \A j \in Ids : t[j].file = s[j].file /\ (j # i => Len(t[j].jobs) = Len(s[j].jobs)),
           Len(t[i].jobs) = Len(s[i].jobs) + 1, Len(t[i].jobs) <= Width
    PROVE  /\ Cardinality(Hold(t, a, Ids)) = Cardinality(Hold(s, a, Ids)) + 1
           /\ Cardinality(Kids(t, Ids)) = Cardinality(Kids(s, Ids)) + 1
<1> DEFINE n == Len(t[i].jobs)
<1>1. Len(s[i].jobs) \in Nat /\ n \in 1..Width /\ n \in 0..Width /\ n \in Nat  BY IdFacts DEF Stream
<1>2. n = Len(s[i].jobs) + 1  OBVIOUS
<1>3. n = Len(t[i].jobs)  OBVIOUS
<1> HIDE DEF n
<1>4. \A p \in Ids, q \in 0..Width :
         /\ <<p, q>> \in Kids(t, Ids) <=> <<p, q>> \in Kids(s, Ids) \/ (p = i /\ q = n)
         /\ <<p, q>> \in Hold(t, a, Ids) <=> <<p, q>> \in Hold(s, a, Ids) \/ (p = i /\ q = n)
  <2> TAKE p \in Ids, q \in 0..Width
  <2>1. CASE p # i  BY <2>1, AllPlaces
  <2>2. CASE p = i
    <3>1. q >= 1 /\ q <= n <=> (q >= 1 /\ q <= Len(s[i].jobs)) \/ q = n  BY <1>1, <1>2
    <3>2. <<p, q>> \in Kids(t, Ids) <=> q >= 1 /\ q <= n  BY <2>2, <1>3, AllPlaces
    <3>3. <<p, q>> \in Kids(s, Ids) <=> q >= 1 /\ q <= Len(s[i].jobs)  BY <2>2, AllPlaces
    <3>4. <<p, q>> \in Hold(t, a, Ids) <=>
             (q >= 1 /\ q <= n) \/ (q = 0 /\ (s[i].file \/ (i = 1 /\ a)))
      BY <2>2, <1>3, AllPlaces
    <3>5. <<p, q>> \in Hold(s, a, Ids) <=>
             (q >= 1 /\ q <= Len(s[i].jobs)) \/ (q = 0 /\ (s[i].file \/ (i = 1 /\ a)))
      BY <2>2, AllPlaces
    <3> QED  BY <2>2, <3>1, <3>2, <3>3, <3>4, <3>5
  <2> QED  BY <2>1, <2>2
<1>5. /\ Hold(t, a, Ids) \subseteq Places /\ Kids(t, Ids) \subseteq Places
      /\ Hold(s, a, Ids) \subseteq Places /\ Kids(s, Ids) \subseteq Places
  BY AllPlaces
<1>7. <<i, n>> \in Places  BY <1>1 DEF Places
<1>8. <<i, n>> \notin Hold(s, a, Ids) /\ <<i, n>> \notin Kids(s, Ids)
  <2>1. ~(n <= Len(s[i].jobs)) /\ n # 0  BY <1>1, <1>2
  <2> QED  BY <1>1, <2>1, AllPlaces
<1>9. Hold(t, a, Ids) = Hold(s, a, Ids) \cup {<<i, n>>}  BY <1>4, <1>5, PlaceIsPair, <1>7
<1>10. Kids(t, Ids) = Kids(s, Ids) \cup {<<i, n>>}  BY <1>4, <1>5, PlaceIsPair, <1>7
<1>11. IsFiniteSet(Hold(s, a, Ids)) /\ IsFiniteSet(Kids(s, Ids))  BY HoldFinite, SubsetSelf
<1> QED  BY <1>8, <1>9, <1>10, <1>11, FS_AddElement
-----------------------------------------------------------------------------
(* Lemmas on closing.                                                        *)

ClosingIn(s, i) ==
    LET down == IF i \in Main THEN {j \in 1..i : \A m \in j..i : ~s[m].closed}
                ELSE {j \in {i} : ~s[j].closed}
    IN down \cup {Inner(j) : j \in {m \in down : s[m].inner # 0 /\ ~s[Inner(m)].closed}}

(* The stages a step of i leaves alone.                                      *)
Above(i) == {m \in Main : i \notin Main \/ m > i}

(* All from i down is in S or was closed before.                             *)
Reached(s, S, i) ==
    i \in Main =>
        \A j \in 1..i :
            /\ j \in S \/ s[j].closed
            /\ s[j].inner # 0 => Inner(j) \in S \/ s[Inner(j)].closed

LEMMA AboveIsOther ==
    ASSUME NEW i \in Ids
    PROVE  \A m \in Above(i) : m \in Ids /\ m \in Main /\ m # i
<1>1. ASSUME NEW m \in Above(i)
      PROVE  m \in Ids /\ m \in Main /\ m # i
  <2>1. m \in Main /\ (i \notin Main \/ m > i)  BY DEF Above
  <2>2. m \in Ids /\ m \in Int /\ i \in Int  BY <2>1, IdFacts
  <2> QED  BY <2>1, <2>2
<1> QED  BY <1>1

(* What a close reaches is closed below it, and nothing above it is touched. *)
LEMMA ClosingReaches ==
    ASSUME NEW k \in [Ids -> AnyKind], NEW s \in [Ids -> Stream], Fit(k, s),
           NEW i \in Ids, k[i] # "none", NEW S, S = ClosingIn(s, i)
    PROVE  /\ S \subseteq Ids /\ \A j \in S : k[j] # "none"
           /\ i \in S \/ s[i].closed
           /\ Reached(s, S, i)
           /\ \A m \in Above(i) : m \notin S
           /\ i \notin Main => S \subseteq {i}
<1> DEFINE down == IF i \in Main THEN {j \in 1..i : \A m \in j..i : ~s[m].closed}
                   ELSE {j \in {i} : ~s[j].closed}
           inside == {Inner(j) : j \in {m \in down : s[m].inner # 0 /\ ~s[Inner(m)].closed}}
<1>1. S = down \cup inside  BY DEF ClosingIn
<1>2. down \subseteq Ids /\ \A j \in down : k[j] # "none"
  <2>1. CASE i \in Main
    <3>1. down \subseteq 1..i  BY <2>1
    <3>2. 1..i \subseteq Main  BY <2>1, IdFacts
    <3>3. \A j \in 1..i : k[j] # "none"  BY <2>1 DEF Fit, KindsFit
    <3> QED  BY <3>1, <3>2, <3>3, IdFacts
  <2>2. CASE i \notin Main
    BY <2>2
  <2> QED  BY <2>1, <2>2
<1>3. \A j \in down : s[j].inner # 0 => j \in Main /\ Inner(j) \in Ids /\ k[Inner(j)] # "none"
  BY <1>2, IdFacts DEF Fit, Nested
<1>4. inside \subseteq Ids /\ \A j \in inside : k[j] # "none" /\ j \notin Main
  BY <1>3, IdFacts
<1>5. i \in down \/ s[i].closed
  <2>1. CASE i \in Main
    <3>1. i \in 1..i /\ \A m \in i..i : m = i  BY IdFacts
    <3> QED  BY <2>1, <3>1
  <2>2. CASE i \notin Main
    BY <2>2
  <2> QED  BY <2>1, <2>2
<1>6. ASSUME i \in Main, NEW j \in 1..i
      PROVE  j \in down \/ (s[j].closed /\ (s[j].inner # 0 => s[Inner(j)].closed))
  <2>1. SUFFICES ASSUME j \notin down PROVE s[j].closed /\ (s[j].inner # 0 => s[Inner(j)].closed)
    OBVIOUS
  <2>2. PICK m \in j..i : s[m].closed  BY <1>6, <2>1
  <2>3. m \in Main /\ j \in 1..m  BY <1>6, <2>2, IdFacts DEF Main
  <2>4. s[j].closed /\ j \in Main  BY <2>2, <2>3, IdFacts DEF Fit, ClosedBelow
  <2> QED  BY <2>4 DEF Fit, ClosedBelow
<1>7. ASSUME NEW j \in down, s[j].inner # 0
      PROVE  Inner(j) \in inside \/ s[Inner(j)].closed
  BY <1>7
<1>8. ASSUME NEW m \in Above(i)
      PROVE  m \notin down
  <2>1. m \in Main /\ (i \notin Main \/ m > i)  BY DEF Above
  <2>2. CASE i \in Main  BY <2>1, <2>2, IdFacts
  <2>3. CASE i \notin Main  BY <2>1, <2>3
  <2> QED  BY <2>2, <2>3
<1>9. \A m \in Above(i) : m \in Main  BY DEF Above
<1>10. i \notin Main => down \subseteq {i} /\ inside = {}
  BY <1>3
<1> HIDE DEF down, inside
<1>11. S \subseteq Ids /\ \A j \in S : k[j] # "none"  BY <1>1, <1>2, <1>4
<1>12. Reached(s, S, i)  BY <1>1, <1>6, <1>7 DEF Reached
<1>13. \A m \in Above(i) : m \notin S  BY <1>1, <1>4, <1>8, <1>9
<1>14. i \in S \/ s[i].closed  BY <1>1, <1>5
<1>15. i \notin Main => S \subseteq {i}  BY <1>1, <1>10
<1> QED  BY <1>11, <1>12, <1>13, <1>14, <1>15

(* A close leaves streams that fit.                                          *)
LEMMA ShutFits ==
    ASSUME NEW k \in [Ids -> AnyKind], NEW s \in [Ids -> Stream], Fit(k, s),
           NEW i \in Ids, k[i] # "none"
    PROVE  LET t == ShutIn(s, ClosingIn(s, i)) IN
           /\ t \in [Ids -> Stream] /\ Fit(k, t)
           /\ \A m \in Above(i) : t[m] = s[m]
           /\ t[i].closed
           /\ i \in Main => \A j \in 1..i : t[j].closed /\ (t[j].inner # 0 => t[Inner(j)].closed)
           /\ \A j \in Ids : /\ t[j].inner = s[j].inner /\ t[j].left = s[j].left /\ t[j].tag = s[j].tag
                             /\ t[j].held = s[j].held /\ t[j].buffer = s[j].buffer
                             /\ s[j].closed => t[j].closed
                             /\ t[j] = s[j] \/ t[j] = Emptied(s[j])
<1> DEFINE S == ClosingIn(s, i)
           t == ShutIn(s, S)
<1>1. /\ S \subseteq Ids /\ \A j \in S : k[j] # "none"
      /\ i \in S \/ s[i].closed
      /\ Reached(s, S, i)
      /\ \A m \in Above(i) : m \notin S
      /\ i \notin Main => S \subseteq {i}
  <2>1. S = ClosingIn(s, i)  OBVIOUS
  <2> HIDE DEF S
  <2> QED  BY <2>1, ClosingReaches
<1> HIDE DEF S
<1>2. S \in SUBSET Ids  BY <1>1
<1>3. /\ t \in [Ids -> Stream]
      /\ \A j \in S : t[j] = Emptied(s[j])
      /\ \A j \in Ids \ S : t[j] = s[j]
  BY <1>2, ShutType
<1> HIDE DEF t
<1>4. \A j \in Ids : s[j] \in Stream  OBVIOUS
<1>5. ASSUME NEW j \in Ids
      PROVE  /\ t[j].inner = s[j].inner /\ t[j].left = s[j].left /\ t[j].tag = s[j].tag
             /\ t[j].held = s[j].held /\ t[j].buffer = s[j].buffer
             /\ t[j].busy = s[j].busy
             /\ t[j] = s[j] \/ t[j] = Emptied(s[j])
             /\ t[j].closed <=> s[j].closed \/ j \in S
             /\ j \in S => ~t[j].file /\ ~t[j].cursor /\ t[j].jobs = <<>>
             /\ j \notin S => t[j] = s[j]
  <2>1. CASE j \in S
    <3>1. t[j] = Emptied(s[j])  BY <1>3, <2>1
    <3> QED  BY <1>4, <2>1, <3>1, EmptiedType
  <2>2. CASE j \notin S
    BY <1>3, <2>2
  <2> QED  BY <2>1, <2>2
<1>6. KindsFit(k) /\ HoldsByKind(k, s) /\ Nested(k, s) /\ ClosedBelow(s)  BY DEF Fit
<1>7. HoldsByKind(k, t)
  <2>1. SUFFICES ASSUME NEW j \in Ids PROVE HoldsAsOne(k[j], t[j])
    BY DEF HoldsByKind
  <2>2. HoldsAsOne(k[j], s[j])  BY <1>6 DEF HoldsByKind
  <2>3. CASE j \in S
    <3>1. Len(<<>>) = 0 /\ 0 <= Width  BY IdFacts
    <3> QED  BY <1>5, <2>2, <2>3, <3>1 DEF HoldsAsOne
  <2>4. CASE j \notin S  BY <1>5, <2>2, <2>4
  <2> QED  BY <2>3, <2>4
<1>8. Nested(k, t)
  <2>1. \A j \in Main : j \in Ids /\ Inner(j) \in Ids  BY IdFacts
  <2>2. \A j \in Ids : t[j].file => s[j].file  BY <1>5
  <2> QED  BY <1>5, <1>6, <2>1, <2>2 DEF Nested
<1>9. ASSUME i \in Main, NEW j \in 1..i
      PROVE  t[j].closed /\ (t[j].inner # 0 => t[Inner(j)].closed)
  <2>1. j \in Ids /\ Inner(j) \in Ids  BY <1>9, IdFacts
  <2>2. i \in Main /\ j \in 1..i /\ Reached(s, S, i)  BY <1>1, <1>9
  <2>3. (j \in S \/ s[j].closed) /\ (s[j].inner # 0 => Inner(j) \in S \/ s[Inner(j)].closed)
    BY <2>2, Zenon DEF Reached
  <2> QED  BY <1>5, <2>1, <2>3
<1>10. ClosedBelow(t)
  <2>1. SUFFICES ASSUME NEW j \in Main, t[j].closed
                 PROVE  /\ \A m \in 1..j : t[m].closed
                        /\ t[j].inner # 0 => t[Inner(j)].closed
    BY DEF ClosedBelow
  <2>2. j \in Ids /\ Inner(j) \in Ids /\ \A m \in 1..j : m \in Ids  BY IdFacts
  <2>3. CASE s[j].closed
    <3>1. (\A m \in 1..j : s[m].closed) /\ (s[j].inner # 0 => s[Inner(j)].closed)
      BY <1>6, <2>3 DEF ClosedBelow
    <3> QED  BY <1>5, <2>2, <3>1
  <2>4. CASE ~s[j].closed
    <3>1. j \in S  BY <1>5, <2>1, <2>2, <2>4
    <3>2. i \in Main /\ j \in 1..i
      <4>1. j \notin Above(i)  BY <1>1, <3>1
      <4>2. i \in Main /\ ~(j > i)  BY <4>1 DEF Above
      <4> QED  BY <4>2, IdFacts
    <3>3. \A m \in 1..j : m \in 1..i  BY <3>2, IdFacts
    <3> QED  BY <1>9, <3>2, <3>3
  <2> QED  BY <2>3, <2>4
<1>11. \A m \in Above(i) : t[m] = s[m]
  <2>1. \A m \in Above(i) : m \in Ids  BY IdFacts DEF Above
  <2> QED  BY <1>1, <1>5, <2>1
<1>12. t[i].closed  BY <1>1, <1>5
<1>13. Fit(k, t)  BY <1>6, <1>7, <1>8, <1>10 DEF Fit
<1> QED  BY <1>3, <1>5, <1>9, <1>11, <1>12, <1>13 DEF t, S
(* A stream that changes without closing or opening another.                 *)
LEMMA TouchFits ==
    ASSUME NEW k \in [Ids -> AnyKind], NEW s \in [Ids -> Stream], NEW t \in [Ids -> Stream],
           Fit(k, s), NEW i \in Ids, \A j \in Ids : j # i => t[j] = s[j],
           t[i].closed = s[i].closed, t[i].inner = s[i].inner, HoldsAsOne(k[i], t[i]),
           t[i].file => s[i].file \/ i \in Main \/ s[i - Stages].inner # 0
    PROVE  Fit(k, t)
<1>1. KindsFit(k) /\ HoldsByKind(k, s) /\ Nested(k, s) /\ ClosedBelow(s)  BY DEF Fit
<1>2. HoldsByKind(k, t)  BY <1>1 DEF HoldsByKind
<1>3. \A j \in Ids : t[j].closed = s[j].closed /\ t[j].inner = s[j].inner  OBVIOUS
<1>4. Nested(k, t)
  <2>1. ASSUME NEW j \in Main, t[j].inner = 0
        PROVE  ~t[Inner(j)].file
    <3>1. j \in Ids /\ Inner(j) \in Ids /\ Inner(j) \notin Main /\ Inner(j) - Stages = j  BY IdFacts
    <3>2. s[j].inner = 0 /\ ~s[Inner(j)].file  BY <1>1, <1>3, <2>1, <3>1 DEF Nested
    <3> QED  BY <3>1, <3>2
  <2> QED  BY <1>1, <1>3, <2>1 DEF Nested
<1>5. ClosedBelow(t)
  <2>1. \A j \in Main : j \in Ids /\ Inner(j) \in Ids /\ \A m \in 1..j : m \in Ids  BY IdFacts
  <2> QED  BY <1>1, <1>3, <2>1 DEF ClosedBelow
<1> QED  BY <1>1, <1>2, <1>4, <1>5 DEF Fit

(* A fresh list or file becomes the inner stream.                            *)
LEMMA AttachFits ==
    ASSUME NEW k \in [Ids -> AnyKind], NEW l \in [Ids -> AnyKind],
           NEW s \in [Ids -> Stream], NEW t \in [Ids -> Stream],
           Fit(k, s), NEW i \in Main, k[i] \in {"flat_map", "on_error"}, ~s[i].closed,
           \A j \in Ids : j # Inner(i) => l[j] = k[j], l[Inner(i)] \in {"list", "lines"},
           \A j \in Ids : j # i /\ j # Inner(i) => t[j] = s[j],
           t[i] = [s[i] EXCEPT !.inner = Inner(i)],
           ~t[Inner(i)].closed, ~t[Inner(i)].file, ~t[Inner(i)].cursor, t[Inner(i)].inner = 0,
           t[Inner(i)].jobs = <<>>, t[Inner(i)].busy = "no"
    PROVE  Fit(l, t)
<1> DEFINE n == Inner(i)
<1>1. KindsFit(k) /\ HoldsByKind(k, s) /\ Nested(k, s) /\ ClosedBelow(s)  BY DEF Fit
<1>2. i \in Ids /\ n \in Ids /\ n # i /\ n \notin Main /\ n # 0 /\ 1 \in Main /\ n # 1
  BY IdFacts DEF Main, Inner
<1>3. s[i] \in Stream /\ t[n] \in Stream  BY <1>2
<1>4. /\ t[i].inner = n /\ t[i].closed = s[i].closed /\ t[i].file = s[i].file
      /\ t[i].cursor = s[i].cursor /\ t[i].jobs = s[i].jobs /\ t[i].busy = s[i].busy
  BY <1>3 DEF Stream
<1> HIDE DEF n
<1>5. n = Inner(i) /\ l[n] \in {"list", "lines"} /\ l[n] # "none"  BY DEF n
<1>6. KindsFit(l)
  <2>1. \A j \in Main : j \in Ids /\ j # n /\ l[j] = k[j] /\ Inner(j) \in Ids
    BY <1>2, <1>5, IdFacts
  <2>2. \A j \in Main : l[Inner(j)] \in {"none", "list", "lines"}
    BY <1>1, <1>5, <2>1 DEF KindsFit
  <2>3. \A j \in Main : \A m \in 1..j : m \in Main  BY IdFacts
  <2>4. ASSUME NEW j \in Main, l[j] # "none", NEW m \in 1..j
        PROVE  l[m] # "none"
    BY <1>1, <2>1, <2>3, <2>4 DEF KindsFit
  <2>5. l[1] \in SourceKinds /\ \A j \in Main : j # 1 => l[j] \in StageKinds \cup {"none"}
    BY <1>1, <1>2, <2>1 DEF KindsFit
  <2> QED  BY <2>2, <2>4, <2>5 DEF KindsFit
<1>7. HoldsByKind(l, t)
  <2>1. SUFFICES ASSUME NEW j \in Ids PROVE HoldsAsOne(l[j], t[j])
    BY DEF HoldsByKind
  <2>2. HoldsAsOne(k[j], s[j])  BY <1>1 DEF HoldsByKind
  <2>3. CASE j = n
    <3>1. Len(<<>>) = 0 /\ 0 <= Width  BY IdFacts
    <3> QED  BY <1>5, <2>3, <3>1 DEF HoldsAsOne
  <2>4. CASE j = i  BY <1>2, <1>4, <1>5, <2>2, <2>4 DEF HoldsAsOne
  <2>5. CASE j # n /\ j # i  BY <1>5, <2>2, <2>5
  <2> QED  BY <2>3, <2>4, <2>5
<1>8. Nested(l, t)
  <2>1. ASSUME NEW j \in Ids, t[j].inner # 0
        PROVE  /\ j \in Main /\ l[j] \in {"flat_map", "on_error"}
               /\ t[j].inner = Inner(j) /\ l[Inner(j)] # "none"
    <3>1. CASE j = i  BY <1>2, <1>4, <1>5, <3>1
    <3>2. CASE j = n  BY <1>5, <2>1, <3>2
    <3>3. CASE j # i /\ j # n
      <4>1. t[j] = s[j] /\ l[j] = k[j]  BY <1>5, <3>3
      <4>2. j \in Main /\ k[j] \in {"flat_map", "on_error"} /\ s[j].inner = Inner(j) /\ k[Inner(j)] # "none"
        BY <1>1, <2>1, <4>1 DEF Nested
      <4>3. Inner(j) \in Ids  BY <4>2, IdFacts
      <4>4. Inner(j) # n => l[Inner(j)] = k[Inner(j)]  BY <1>5, <4>3
      <4> QED  BY <1>5, <4>1, <4>2, <4>4
    <3> QED  BY <3>1, <3>2, <3>3
  <2>2. ASSUME NEW j \in Main, t[j].inner = 0
        PROVE  ~t[Inner(j)].file
    <3>1. j \in Ids /\ Inner(j) \in Ids /\ Inner(j) \notin Main /\ Inner(j) - Stages = j  BY IdFacts
    <3>2. j # i /\ j # n  BY <1>2, <1>4, <2>2, <3>1
    <3>3. Inner(j) # n /\ Inner(j) # i  BY <1>2, <1>5, <3>1, <3>2, IdFacts
    <3>4. t[j] = s[j] /\ t[Inner(j)] = s[Inner(j)]  BY <1>5, <3>1, <3>2, <3>3
    <3> QED  BY <1>1, <2>2, <3>4 DEF Nested
  <2> QED  BY <2>1, <2>2 DEF Nested
<1>9. ClosedBelow(t)
  <2>1. SUFFICES ASSUME NEW j \in Main, t[j].closed
                 PROVE  /\ \A m \in 1..j : t[m].closed
                        /\ t[j].inner # 0 => t[Inner(j)].closed
    BY DEF ClosedBelow
  <2>2. j \in Ids /\ Inner(j) \in Ids /\ \A m \in 1..j : m \in Ids /\ m \in Main /\ m # n
    BY <1>2, IdFacts
  <2>3. j # i /\ j # n  BY <1>2, <1>4, <2>1
  <2>4. s[j].closed  BY <1>5, <2>1, <2>2, <2>3
  <2>5. (\A m \in 1..j : s[m].closed) /\ (s[j].inner # 0 => s[Inner(j)].closed)
    BY <1>1, <2>4 DEF ClosedBelow
  <2>6. i \notin 1..j  BY <2>5
  <2>7. \A m \in 1..j : t[m] = s[m]  BY <1>5, <2>2, <2>6
  <2>8. Inner(j) # n /\ Inner(j) # i  BY <1>2, <1>5, <2>3, IdFacts
  <2>9. t[Inner(j)] = s[Inner(j)] /\ t[j] = s[j]  BY <1>5, <2>2, <2>3, <2>8
  <2> QED  BY <2>5, <2>7, <2>9
<1> QED  BY <1>6, <1>7, <1>8, <1>9 DEF Fit

(* An inner stream that is closed is left behind.                            *)
LEMMA DetachFits ==
    ASSUME NEW k \in [Ids -> AnyKind], NEW s \in [Ids -> Stream], NEW t \in [Ids -> Stream],
           Fit(k, s), NEW i \in Main, s[Inner(i)].closed,
           \A j \in Ids : j # i => t[j] = s[j], t[i] = [s[i] EXCEPT !.inner = 0]
    PROVE  Fit(k, t)
<1>1. KindsFit(k) /\ HoldsByKind(k, s) /\ Nested(k, s) /\ ClosedBelow(s)  BY DEF Fit
<1>2. i \in Ids /\ Inner(i) \in Ids /\ Inner(i) # i  BY IdFacts DEF Main, Inner
<1>3. s[i] \in Stream  BY <1>2
<1>4. /\ t[i].inner = 0 /\ t[i].closed = s[i].closed /\ t[i].file = s[i].file
      /\ t[i].cursor = s[i].cursor /\ t[i].jobs = s[i].jobs /\ t[i].busy = s[i].busy
  BY <1>3 DEF Stream
<1>5. \A j \in Ids : t[j].closed = s[j].closed /\ t[j].file = s[j].file  BY <1>4
<1>6. HoldsByKind(k, t)
  <2>1. SUFFICES ASSUME NEW j \in Ids PROVE HoldsAsOne(k[j], t[j])
    BY DEF HoldsByKind
  <2>2. HoldsAsOne(k[j], s[j])  BY <1>1 DEF HoldsByKind
  <2>3. CASE j = i  BY <1>4, <2>2, <2>3 DEF HoldsAsOne
  <2>4. CASE j # i  BY <2>2, <2>4
  <2> QED  BY <2>3, <2>4
<1>7. Nested(k, t)
  <2>1. ~s[Inner(i)].file
    <3>1. HoldsAsOne(k[Inner(i)], s[Inner(i)])  BY <1>1, <1>2 DEF HoldsByKind
    <3> QED  BY <3>1 DEF HoldsAsOne
  <2>2. \A j \in Main : j \in Ids /\ Inner(j) \in Ids  BY IdFacts
  <2>3. \A j \in Ids : j # i => t[j].inner = s[j].inner  OBVIOUS
  <2> QED  BY <1>1, <1>4, <1>5, <2>1, <2>2, <2>3 DEF Nested
<1>8. ClosedBelow(t)
  <2>1. \A j \in Main : j \in Ids /\ Inner(j) \in Ids /\ \A m \in 1..j : m \in Ids  BY IdFacts
  <2>2. \A j \in Ids : t[j].inner # 0 => s[j].inner # 0  BY <1>4
  <2> QED  BY <1>1, <1>5, <2>1, <2>2 DEF ClosedBelow
<1> QED  BY <1>1, <1>6, <1>7, <1>8 DEF Fit

(* A stage over closed ones closes itself.                                   *)
LEMMA SelfCloseFits ==
    ASSUME NEW k \in [Ids -> AnyKind], NEW s \in [Ids -> Stream], NEW t \in [Ids -> Stream],
           Fit(k, s), NEW i \in Main, k[i] \in Barriers, \A j \in 1..i : j = i \/ s[j].closed,
           \A j \in Ids : j # i => t[j] = s[j],
           t[i].closed, t[i].inner = s[i].inner, HoldsAsOne(k[i], t[i])
    PROVE  Fit(k, t)
<1>1. KindsFit(k) /\ HoldsByKind(k, s) /\ Nested(k, s) /\ ClosedBelow(s)  BY DEF Fit
<1>2. i \in Ids /\ Inner(i) \in Ids /\ Inner(i) # i  BY IdFacts DEF Main, Inner
<1>3. s[i].inner = 0  BY <1>1, <1>2 DEF Nested, Barriers
<1>4. HoldsByKind(k, t)  BY <1>1 DEF HoldsByKind
<1>5. \A j \in Ids : t[j].inner = s[j].inner /\ (s[j].closed => t[j].closed)  OBVIOUS
<1>6. ~t[i].file  BY DEF HoldsAsOne
<1>7. Nested(k, t)
  <2>1. \A j \in Main : j \in Ids /\ Inner(j) \in Ids  BY IdFacts
  <2>2. \A j \in Ids : t[j].file => s[j].file  BY <1>6
  <2> QED  BY <1>1, <1>5, <2>1, <2>2 DEF Nested
<1>8. ClosedBelow(t)
  <2>1. SUFFICES ASSUME NEW j \in Main, t[j].closed
                 PROVE  /\ \A m \in 1..j : t[m].closed
                        /\ t[j].inner # 0 => t[Inner(j)].closed
    BY DEF ClosedBelow
  <2>2. j \in Ids /\ Inner(j) \in Ids /\ \A m \in 1..j : m \in Ids  BY IdFacts
  <2>3. CASE j = i  BY <1>3, <1>5, <2>2, <2>3, <2>1
  <2>4. CASE j # i
    <3>1. s[j].closed  BY <2>1, <2>2, <2>4
    <3>2. (\A m \in 1..j : s[m].closed) /\ (s[j].inner # 0 => s[Inner(j)].closed)
      BY <1>1, <3>1 DEF ClosedBelow
    <3> QED  BY <1>5, <2>2, <3>2
  <2> QED  BY <2>3, <2>4
<1> QED  BY <1>1, <1>4, <1>7, <1>8 DEF Fit
-----------------------------------------------------------------------------
(* Lemmas on calls and answers.                                              *)

LEMMA FrontFacts ==
    ASSUME NEW c \in Seq(Ids), c # <<>>
    PROVE  /\ Len(c) \in Nat /\ Len(c) >= 1 /\ c[Len(c)] \in Ids
           /\ Front(c) \in Seq(Ids) /\ Len(Front(c)) = Len(c) - 1
           /\ \A m \in 1..Len(c) - 1 : Front(c)[m] = c[m]
<1>1. Len(c) \in Nat /\ Len(c) >= 1 /\ c[Len(c)] \in Ids  OBVIOUS
<1>2. Front(c) = SubSeq(c, 1, Len(c) - 1)  BY DEF Front
<1> DEFINE n == Len(c) - 1
<1>3. n \in Int /\ 1 \in Int /\ \A m \in 1..n : c[m] \in Ids  BY <1>1
<1>4. n >= 0 /\ n - 1 + 1 = n /\ \A m \in 1..n : 1 + m - 1 = m  BY <1>1
<1> HIDE DEF n
<1>5. /\ SubSeq(c, 1, n) \in Seq(Ids)
      /\ Len(SubSeq(c, 1, n)) = IF 1 <= n THEN n - 1 + 1 ELSE 0
      /\ \A m \in 1..n - 1 + 1 : SubSeq(c, 1, n)[m] = c[1 + m - 1]
  BY <1>3, SubSeqProperties
<1>6. \A m \in 1..n : SubSeq(c, 1, n)[m] = c[m]  BY <1>3, <1>4, <1>5
<1>7. Len(SubSeq(c, 1, n)) = n  BY <1>3, <1>4, <1>5
<1> QED  BY <1>1, <1>2, <1>5, <1>6, <1>7 DEF n

LEMMA AppendFacts ==
    ASSUME NEW c \in Seq(Ids), NEW j \in Ids
    PROVE  /\ Append(c, j) \in Seq(Ids) /\ Len(Append(c, j)) = Len(c) + 1 /\ Len(c) \in Nat
           /\ Append(c, j)[Len(c) + 1] = j
           /\ \A m \in 1..Len(c) : Append(c, j)[m] = c[m]
OBVIOUS

(* The call on top, and those below it.                                      *)
LEMMA TopCall ==
    ASSUME NEW k \in [Ids -> AnyKind], NEW s \in [Ids -> Stream], NEW c \in Seq(Ids), c # <<>>,
           NEW f \in Ids \cup {0}, CallsFit(k, s, c, f), NEW i, i = c[Len(c)]
    PROVE  /\ i \in Ids /\ k[i] # "none"
           /\ i \notin Main => s[i - Stages].inner # 0
           /\ f # 0 => WaitsFor(k[i], s[i], i, f)
           /\ \A m \in 1..Len(c) - 1 : /\ c[m] \in Ids /\ c[m] \in Main /\ c[m] \in Above(i)
                                       /\ WaitsFor(k[c[m]], s[c[m]], c[m], c[m + 1])
<1>1. Len(c) \in Nat /\ Len(c) >= 1 /\ i \in Ids  BY FrontFacts
<1>2. Descends(k, s, c) /\ Waits(k, s, c, f)  BY DEF CallsFit
<1>3. k[i] # "none" /\ (i \notin Main => s[i - Stages].inner # 0)  BY <1>1, <1>2 DEF Descends
<1>4. f # 0 => WaitsFor(k[i], s[i], i, f)  BY <1>1, <1>2 DEF Waits, Pending, Reply
<1>5. ASSUME NEW m \in 1..Len(c) - 1
      PROVE  /\ c[m] \in Ids /\ c[m] \in Main /\ c[m] \in Above(i)
             /\ WaitsFor(k[c[m]], s[c[m]], c[m], c[m + 1])
  <2>1. m \in 1..Len(c) /\ m < Len(c) /\ Len(c) \in 1..Len(c)  BY <1>1
  <2>2. WaitsFor(k[c[m]], s[c[m]], c[m], c[m + 1])  BY <1>2, <2>1 DEF Waits, Pending, Reply
  <2>3. c[m] \in Main  BY <2>2 DEF WaitsFor
  <2>4. i < c[m] \/ i \notin Main  BY <1>2, <2>1 DEF Descends
  <2>5. c[m] \in Ids  BY <2>1
  <2>6. c[m] \in Above(i)  BY <1>1, <2>3, <2>4, <2>5, IdFacts DEF Above
  <2> QED  BY <2>2, <2>3, <2>5, <2>6
<1> QED  BY <1>1, <1>3, <1>4, <1>5

(* The stage on top answers.                                                 *)
LEMMA GiveFits ==
    ASSUME NEW k \in [Ids -> AnyKind], NEW s \in [Ids -> Stream], NEW t \in [Ids -> Stream],
           NEW c \in Seq(Ids), c # <<>>, NEW f \in Ids \cup {0}, CallsFit(k, s, c, f),
           NEW i, i = c[Len(c)], \A m \in Above(i) : t[m] = s[m]
    PROVE  CallsFit(k, t, Front(c), i) /\ Front(c) \in Seq(Ids)
<1> DEFINE d == Front(c)
<1>1. /\ Len(c) \in Nat /\ Len(c) >= 1 /\ i \in Ids /\ d \in Seq(Ids) /\ Len(d) = Len(c) - 1
      /\ \A m \in 1..Len(c) - 1 : d[m] = c[m]
  BY FrontFacts
<1> HIDE DEF d
<1>2. ASSUME NEW m \in 1..Len(d)
      PROVE  /\ d[m] = c[m] /\ d[m] \in Main /\ t[d[m]] = s[d[m]] /\ k[d[m]] # "none"
             /\ WaitsFor(k[d[m]], t[d[m]], d[m], Reply(d, i, m))
  <2>1. m \in 1..Len(c) - 1 /\ m \in 1..Len(c)  BY <1>1
  <2>2. c[m] \in Main /\ c[m] \in Above(i) /\ WaitsFor(k[c[m]], s[c[m]], c[m], c[m + 1])
    BY <2>1, TopCall
  <2>3. k[c[m]] # "none"  BY <2>1 DEF CallsFit, Descends
  <2>4. Reply(d, i, m) = c[m + 1]
    <3>1. CASE m < Len(d)
      <4>1. m + 1 \in 1..Len(c) - 1  BY <1>1, <2>1, <3>1
      <4> QED  BY <1>1, <3>1, <4>1 DEF Reply
    <3>2. CASE ~(m < Len(d))
      <4>1. m + 1 = Len(c)  BY <1>1, <2>1, <3>2
      <4> QED  BY <3>2, <4>1 DEF Reply
    <3> QED  BY <3>1, <3>2
  <2>5. d[m] = c[m]  BY <1>1, <2>1
  <2> QED  BY <2>2, <2>3, <2>4, <2>5
<1>3. Waits(k, t, d, i)  BY <1>2 DEF Waits
<1>4. ASSUME NEW m \in 1..Len(d), NEW n \in 1..Len(d), m < n
      PROVE  d[n] < d[m] \/ (d[n] \notin Main /\ d[n] <= Inner(d[m]))
  <2>1. m \in 1..Len(c) /\ n \in 1..Len(c)  BY <1>1
  <2>2. c[n] < c[m] \/ (c[n] \notin Main /\ c[n] <= Inner(c[m]))
    BY <1>4, <2>1 DEF CallsFit, Descends
  <2> QED  BY <1>2, <2>2
<1>5. Descends(k, t, d)  BY <1>2, <1>4 DEF Descends
<1> QED  BY <1>1, <1>3, <1>5 DEF CallsFit, d

(* The stage on top asks j: its source, or its inner stream.                 *)
LEMMA AskFits ==
    ASSUME NEW k \in [Ids -> AnyKind], NEW l \in [Ids -> AnyKind],
           NEW s \in [Ids -> Stream], NEW t \in [Ids -> Stream],
           NEW c \in Seq(Ids), c # <<>>, NEW f \in Ids \cup {0}, CallsFit(k, s, c, f),
           NEW i \in Main, i = c[Len(c)], \A m \in Above(i) : t[m] = s[m],
           \A m \in Main : l[m] = k[m],
           NEW j \in Ids, j = i - 1 \/ (j = Inner(i) /\ t[i].inner # 0), j = i - 1 => j \in Main,
           l[j] # "none", WaitsFor(l[i], t[i], i, j)
    PROVE  CallsFit(l, t, Append(c, j), 0) /\ Append(c, j) \in Seq(Ids)
<1> DEFINE d == Append(c, j)
<1>1. /\ Len(c) \in Nat /\ Len(c) >= 1 /\ d \in Seq(Ids) /\ Len(d) = Len(c) + 1
      /\ \A m \in 1..Len(c) : d[m] = c[m]
      /\ d[Len(c) + 1] = j
  BY FrontFacts, AppendFacts
<1> HIDE DEF d
<1>2. ASSUME NEW m \in 1..Len(c)
      PROVE  /\ d[m] = c[m] /\ d[m] \in Main /\ (m # Len(c) => d[m] > i) /\ l[d[m]] # "none"
             /\ WaitsFor(l[d[m]], t[d[m]], d[m], d[m + 1])
  <2>1. d[m] = c[m]  BY <1>1
  <2>2. CASE m = Len(c)
    <3>1. d[m] = i /\ d[m + 1] = j  BY <1>1, <2>1, <2>2
    <3>2. l[i] # "none"  BY DEF WaitsFor, StageKinds
    <3> QED  BY <2>1, <2>2, <3>1, <3>2
  <2>3. CASE m # Len(c)
    <3>1. m \in 1..Len(c) - 1 /\ m + 1 \in 1..Len(c)  BY <1>1, <2>3
    <3>2. c[m] \in Main /\ c[m] \in Above(i) /\ WaitsFor(k[c[m]], s[c[m]], c[m], c[m + 1])
      BY <3>1, TopCall
    <3>3. d[m + 1] = c[m + 1]  BY <1>1, <3>1
    <3>4. t[c[m]] = s[c[m]] /\ l[c[m]] = k[c[m]]  BY <3>2
    <3>5. l[c[m]] # "none"  BY <3>2, <3>4 DEF WaitsFor, StageKinds
    <3>6. c[m] > i  BY <3>2 DEF Above
    <3> QED  BY <2>1, <3>2, <3>3, <3>4, <3>5, <3>6
  <2> QED  BY <2>2, <2>3
<1>3. Waits(l, t, d, 0)
  <2>1. SUFFICES ASSUME NEW m \in 1..Len(d), Pending(d, 0, m)
                 PROVE  WaitsFor(l[d[m]], t[d[m]], d[m], Reply(d, 0, m))
    BY DEF Waits
  <2>2. m \in 1..Len(c) /\ m < Len(d)  BY <1>1, <2>1 DEF Pending
  <2> QED  BY <1>2, <2>2 DEF Reply
<1>4. i \in Int /\ j \in Int /\ Stages \in Nat /\ Inner(i) = i + Stages  BY IdFacts DEF Inner
<1>5. ASSUME NEW m \in 1..Len(d), NEW n \in 1..Len(d), m < n
      PROVE  d[n] < d[m] \/ (d[n] \notin Main /\ d[n] <= Inner(d[m]))
  <2>1. m \in 1..Len(c)  BY <1>1, <1>5
  <2>2. CASE n \in 1..Len(c)
    <3>1. c[n] < c[m] \/ (c[n] \notin Main /\ c[n] <= Inner(c[m]))
      BY <1>5, <2>1, <2>2 DEF CallsFit, Descends
    <3> QED  BY <1>2, <2>1, <2>2, <3>1
  <2>3. CASE n \notin 1..Len(c)
    <3>1. n = Len(c) + 1 /\ d[n] = j  BY <1>1, <2>3
    <3>2. d[m] \in Main /\ d[m] \in Int /\ d[m] >= i /\ Inner(d[m]) = d[m] + Stages
      <4>1. d[m] \in Main  BY <1>2, <2>1
      <4>2. d[m] \in Int /\ Inner(d[m]) = d[m] + Stages  BY <4>1, IdFacts DEF Inner
      <4>3. CASE m = Len(c)
        <5>1. d[m] = i  BY <1>2, <2>1, <4>3
        <5> QED  BY <1>4, <4>1, <4>2, <5>1
      <4>4. CASE m # Len(c)
        <5>1. d[m] > i  BY <1>2, <2>1, <4>4
        <5> QED  BY <1>4, <4>1, <4>2, <5>1
      <4> QED  BY <4>3, <4>4
    <3>3. CASE j = i - 1  BY <1>4, <3>1, <3>2, <3>3
    <3>4. CASE j = Inner(i)
      <4>1. j \notin Main  BY <3>4, IdFacts
      <4> QED  BY <1>4, <3>1, <3>2, <3>4, <4>1
    <3> QED  BY <3>3, <3>4
  <2> QED  BY <2>2, <2>3
<1>6. ASSUME NEW m \in 1..Len(d)
      PROVE  l[d[m]] # "none" /\ (d[m] \notin Main => t[d[m] - Stages].inner # 0)
  <2>1. CASE m \in 1..Len(c)  BY <1>2, <2>1
  <2>2. CASE m \notin 1..Len(c)
    <3>1. d[m] = j  BY <1>1, <2>2
    <3>2. j \notin Main => j - Stages = i /\ t[i].inner # 0  BY IdFacts
    <3> QED  BY <3>1, <3>2
  <2> QED  BY <2>1, <2>2
<1>7. Descends(l, t, d)  BY <1>5, <1>6 DEF Descends
<1> QED  BY <1>1, <1>3, <1>7 DEF CallsFit, d

(* An inner stream is asked in the place of the stage on top.                *)
LEMMA ReplaceFits ==
    ASSUME NEW k \in [Ids -> AnyKind], NEW l \in [Ids -> AnyKind],
           NEW s \in [Ids -> Stream], NEW t \in [Ids -> Stream],
           NEW c \in Seq(Ids), c # <<>>, NEW f \in Ids \cup {0}, CallsFit(k, s, c, f),
           NEW i \in Main, i = c[Len(c)], \A m \in Above(i) : t[m] = s[m],
           \A m \in Main : l[m] = k[m], t[i].inner # 0, l[Inner(i)] # "none"
    PROVE  /\ CallsFit(l, t, Append(Front(c), Inner(i)), 0)
           /\ Append(Front(c), Inner(i)) \in Seq(Ids)
<1> DEFINE b == Front(c)
           j == Inner(i)
           d == Append(b, j)
<1>1. /\ Len(c) \in Nat /\ Len(c) >= 1 /\ b \in Seq(Ids) /\ Len(b) = Len(c) - 1
      /\ \A m \in 1..Len(c) - 1 : b[m] = c[m]
  BY FrontFacts
<1>2. i \in Int /\ j \in Ids /\ j \notin Main /\ j - Stages = i /\ j = i + Stages  BY IdFacts DEF Inner
<1> HIDE DEF b, j
<1>3. /\ d \in Seq(Ids) /\ Len(d) = Len(c)
      /\ \A m \in 1..Len(c) - 1 : d[m] = c[m]
      /\ d[Len(c)] = j
  <2>1. d \in Seq(Ids) /\ Len(d) = Len(b) + 1 /\ d[Len(b) + 1] = j /\ \A m \in 1..Len(b) : d[m] = b[m]
    BY <1>1, <1>2, AppendFacts
  <2> HIDE DEF d
  <2> QED  BY <1>1, <2>1
<1> HIDE DEF d
<1>4. ASSUME NEW m \in 1..Len(c) - 1
      PROVE  /\ d[m] = c[m] /\ d[m] \in Main /\ d[m] > i /\ l[d[m]] # "none"
             /\ WaitsFor(l[d[m]], t[d[m]], d[m], d[m + 1])
  <2>1. c[m] \in Main /\ c[m] \in Above(i) /\ WaitsFor(k[c[m]], s[c[m]], c[m], c[m + 1])
    BY TopCall
  <2>2. t[c[m]] = s[c[m]] /\ l[c[m]] = k[c[m]] /\ c[m] > i  BY <2>1 DEF Above
  <2>3. l[c[m]] # "none"  BY <2>1, <2>2 DEF WaitsFor, StageKinds
  <2>4. s[c[m]].inner = 0 \/ d[m + 1] = c[m + 1]
    <3>1. CASE m + 1 \in 1..Len(c) - 1  BY <1>3, <3>1
    <3>2. CASE m + 1 \notin 1..Len(c) - 1
      <4>1. m + 1 = Len(c) /\ c[m + 1] = i  BY <1>1, <3>2
      <4>2. i # Inner(c[m])  BY <2>1, IdFacts
      <4> QED  BY <2>1, <4>1, <4>2 DEF WaitsFor
    <3> QED  BY <3>1, <3>2
  <2>5. WaitsFor(l[c[m]], t[c[m]], c[m], d[m + 1])  BY <2>1, <2>2, <2>4 DEF WaitsFor
  <2> QED  BY <1>3, <2>1, <2>2, <2>3, <2>5
<1>5. Waits(l, t, d, 0)
  <2>1. SUFFICES ASSUME NEW m \in 1..Len(d), Pending(d, 0, m)
                 PROVE  WaitsFor(l[d[m]], t[d[m]], d[m], Reply(d, 0, m))
    BY DEF Waits
  <2>2. m \in 1..Len(c) - 1 /\ m < Len(d)  BY <1>1, <1>3, <2>1 DEF Pending
  <2> QED  BY <1>4, <2>2 DEF Reply
<1>6. ASSUME NEW m \in 1..Len(d), NEW n \in 1..Len(d), m < n
      PROVE  d[n] < d[m] \/ (d[n] \notin Main /\ d[n] <= Inner(d[m]))
  <2>1. m \in 1..Len(c) - 1 /\ m \in 1..Len(c) /\ n \in 1..Len(c)  BY <1>1, <1>3, <1>6
  <2>2. CASE n \in 1..Len(c) - 1
    <3>1. c[n] < c[m] \/ (c[n] \notin Main /\ c[n] <= Inner(c[m]))
      BY <1>6, <2>1 DEF CallsFit, Descends
    <3> QED  BY <1>3, <2>1, <2>2, <3>1
  <2>3. CASE n \notin 1..Len(c) - 1
    <3>1. d[n] = j  BY <1>1, <1>3, <2>1, <2>3
    <3>2. d[m] \in Main /\ d[m] > i  BY <1>4, <2>1
    <3>3. d[m] \in Int /\ Inner(d[m]) = d[m] + Stages /\ Stages \in Nat  BY <3>2, IdFacts DEF Inner
    <3> QED  BY <1>2, <3>1, <3>2, <3>3
  <2> QED  BY <2>2, <2>3
<1>7. ASSUME NEW m \in 1..Len(d)
      PROVE  l[d[m]] # "none" /\ (d[m] \notin Main => t[d[m] - Stages].inner # 0)
  <2>1. CASE m \in 1..Len(c) - 1  BY <1>4, <2>1
  <2>2. CASE m \notin 1..Len(c) - 1
    <3>1. d[m] = j  BY <1>1, <1>3, <2>2
    <3> QED  BY <1>2, <3>1 DEF j
  <2> QED  BY <2>1, <2>2
<1>8. Descends(l, t, d)  BY <1>6, <1>7 DEF Descends
<1> QED  BY <1>3, <1>5, <1>8 DEF CallsFit, d, b, j

(* The stage on top goes on by itself.                                       *)
LEMMA StayFits ==
    ASSUME NEW k \in [Ids -> AnyKind], NEW s \in [Ids -> Stream], NEW t \in [Ids -> Stream],
           NEW c \in Seq(Ids), c # <<>>, NEW f \in Ids \cup {0}, CallsFit(k, s, c, f),
           NEW i \in Main, i = c[Len(c)], \A m \in Above(i) : t[m] = s[m]
    PROVE  CallsFit(k, t, c, 0)
<1>1. Len(c) \in Nat /\ Len(c) >= 1  BY FrontFacts
<1>2. ASSUME NEW m \in 1..Len(c) - 1
      PROVE  /\ m < Len(c) /\ c[m] \in Main
             /\ WaitsFor(k[c[m]], t[c[m]], c[m], c[m + 1])
  <2>1. c[m] \in Main /\ c[m] \in Above(i) /\ WaitsFor(k[c[m]], s[c[m]], c[m], c[m + 1])
    BY TopCall
  <2> QED  BY <1>1, <2>1
<1>3. Waits(k, t, c, 0)
  <2>1. SUFFICES ASSUME NEW m \in 1..Len(c), Pending(c, 0, m)
                 PROVE  WaitsFor(k[c[m]], t[c[m]], c[m], Reply(c, 0, m))
    BY DEF Waits
  <2>2. m \in 1..Len(c) - 1 /\ m < Len(c)  BY <1>1, <2>1 DEF Pending
  <2> QED  BY <1>2, <2>2 DEF Reply
<1>4. \A m \in 1..Len(c) : c[m] \in Main
  <2> TAKE m \in 1..Len(c)
  <2>1. CASE m \in 1..Len(c) - 1  BY <1>2, <2>1
  <2>2. CASE m \notin 1..Len(c) - 1
    <3>1. m = Len(c)  BY <1>1, <2>2
    <3> QED  BY <3>1
  <2> QED  BY <2>1, <2>2
<1>5. Descends(k, t, c)  BY <1>4 DEF CallsFit, Descends
<1> QED  BY <1>3, <1>5 DEF CallsFit

(* Nothing changes for the calls when streams change in other ways.          *)
LEMMA SameFits ==
    ASSUME NEW k \in [Ids -> AnyKind], NEW s \in [Ids -> Stream], NEW t \in [Ids -> Stream],
           NEW c \in Seq(Ids), NEW f \in Ids \cup {0}, CallsFit(k, s, c, f),
           \A m \in Ids : /\ t[m].closed = s[m].closed /\ t[m].inner = s[m].inner
                          /\ t[m].busy = s[m].busy /\ Len(t[m].jobs) = Len(s[m].jobs)
                          /\ t[m].left = s[m].left
    PROVE  CallsFit(k, t, c, f)
<1>1. ASSUME NEW m \in 1..Len(c), Pending(c, f, m)
      PROVE  WaitsFor(k[c[m]], t[c[m]], c[m], Reply(c, f, m))
  <2>1. WaitsFor(k[c[m]], s[c[m]], c[m], Reply(c, f, m))  BY <1>1 DEF CallsFit, Waits
  <2>2. c[m] \in Ids  OBVIOUS
  <2> QED  BY <2>1, <2>2 DEF WaitsFor
<1>2. \A m \in 1..Len(c) : c[m] \in Ids /\ (c[m] \notin Main => c[m] - Stages \in Ids)
  <2> TAKE m \in 1..Len(c)
  <2>1. c[m] \in Ids  OBVIOUS
  <2> QED  BY <2>1, IdFacts
<1>3. Descends(k, t, c)  BY <1>2 DEF CallsFit, Descends
<1> QED  BY <1>1, <1>3 DEF CallsFit, Waits
-----------------------------------------------------------------------------
(* The inductive invariant.                                                  *)

HoldType ==
    /\ kind \in [Ids -> AnyKind] /\ st \in [Ids -> Stream] /\ WatchType
    /\ files \in Nat /\ procs \in Nat /\ leaked \in Nat
    /\ temporary \in {"none", "open", "gone"}

WatchOpen ==
    /\ armed => kind[1] = "watch" /\ step \in {"waiting", "woken", "stale"}
    /\ kind[1] = "watch" /\ st[1].closed => step = "closed"

Sums ==
    /\ files = Cardinality(Hold(st, armed, Ids)) + leaked + (IF temporary = "none" THEN 0 ELSE 1)
    /\ procs = Cardinality(Kids(st, Ids))

(* The streams fit together, and the books say what they hold.               *)
Holding ==
    /\ HoldType /\ Fit(kind, st) /\ WatchOpen /\ Sums
    /\ files <= MaxFiles /\ procs <= MaxProcesses

TalkType == calls \in Seq(Ids) /\ answer \in [from : Ids \cup {0}, item : Item \cup {End}]

Phases ==
    /\ IF answer.from = 0 THEN answer.item = End ELSE kind[answer.from] # "none"
    /\ phase # "pulling" => Len(calls) <= 1 /\ (calls # <<>> => answer.from = 0)
    /\ temporary # "none" => consumer = "save" /\ phase \in {"pulling", "ended"}
    /\ phase = "pulling" /\ consumer = "save" => temporary # "none"
    /\ phase = "released" => \A i \in Ids : kind[i] # "none" => st[i].closed

(* Calls and answers fit the streams and the phase of the consumer.          *)
Talking == TalkType /\ CallsFit(kind, st, calls, answer.from) /\ Phases

RestType ==
    /\ failed \in BOOLEAN /\ cancelled \in BOOLEAN /\ erred \in BOOLEAN
    /\ consumer \in Consumers /\ phase \in {"start", "pulling", "ended", "released"}
    /\ output \in Seq(Item) /\ dropped \subseteq Item /\ target \in {"old", "new"}

IInv == Holding /\ Talking /\ RestType

-----------------------------------------------------------------------------
(* What the steps do to the streams and their books.                         *)

(* The books are kept where nothing is opened or closed.                     *)
LEMMA KeepHolding ==
    ASSUME Holding, UNCHANGED <<kind, st, files, procs, watchVars, leaked, temporary>>
    PROVE  Holding'
<1>1. UNCHANGED <<tree, seen, armed, wake, events, step, changes, missed, reported>>
  BY DEF watchVars
<1>2. HoldType'  BY <1>1 DEF Holding, HoldType, WatchType
<1>3. WatchOpen' /\ Sums'  BY <1>1 DEF Holding, WatchOpen, Sums
<1> QED  BY <1>1, <1>2, <1>3 DEF Holding

LEMMA LessFacts ==
    ASSUME NEW m \in Nat, NEW n \in Nat, n <= m
    PROVE  Less(m, n) = m - n /\ Less(m, n) \in Nat
BY DEF Less

(* Closing keeps the types of a watch.                                       *)
LEMMA WatchClosedType ==
    ASSUME WatchType, NEW b \in BOOLEAN, WatchClosed(b)
    PROVE  /\ WatchType'
           /\ armed' <=> armed /\ ~b
           /\ b => step' = "closed"
           /\ ~b => step' = step
<1>1. CASE b
  <2>1. armed' = FALSE /\ wake' = FALSE /\ step' = "closed" /\ events' = <<>>
        /\ UNCHANGED <<tree, seen, changes, missed, reported>>
    BY <1>1 DEF WatchClosed
  <2>2. events' \in Seq([kind : {"renamed", "removed", "modified", "created"}, path : Paths, old : Paths])
    BY <2>1
  <2> QED  BY <1>1, <2>1, <2>2 DEF WatchType
<1>2. CASE ~b
  <2>1. UNCHANGED <<tree, seen, armed, wake, events, step, changes, missed, reported>>
    BY <1>2 DEF WatchClosed, watchVars
  <2> QED  BY <1>2, <2>1 DEF WatchType
<1> QED  BY <1>1, <1>2
(* What some streams hold is in the books.                                   *)
LEMMA InTheBooks ==
    ASSUME Holding, NEW S \in SUBSET Ids
    PROVE  /\ kind \in [Ids -> AnyKind] /\ st \in [Ids -> Stream] /\ armed \in BOOLEAN
           /\ files \in Nat /\ procs \in Nat /\ leaked \in Nat
           /\ Cardinality(Hold(st, armed, S)) \in Nat /\ Cardinality(Kids(st, S)) \in Nat
           /\ Cardinality(Hold(st, armed, S)) + (IF temporary = "none" THEN 0 ELSE 1) <= files
           /\ Cardinality(Kids(st, S)) <= procs
           /\ HeldBy(S) = Cardinality(Hold(st, armed, S)) /\ Active(S) = Cardinality(Kids(st, S))
<1>1. HoldType /\ Sums  BY DEF Holding
<1>2. /\ kind \in [Ids -> AnyKind] /\ st \in [Ids -> Stream] /\ armed \in BOOLEAN
      /\ files \in Nat /\ procs \in Nat /\ leaked \in Nat
  BY <1>1 DEF HoldType, WatchType
<1>3. /\ Cardinality(Hold(st, armed, S)) <= Cardinality(Hold(st, armed, Ids))
      /\ Cardinality(Kids(st, S)) <= Cardinality(Kids(st, Ids))
      /\ Cardinality(Hold(st, armed, S)) \in Nat /\ Cardinality(Kids(st, S)) \in Nat
      /\ Cardinality(Hold(st, armed, Ids)) \in Nat /\ Cardinality(Kids(st, Ids)) \in Nat
  BY <1>2, PartHolds, HoldFinite, SubsetSelf
<1>4. HeldBy(S) = Cardinality(Hold(st, armed, S)) /\ Active(S) = Cardinality(Kids(st, S))
  BY DEF HeldBy, Held, Active, Children, Hold, Kids
<1>5. /\ Cardinality(Hold(st, armed, S)) + (IF temporary = "none" THEN 0 ELSE 1) <= files
      /\ Cardinality(Kids(st, S)) <= procs
  <2>1. files = Cardinality(Hold(st, armed, Ids)) + leaked + (IF temporary = "none" THEN 0 ELSE 1)
        /\ procs = Cardinality(Kids(st, Ids))
    BY <1>1 DEF Sums
  <2> QED  BY <1>2, <1>3, <2>1
<1> QED  BY <1>2, <1>3, <1>4, <1>5

(* The streams in S are shut, what they held is given back, and perhaps the  *)
(* consumer's file.                                                          *)
LEMMA ShutBooks ==
    ASSUME Holding, NEW S \in SUBSET Ids, NEW e \in {0, 1},
           st' \in [Ids -> Stream], Fit(kind, st'),
           \A j \in Ids : /\ Len(st'[j].jobs) = Len(ShutIn(st, S)[j].jobs)
                          /\ st'[j].file = ShutIn(st, S)[j].file,
           kind[1] = "watch" /\ 1 \notin S /\ st'[1].closed => st[1].closed,
           files' = files - Cardinality(Hold(st, armed, S)) - e,
           procs' = procs - Cardinality(Kids(st, S)),
           (IF temporary = "none" THEN 0 ELSE 1) = e + (IF temporary' = "none" THEN 0 ELSE 1),
           temporary' \in {"none", "open", "gone"},
           WatchClosed(1 \in S /\ kind[1] = "watch"), UNCHANGED <<kind, leaked>>
    PROVE  Holding'
<1>1. HoldType /\ WatchOpen /\ Sums /\ WatchType  BY DEF Holding, HoldType
<1>2. /\ kind \in [Ids -> AnyKind] /\ st \in [Ids -> Stream] /\ armed \in BOOLEAN
      /\ files \in Nat /\ procs \in Nat /\ leaked \in Nat
      /\ Cardinality(Hold(st, armed, S)) \in Nat /\ Cardinality(Kids(st, S)) \in Nat
      /\ Cardinality(Hold(st, armed, S)) + (IF temporary = "none" THEN 0 ELSE 1) <= files
      /\ Cardinality(Kids(st, S)) <= procs
  BY InTheBooks
<1>3. Cardinality(Hold(st, armed, Ids)) \in Nat /\ Cardinality(Kids(st, Ids)) \in Nat
  BY <1>2, HoldFinite, SubsetSelf
<1> DEFINE b == 1 \in S /\ kind[1] = "watch"
<1>6. b \in BOOLEAN  OBVIOUS
<1>7. WatchType' /\ (armed' <=> armed /\ ~b) /\ (b => step' = "closed") /\ (~b => step' = step)
  BY <1>1, <1>6, WatchClosedType
<1>8. (armed' <=> armed /\ 1 \notin S) /\ armed' \in BOOLEAN
  BY <1>1, <1>2, <1>7 DEF WatchOpen, WatchType
<1>9. /\ Cardinality(Hold(ShutIn(st, S), armed', Ids))
           = Cardinality(Hold(st, armed, Ids)) - Cardinality(Hold(st, armed, S))
      /\ Cardinality(Kids(ShutIn(st, S), Ids))
           = Cardinality(Kids(st, Ids)) - Cardinality(Kids(st, S))
  BY <1>2, <1>8, ShutCounts
<1>10. /\ Hold(st', armed', Ids) = Hold(ShutIn(st, S), armed', Ids)
       /\ Kids(st', Ids) = Kids(ShutIn(st, S), Ids)
  <2>1. ShutIn(st, S) \in [Ids -> Stream]  BY <1>2, ShutType
  <2> QED  BY <1>8, <2>1, SameHold
<1>11. e \in Nat /\ e <= (IF temporary = "none" THEN 0 ELSE 1)  OBVIOUS
<1>12. files' \in Nat /\ procs' \in Nat /\ files' <= files /\ procs' <= procs
  BY <1>2, <1>11
<1>13. Sums'
  <2>1. files = Cardinality(Hold(st, armed, Ids)) + leaked + (IF temporary = "none" THEN 0 ELSE 1)
        /\ procs = Cardinality(Kids(st, Ids))
    BY <1>1 DEF Sums
  <2>2. files' = Cardinality(Hold(st', armed', Ids)) + leaked' + (IF temporary' = "none" THEN 0 ELSE 1)
    <3> DEFINE h == Cardinality(Hold(st, armed, Ids))
               p == Cardinality(Hold(st, armed, S))
               n == Cardinality(Hold(st', armed', Ids))
               x == IF temporary = "none" THEN 0 ELSE 1
               y == IF temporary' = "none" THEN 0 ELSE 1
    <3>1. h \in Nat /\ p \in Nat /\ x \in Nat /\ y \in Nat /\ leaked \in Nat /\ leaked' = leaked
      BY <1>2, <1>3
    <3>2. files = h + leaked + x /\ x = e + y /\ files' = files - p - e /\ n = h - p
      BY <1>9, <1>10, <2>1
    <3> HIDE DEF h, p, n, x, y
    <3>3. files' = n + leaked' + y  BY <1>11, <3>1, <3>2
    <3> QED  BY <3>3 DEF n, y
  <2>3. procs' = Cardinality(Kids(st', Ids))  BY <1>9, <1>10, <2>1
  <2> QED  BY <2>2, <2>3 DEF Sums
<1>14. files' <= MaxFiles /\ procs' <= MaxProcesses
  BY <1>2, <1>12, LimitAssumption DEF Holding
<1>15. HoldType'  BY <1>2, <1>7, <1>12 DEF HoldType
<1>16. WatchOpen'
  <2>1. CASE 1 \in S /\ kind[1] = "watch"  BY <1>7, <1>8, <2>1 DEF WatchOpen
  <2>2. CASE ~(1 \in S /\ kind[1] = "watch")
    <3>1. step' = step /\ (armed' => armed)  BY <1>7, <2>2
    <3>2. kind[1] = "watch" /\ st'[1].closed => st[1].closed  BY <2>2
    <3> QED  BY <1>1, <3>1, <3>2 DEF WatchOpen
  <2> QED  BY <2>1, <2>2
<1>17. Fit(kind', st')  OBVIOUS
<1> QED  BY <1>13, <1>14, <1>15, <1>16, <1>17 DEF Holding

(* The names of the actions for what the lemmas speak of.                    *)
LEMMA SameNames ==
    /\ \A i : Closing(i) = ClosingIn(st, i)
    /\ \A S : Shut(S) = ShutIn(st, S)
BY DEF Closing, ClosingIn, Shut, ShutIn

(* A close gives back what was open from the stage down.                     *)
LEMMA CloseHolding ==
    ASSUME Holding, NEW i \in Ids, kind[i] # "none", Close(Closing(i)),
           UNCHANGED <<kind, leaked, temporary>>
    PROVE  /\ Holding'
           /\ \A m \in Above(i) : st'[m] = st[m]
           /\ st'[i].closed
<1> DEFINE S == ClosingIn(st, i)
<1>1. HoldType /\ Fit(kind, st) /\ temporary \in {"none", "open", "gone"}  BY DEF Holding, HoldType
<1>2. kind \in [Ids -> AnyKind] /\ st \in [Ids -> Stream]  BY <1>1 DEF HoldType
<1>3. S = ClosingIn(st, i)  OBVIOUS
<1>4. /\ st' = ShutIn(st, S) /\ files' = Less(files, HeldBy(S)) /\ procs' = Less(procs, Active(S))
      /\ WatchClosed(1 \in S /\ kind[1] = "watch")
  BY SameNames DEF Close
<1> HIDE DEF S
<1>5. S \subseteq Ids /\ (i \in S \/ st[i].closed)  BY <1>1, <1>2, <1>3, ClosingReaches
<1>6. S \in SUBSET Ids  BY <1>5
<1>7. /\ st' \in [Ids -> Stream] /\ Fit(kind, st')
      /\ \A m \in Above(i) : st'[m] = st[m]
      /\ st'[i].closed
  BY <1>1, <1>2, <1>3, <1>4, ShutFits
<1>8. /\ files' = files - Cardinality(Hold(st, armed, S)) - 0
      /\ procs' = procs - Cardinality(Kids(st, S))
  <2>1. /\ files \in Nat /\ procs \in Nat
        /\ Cardinality(Hold(st, armed, S)) \in Nat /\ Cardinality(Kids(st, S)) \in Nat
        /\ Cardinality(Hold(st, armed, S)) + (IF temporary = "none" THEN 0 ELSE 1) <= files
        /\ Cardinality(Kids(st, S)) <= procs
        /\ HeldBy(S) = Cardinality(Hold(st, armed, S)) /\ Active(S) = Cardinality(Kids(st, S))
    BY <1>6, InTheBooks
  <2>2. Cardinality(Hold(st, armed, S)) <= files  BY <2>1
  <2>3. Less(files, HeldBy(S)) = files - Cardinality(Hold(st, armed, S))  BY <2>1, <2>2, LessFacts
  <2>4. Less(procs, Active(S)) = procs - Cardinality(Kids(st, S))  BY <2>1, LessFacts
  <2> QED  BY <1>4, <2>1, <2>3, <2>4
<1>9. kind[1] = "watch" /\ 1 \notin S /\ st'[1].closed => st[1].closed
  <2>1. 1 \in Ids  BY SourceIsId
  <2> QED  BY <1>2, <1>4, <1>6, <2>1, ShutType
<1>10. Holding'
  BY <1>1, <1>4, <1>6, <1>7, <1>8, <1>9, ShutBooks
<1> QED  BY <1>7, <1>10
(* What the invariant says of the counters.                                  *)
LEMMA BookFacts ==
    ASSUME Holding
    PROVE  /\ HoldType /\ Fit(kind, st) /\ WatchOpen /\ Sums /\ WatchType
           /\ kind \in [Ids -> AnyKind] /\ st \in [Ids -> Stream] /\ armed \in BOOLEAN
           /\ files \in Nat /\ procs \in Nat /\ leaked \in Nat
           /\ Cardinality(Hold(st, armed, Ids)) \in Nat /\ Cardinality(Kids(st, Ids)) \in Nat
           /\ files = Cardinality(Hold(st, armed, Ids)) + leaked
                        + (IF temporary = "none" THEN 0 ELSE 1)
           /\ procs = Cardinality(Kids(st, Ids))
           /\ files <= MaxFiles /\ procs <= MaxProcesses
<1>1. HoldType /\ Fit(kind, st) /\ WatchOpen /\ Sums /\ WatchType  BY DEF Holding, HoldType
<1>2. /\ kind \in [Ids -> AnyKind] /\ st \in [Ids -> Stream] /\ armed \in BOOLEAN
      /\ files \in Nat /\ procs \in Nat /\ leaked \in Nat
  BY <1>1 DEF HoldType, WatchType
<1>3. Cardinality(Hold(st, armed, Ids)) \in Nat /\ Cardinality(Kids(st, Ids)) \in Nat
  BY <1>2, HoldFinite, SubsetSelf
<1> QED  BY <1>1, <1>2, <1>3 DEF Holding, Sums

(* A watch that is left alone.                                               *)
LEMMA WatchKept ==
    ASSUME Holding, UNCHANGED watchVars, kind'[1] = kind[1],
           kind[1] = "watch" => st'[1].closed = st[1].closed
    PROVE  WatchType' /\ WatchOpen' /\ armed' = armed
<1>1. UNCHANGED <<tree, seen, armed, wake, events, step, changes, missed, reported>>
  BY DEF watchVars
<1>2. WatchType /\ WatchOpen  BY BookFacts
<1>3. WatchType'  BY <1>1, <1>2 DEF WatchType
<1> QED  BY <1>1, <1>2, <1>3 DEF WatchOpen

(* The books when the changed streams and sums are known.                    *)
LEMMA NewBooks ==
    ASSUME Holding, kind' \in [Ids -> AnyKind], st' \in [Ids -> Stream], Fit(kind', st'),
           WatchType', WatchOpen',
           NEW h \in Int, h = Cardinality(Hold(st', armed', Ids)) - Cardinality(Hold(st, armed, Ids)),
           NEW n \in Int, n = Cardinality(Kids(st', Ids)) - Cardinality(Kids(st, Ids)),
           leaked' \in Nat, files' = files + h + (leaked' - leaked), procs' = procs + n,
           files' \in Nat, procs' \in Nat, files' <= MaxFiles, procs' <= MaxProcesses,
           temporary' = temporary
    PROVE  Holding'
<1> DEFINE a == Cardinality(Hold(st, armed, Ids))
           b == Cardinality(Hold(st', armed', Ids))
           c == Cardinality(Kids(st, Ids))
           d == Cardinality(Kids(st', Ids))
           x == IF temporary = "none" THEN 0 ELSE 1
<1>1. files = a + leaked + x /\ procs = c /\ files \in Nat /\ procs \in Nat
      /\ leaked \in Nat /\ a \in Nat /\ c \in Nat
  BY BookFacts
<1>2. b \in Nat /\ d \in Nat
  <2>1. armed' \in BOOLEAN  BY DEF WatchType
  <2> QED  BY <2>1, HoldFinite, SubsetSelf
<1>3. h = b - a /\ n = d - c  OBVIOUS
<1>4. x \in Nat  OBVIOUS
<1>5. x = IF temporary' = "none" THEN 0 ELSE 1  OBVIOUS
<1> HIDE DEF a, b, c, d, x
<1>6. files' = b + leaked' + x /\ procs' = d  BY <1>1, <1>2, <1>3, <1>4
<1>7. Sums'  BY <1>5, <1>6 DEF Sums, b, d
<1>8. HoldType'  BY BookFacts DEF HoldType
<1> QED  BY <1>7, <1>8 DEF Holding

(* A stream changes, and holds what it held.                                 *)
LEMMA TouchHolding ==
    ASSUME Holding, NEW i \in Ids, st' \in [Ids -> Stream], \A j \in Ids : j # i => st'[j] = st[j],
           st'[i].closed = st[i].closed, st'[i].inner = st[i].inner, st'[i].file = st[i].file,
           Len(st'[i].jobs) = Len(st[i].jobs), HoldsAsOne(kind[i], st'[i]),
           WatchType', WatchOpen', armed' = armed,
           UNCHANGED <<kind, files, procs, leaked, temporary>>
    PROVE  Holding'
<1>1. /\ Fit(kind, st) /\ kind \in [Ids -> AnyKind] /\ st \in [Ids -> Stream] /\ armed \in BOOLEAN
      /\ files \in Nat /\ procs \in Nat /\ leaked \in Nat
      /\ Cardinality(Hold(st, armed, Ids)) \in Nat /\ Cardinality(Kids(st, Ids)) \in Nat
      /\ files <= MaxFiles /\ procs <= MaxProcesses
  BY BookFacts
<1>2. Fit(kind', st')
  <2>1. st'[i].file => st[i].file \/ i \in Main \/ st[i - Stages].inner # 0  OBVIOUS
  <2>2. Fit(kind, st')  BY <1>1, <2>1, TouchFits
  <2> QED  BY <2>2
<1>3. \A j \in Ids : Len(st'[j].jobs) = Len(st[j].jobs) /\ st'[j].file = st[j].file  OBVIOUS
<1>4. Hold(st', armed', Ids) = Hold(st, armed, Ids) /\ Kids(st', Ids) = Kids(st, Ids)
  BY <1>1, <1>3, SameHold
<1>5. /\ 0 = Cardinality(Hold(st', armed', Ids)) - Cardinality(Hold(st, armed, Ids))
      /\ 0 = Cardinality(Kids(st', Ids)) - Cardinality(Kids(st, Ids))
  BY <1>1, <1>4
<1>6. /\ files' = files + 0 + (leaked' - leaked) /\ procs' = procs + 0 /\ leaked' \in Nat
      /\ files' \in Nat /\ procs' \in Nat /\ files' <= MaxFiles /\ procs' <= MaxProcesses
      /\ kind' \in [Ids -> AnyKind] /\ temporary' = temporary
  BY <1>1
<1> QED  BY <1>2, <1>5, <1>6, NewBooks

(* A stream opens its file, or its watch.                                    *)
LEMMA OpenHolding ==
    ASSUME Holding, NEW i \in Ids, st' \in [Ids -> Stream], \A j \in Ids : j # i => st'[j] = st[j],
           st'[i].closed = st[i].closed, st'[i].inner = st[i].inner,
           Len(st'[i].jobs) = Len(st[i].jobs), HoldsAsOne(kind[i], st'[i]),
           st'[i].file => st[i].file \/ i \in Main \/ st[i - Stages].inner # 0,
           WatchType', WatchOpen', i # 1 => armed' = armed,
           ~(st[i].file \/ (i = 1 /\ armed)), st'[i].file \/ (i = 1 /\ armed'),
           files' = files + 1, FileFree, UNCHANGED <<kind, procs, leaked, temporary>>
    PROVE  Holding'
<1>1. /\ Fit(kind, st) /\ kind \in [Ids -> AnyKind] /\ st \in [Ids -> Stream] /\ armed \in BOOLEAN
      /\ files \in Nat /\ procs \in Nat /\ leaked \in Nat
      /\ Cardinality(Hold(st, armed, Ids)) \in Nat /\ Cardinality(Kids(st, Ids)) \in Nat
      /\ files <= MaxFiles /\ procs <= MaxProcesses
  BY BookFacts
<1>2. Fit(kind', st')
  <2>1. Fit(kind, st')  BY <1>1, TouchFits
  <2> QED  BY <2>1
<1>3. \A j \in Ids : Len(st'[j].jobs) = Len(st[j].jobs)  OBVIOUS
<1>4. armed' \in BOOLEAN  BY DEF WatchType
<1>5. \A j \in Ids : j # i => (st'[j].file \/ (j = 1 /\ armed') <=> st[j].file \/ (j = 1 /\ armed))
  OBVIOUS
<1>6. /\ Cardinality(Hold(st', armed', Ids)) = Cardinality(Hold(st, armed, Ids)) + 1
      /\ Kids(st', Ids) = Kids(st, Ids)
  BY <1>1, <1>3, <1>4, <1>5, OpenCounts
<1>7. /\ 1 = Cardinality(Hold(st', armed', Ids)) - Cardinality(Hold(st, armed, Ids))
      /\ 0 = Cardinality(Kids(st', Ids)) - Cardinality(Kids(st, Ids))
  BY <1>1, <1>6
<1>8. /\ files' = files + 1 + (leaked' - leaked) /\ procs' = procs + 0 /\ leaked' \in Nat
      /\ files' \in Nat /\ procs' \in Nat /\ files' <= MaxFiles /\ procs' <= MaxProcesses
      /\ kind' \in [Ids -> AnyKind] /\ temporary' = temporary
  BY <1>1, LimitAssumption DEF FileFree
<1> QED  BY <1>2, <1>7, <1>8, NewBooks

(* A stage has one child more.                                               *)
LEMMA LaunchHolding ==
    ASSUME Holding, NEW i \in Ids, st' \in [Ids -> Stream], \A j \in Ids : j # i => st'[j] = st[j],
           st'[i].closed = st[i].closed, st'[i].inner = st[i].inner, st'[i].file = st[i].file,
           Len(st'[i].jobs) = Len(st[i].jobs) + 1, HoldsAsOne(kind[i], st'[i]), LaunchChecks,
           files' = files + 1, procs' = procs + 1, UNCHANGED <<kind, leaked, temporary, watchVars>>
    PROVE  Holding'
<1>1. /\ Fit(kind, st) /\ kind \in [Ids -> AnyKind] /\ st \in [Ids -> Stream] /\ armed \in BOOLEAN
      /\ files \in Nat /\ procs \in Nat /\ leaked \in Nat
      /\ Cardinality(Hold(st, armed, Ids)) \in Nat /\ Cardinality(Kids(st, Ids)) \in Nat
      /\ files <= MaxFiles /\ procs <= MaxProcesses
  BY BookFacts
<1>2. Fit(kind', st')
  <2>1. st'[i].file => st[i].file \/ i \in Main \/ st[i - Stages].inner # 0  OBVIOUS
  <2>2. Fit(kind, st')  BY <1>1, <2>1, TouchFits
  <2> QED  BY <2>2
<1>3. /\ \A j \in Ids : st'[j].file = st[j].file /\ (j # i => Len(st'[j].jobs) = Len(st[j].jobs))
      /\ Len(st'[i].jobs) <= Width
  BY DEF HoldsAsOne
<1>4. WatchType' /\ WatchOpen' /\ armed' = armed
  <2>1. st'[1].closed = st[1].closed
    <3>1. 1 \in Ids  BY SourceIsId
    <3> QED  BY <3>1
  <2> QED  BY <2>1, WatchKept
<1>5. /\ Cardinality(Hold(st', armed, Ids)) = Cardinality(Hold(st, armed, Ids)) + 1
      /\ Cardinality(Kids(st', Ids)) = Cardinality(Kids(st, Ids)) + 1
  BY <1>1, <1>3, ChildCounts
<1>6. /\ 1 = Cardinality(Hold(st', armed', Ids)) - Cardinality(Hold(st, armed, Ids))
      /\ 1 = Cardinality(Kids(st', Ids)) - Cardinality(Kids(st, Ids))
  BY <1>1, <1>4, <1>5
<1>7. /\ files' = files + 1 + (leaked' - leaked) /\ procs' = procs + 1 /\ leaked' \in Nat
      /\ files' \in Nat /\ procs' \in Nat /\ files' <= MaxFiles /\ procs' <= MaxProcesses
      /\ kind' \in [Ids -> AnyKind] /\ temporary' = temporary
  BY <1>1, LimitAssumption DEF LaunchChecks, FileFree
<1> QED  BY <1>2, <1>4, <1>6, <1>7, NewBooks

(* A stage has one child less, whose result file is closed, or left open.    *)
LEMMA CollectHolding ==
    ASSUME Holding, NEW i \in Ids, st' \in [Ids -> Stream], \A j \in Ids : j # i => st'[j] = st[j],
           st'[i].closed = st[i].closed, st'[i].inner = st[i].inner, st'[i].file = st[i].file,
           Len(st[i].jobs) = Len(st'[i].jobs) + 1, HoldsAsOne(kind[i], st'[i]),
           \/ files' = Less(files, 1) /\ leaked' = leaked
           \/ files' = files /\ leaked' = leaked + 1,
           procs' = Less(procs, 1), UNCHANGED <<kind, temporary, watchVars>>
    PROVE  Holding'
<1>1. /\ Fit(kind, st) /\ kind \in [Ids -> AnyKind] /\ st \in [Ids -> Stream] /\ armed \in BOOLEAN
      /\ files \in Nat /\ procs \in Nat /\ leaked \in Nat
      /\ Cardinality(Hold(st, armed, Ids)) \in Nat /\ Cardinality(Kids(st, Ids)) \in Nat
      /\ files = Cardinality(Hold(st, armed, Ids)) + leaked + (IF temporary = "none" THEN 0 ELSE 1)
      /\ procs = Cardinality(Kids(st, Ids))
      /\ files <= MaxFiles /\ procs <= MaxProcesses
  BY BookFacts
<1>2. Fit(kind', st')
  <2>1. st'[i].file => st[i].file \/ i \in Main \/ st[i - Stages].inner # 0  OBVIOUS
  <2>2. Fit(kind, st')  BY <1>1, <2>1, TouchFits
  <2> QED  BY <2>2
<1>3. /\ \A j \in Ids : st[j].file = st'[j].file /\ (j # i => Len(st[j].jobs) = Len(st'[j].jobs))
      /\ Len(st[i].jobs) <= Width
  <2>1. HoldsAsOne(kind[i], st[i])  BY <1>1 DEF Fit, HoldsByKind
  <2> QED  BY <2>1 DEF HoldsAsOne
<1>4. WatchType' /\ WatchOpen' /\ armed' = armed
  <2>1. st'[1].closed = st[1].closed
    <3>1. 1 \in Ids  BY SourceIsId
    <3> QED  BY <3>1
  <2> QED  BY <2>1, WatchKept
<1>5. /\ Cardinality(Hold(st, armed, Ids)) = Cardinality(Hold(st', armed, Ids)) + 1
      /\ Cardinality(Kids(st, Ids)) = Cardinality(Kids(st', Ids)) + 1
  BY <1>1, <1>3, ChildCounts
<1>6. Cardinality(Hold(st', armed, Ids)) \in Nat /\ Cardinality(Kids(st', Ids)) \in Nat
  BY <1>1, HoldFinite, SubsetSelf
<1>7. /\ -1 = Cardinality(Hold(st', armed', Ids)) - Cardinality(Hold(st, armed, Ids))
      /\ -1 = Cardinality(Kids(st', Ids)) - Cardinality(Kids(st, Ids))
  BY <1>4, <1>5, <1>6
<1>8. files >= 1 /\ procs >= 1  BY <1>1, <1>5, <1>6
<1>9. Less(files, 1) = files - 1 /\ Less(procs, 1) = procs - 1  BY <1>1, <1>8 DEF Less
<1>10. /\ files' = files + (-1) + (leaked' - leaked) /\ procs' = procs + (-1) /\ leaked' \in Nat
       /\ files' \in Nat /\ procs' \in Nat /\ files' <= MaxFiles /\ procs' <= MaxProcesses
       /\ kind' \in [Ids -> AnyKind] /\ temporary' = temporary
  <2>1. MaxFiles \in Nat /\ MaxProcesses \in Nat  BY LimitAssumption
  <2>2. procs' = procs - 1  BY <1>9
  <2>3. CASE files' = files - 1 /\ leaked' = leaked  BY <1>1, <1>8, <2>1, <2>2, <2>3
  <2>4. CASE files' = files /\ leaked' = leaked + 1  BY <1>1, <1>8, <2>1, <2>2, <2>4
  <2> QED  BY <1>9, <2>3, <2>4
<1> QED  BY <1>2, <1>4, <1>7, <1>10, NewBooks
(* A closure's stream becomes the inner one.                                 *)
LEMMA AttachHolding ==
    ASSUME Holding, NEW i \in Main, kind[i] \in {"flat_map", "on_error"}, ~st[i].closed,
           st[i].inner = 0, NEW q \in {"list", "lines"}, NEW left \in 0..2, NEW tag \in Item,
           kind' = [kind EXCEPT ![Inner(i)] = q],
           st' = [st EXCEPT ![i].inner = Inner(i), ![Inner(i)] = Fresh(left, tag)],
           UNCHANGED <<files, procs, watchVars, leaked, temporary>>
    PROVE  /\ Holding'
           /\ \A m \in Above(i) : st'[m] = st[m]
           /\ \A m \in Main : kind'[m] = kind[m]
           /\ kind'[Inner(i)] = q /\ st'[i] = [st[i] EXCEPT !.inner = Inner(i)]
<1> DEFINE n == Inner(i)
<1>1. /\ Fit(kind, st) /\ kind \in [Ids -> AnyKind] /\ st \in [Ids -> Stream] /\ armed \in BOOLEAN
      /\ files \in Nat /\ procs \in Nat /\ leaked \in Nat
      /\ Cardinality(Hold(st, armed, Ids)) \in Nat /\ Cardinality(Kids(st, Ids)) \in Nat
      /\ files <= MaxFiles /\ procs <= MaxProcesses
  BY BookFacts
<1>2. i \in Ids /\ n \in Ids /\ n \notin Main /\ n # i /\ 1 \in Main /\ n # 1 /\ i \in Int
  BY IdFacts DEF Main, Inner
<1>3. n = Inner(i)  OBVIOUS
<1> HIDE DEF n
<1>4. Fresh(left, tag) \in Stream
  <2>1. left \in 0..Items /\ Items \in Nat /\ 0 \in 0..2 * Stages  BY IdFacts
  <2>2. <<>> \in Seq(Item) /\ <<>> \in Seq(Job)  OBVIOUS
  <2> QED  BY <2>1, <2>2 DEF Fresh, Stream
<1>5. [st[i] EXCEPT !.inner = n] \in Stream
  <2>1. st[i] \in Stream /\ n \in 0..2 * Stages  BY <1>1, <1>2 DEF Ids
  <2> QED  BY <2>1 DEF Stream
<1>6. /\ st' \in [Ids -> Stream] /\ st'[n] = Fresh(left, tag) /\ st'[i] = [st[i] EXCEPT !.inner = n]
      /\ \A j \in Ids : j # i /\ j # n => st'[j] = st[j]
  BY <1>1, <1>2, <1>3, <1>4, <1>5
<1>7. /\ kind' \in [Ids -> AnyKind] /\ kind'[n] = q /\ \A j \in Ids : j # n => kind'[j] = kind[j]
  BY <1>1, <1>2, <1>3 DEF AnyKind, SourceKinds
<1>8. /\ ~st'[n].closed /\ ~st'[n].file /\ ~st'[n].cursor /\ st'[n].inner = 0
      /\ st'[n].jobs = <<>> /\ st'[n].busy = "no"
  BY <1>6 DEF Fresh
<1>9. Fit(kind', st')
  <2>1. /\ \A j \in Ids : j # Inner(i) => kind'[j] = kind[j]
        /\ kind'[Inner(i)] \in {"list", "lines"}
        /\ \A j \in Ids : j # i /\ j # Inner(i) => st'[j] = st[j]
        /\ st'[i] = [st[i] EXCEPT !.inner = Inner(i)]
    BY <1>3, <1>6, <1>7
  <2>2. /\ ~st'[Inner(i)].closed /\ ~st'[Inner(i)].file /\ ~st'[Inner(i)].cursor
        /\ st'[Inner(i)].inner = 0 /\ st'[Inner(i)].jobs = <<>> /\ st'[Inner(i)].busy = "no"
    BY <1>3, <1>8
  <2>3. st' \in [Ids -> Stream] /\ kind' \in [Ids -> AnyKind]  BY <1>6, <1>7
  <2>4. kind \in [Ids -> AnyKind] /\ st \in [Ids -> Stream] /\ Fit(kind, st)  BY <1>1
  <2>5. i \in Main /\ kind[i] \in {"flat_map", "on_error"} /\ ~st[i].closed  OBVIOUS
  <2> QED  BY ONLY <2>1, <2>2, <2>3, <2>4, <2>5, AttachFits
<1>10. ~st[n].file /\ Len(st[n].jobs) = 0
  <2>1. ~st[n].file  BY <1>1, <1>3 DEF Fit, Nested
  <2>2. kind[n] # "parallel"  BY <1>1, <1>3 DEF Fit, KindsFit
  <2>3. HoldsAsOne(kind[n], st[n])  BY <1>1, <1>2 DEF Fit, HoldsByKind
  <2>4. st[n].jobs = <<>>  BY <2>2, <2>3 DEF HoldsAsOne
  <2> QED  BY <2>1, <2>4
<1>11. /\ st'[i].file = st[i].file /\ st'[i].jobs = st[i].jobs /\ st'[i].closed = st[i].closed
  <2>1. st[i] \in Stream  BY <1>1, <1>2
  <2> QED  BY <1>6, <2>1 DEF Stream
<1>12. \A j \in Ids : Len(st'[j].jobs) = Len(st[j].jobs) /\ st'[j].file = st[j].file
  <2> TAKE j \in Ids
  <2>1. CASE j = i  BY <1>11, <2>1
  <2>2. CASE j = n
    <3>1. st'[n].file = FALSE /\ st[n].file = FALSE
      <4>1. st[n] \in Stream  BY <1>1, <1>2
      <4>2. st[n].file \in BOOLEAN  BY <4>1 DEF Stream
      <4> QED  BY <1>8, <1>10, <1>6, <4>2 DEF Fresh
    <3>2. Len(st'[n].jobs) = 0  BY <1>8
    <3> QED  BY <1>10, <2>2, <3>1, <3>2
  <2>3. CASE j # i /\ j # n  BY <1>6, <2>3
  <2> QED  BY <2>1, <2>2, <2>3
<1>13. WatchType' /\ WatchOpen' /\ armed' = armed
  <2>1. kind'[1] = kind[1] /\ st'[1].closed = st[1].closed
    BY <1>2, <1>6, <1>7, <1>11, IdFacts
  <2> QED  BY <2>1, WatchKept
<1>14. Hold(st', armed', Ids) = Hold(st, armed, Ids) /\ Kids(st', Ids) = Kids(st, Ids)
  BY <1>1, <1>6, <1>12, <1>13, SameHold
<1>15. /\ 0 = Cardinality(Hold(st', armed', Ids)) - Cardinality(Hold(st, armed, Ids))
       /\ 0 = Cardinality(Kids(st', Ids)) - Cardinality(Kids(st, Ids))
  BY <1>1, <1>14
<1>16. /\ files' = files + 0 + (leaked' - leaked) /\ procs' = procs + 0 /\ leaked' \in Nat
       /\ files' \in Nat /\ procs' \in Nat /\ files' <= MaxFiles /\ procs' <= MaxProcesses
       /\ temporary' = temporary
  BY <1>1
<1>17. Holding'
  <2>1. st' \in [Ids -> Stream] /\ kind' \in [Ids -> AnyKind]  BY <1>6, <1>7
  <2>2. Holding /\ 0 \in Int  OBVIOUS
  <2> QED  BY ONLY <1>9, <1>13, <1>15, <1>16, <2>1, <2>2, NewBooks
<1>18. /\ \A m \in Above(i) : m \in Ids /\ m # i /\ m # n
       /\ \A m \in Main : m \in Ids /\ m # n
  BY <1>2, IdFacts DEF Above
<1> QED  BY <1>3, <1>6, <1>7, <1>17, <1>18

(* An inner stream that is at its end is closed and left behind.             *)
LEMMA DetachHolding ==
    ASSUME Holding, NEW i \in Main, kind[Inner(i)] # "none",
           NEW S, S = Closing(Inner(i)), st' = [Shut(S) EXCEPT ![i].inner = 0],
           files' = Less(files, HeldBy(S)), UNCHANGED <<kind, procs, watchVars, leaked, temporary>>
    PROVE  /\ Holding'
           /\ \A m \in Above(i) : st'[m] = st[m]
           /\ st'[i] = [st[i] EXCEPT !.inner = 0]
<1> DEFINE n == Inner(i)
           t == ShutIn(st, S)
<1>1. Fit(kind, st) /\ kind \in [Ids -> AnyKind] /\ st \in [Ids -> Stream]
  BY BookFacts
<1>2. i \in Ids /\ n \in Ids /\ n \notin Main /\ n # i /\ 1 \in Main /\ n # 1 /\ i \in Int
  BY IdFacts DEF Main, Inner
<1>3. n = Inner(i) /\ S = ClosingIn(st, n)  BY SameNames
<1> HIDE DEF n
<1>4. S \subseteq {n}  BY <1>1, <1>2, <1>3, ClosingReaches
<1>5. S \in SUBSET Ids /\ i \notin S /\ 1 \notin S  BY <1>2, <1>4
<1>6. /\ t \in [Ids -> Stream] /\ Fit(kind, t) /\ t[n].closed
  BY <1>1, <1>2, <1>3, ShutFits
<1>7. \A j \in Ids \ S : t[j] = st[j]  BY <1>1, <1>5, ShutType
<1>8. st' = [t EXCEPT ![i].inner = 0]  BY SameNames
<1> HIDE DEF t
<1>9. [st[i] EXCEPT !.inner = 0] \in Stream
  <2>1. st[i] \in Stream /\ 0 \in 0..2 * Stages  BY <1>1, <1>2, IdFacts
  <2> QED  BY <2>1 DEF Stream
<1>10. t[i] = st[i]  BY <1>2, <1>5, <1>7
<1>11. /\ st' \in [Ids -> Stream] /\ st'[i] = [st[i] EXCEPT !.inner = 0]
       /\ \A j \in Ids : j # i => st'[j] = t[j]
  <2>1. st'[i] = [t[i] EXCEPT !.inner = 0] /\ \A j \in Ids : j # i => st'[j] = t[j]
    BY <1>2, <1>6, <1>8
  <2>2. st' = [j \in Ids |-> IF j = i THEN [st[i] EXCEPT !.inner = 0] ELSE t[j]]
    BY <1>2, <1>6, <1>8, <1>10
  <2> QED  BY <1>6, <1>9, <1>10, <2>1, <2>2
<1>12. Fit(kind, st')
  <2>1. t[Inner(i)].closed /\ st'[i] = [t[i] EXCEPT !.inner = 0]  BY <1>3, <1>6, <1>10, <1>11
  <2>2. i \in Main  OBVIOUS
  <2> QED  BY ONLY <1>1, <1>6, <1>11, <2>1, <2>2, DetachFits
<1>13. st'[i].file = st[i].file /\ st'[i].jobs = st[i].jobs /\ st'[i].closed = st[i].closed
  <2>1. st[i] \in Stream  BY <1>1, <1>2
  <2> QED  BY <1>11, <2>1 DEF Stream
<1>14. \A j \in Ids : Len(st'[j].jobs) = Len(t[j].jobs) /\ st'[j].file = t[j].file
  BY <1>10, <1>11, <1>13
<1>15. kind[1] = "watch" /\ 1 \notin S /\ st'[1].closed => st[1].closed
  BY <1>2, <1>5, <1>7, <1>10, <1>11, <1>13, IdFacts
<1>16. Cardinality(Kids(st, S)) = 0
  <2>1. kind[n] # "parallel"  BY <1>1, <1>3 DEF Fit, KindsFit
  <2>2. HoldsAsOne(kind[n], st[n])  BY <1>1, <1>2 DEF Fit, HoldsByKind
  <2>3. st[n].jobs = <<>>  BY <2>1, <2>2 DEF HoldsAsOne
  <2>4. Len(st[n].jobs) = 0  BY <2>3
  <2>5. Kids(st, S) = {}
    <3>1. ASSUME NEW c \in Kids(st, S) PROVE FALSE
      <4>1. c[1] = n /\ c[2] \in 1..Width /\ c[2] <= Len(st[c[1]].jobs)  BY <1>4 DEF Kids
      <4> QED  BY <2>4, <4>1, IdFacts
    <3> QED  BY <3>1
  <2> QED  BY <2>5, FS_EmptySet
<1>17. /\ files' = files - Cardinality(Hold(st, armed, S)) - 0
       /\ procs' = procs - Cardinality(Kids(st, S))
  <2>1. /\ files \in Nat /\ procs \in Nat /\ Cardinality(Hold(st, armed, S)) \in Nat
        /\ Cardinality(Hold(st, armed, S)) + (IF temporary = "none" THEN 0 ELSE 1) <= files
        /\ HeldBy(S) = Cardinality(Hold(st, armed, S))
    BY <1>5, InTheBooks
  <2>2. Cardinality(Hold(st, armed, S)) <= files  BY <2>1
  <2>3. Less(files, HeldBy(S)) = files - Cardinality(Hold(st, armed, S))  BY <2>1, <2>2, LessFacts
  <2> QED  BY <1>16, <2>1, <2>3
<1>18. WatchClosed(1 \in S /\ kind[1] = "watch")  BY <1>5 DEF WatchClosed
<1>19. temporary \in {"none", "open", "gone"}  BY BookFacts DEF HoldType
<1>20. \A j \in Ids : /\ Len(st'[j].jobs) = Len(ShutIn(st, S)[j].jobs)
                      /\ st'[j].file = ShutIn(st, S)[j].file
  BY <1>14 DEF t
<1>21. Holding'
  <2>1. st' \in [Ids -> Stream] /\ S \in SUBSET Ids  BY <1>5, <1>11
  <2>2. UNCHANGED <<kind, leaked>> /\ temporary' = temporary  OBVIOUS
  <2>3. /\ (IF temporary = "none" THEN 0 ELSE 1) = 0 + (IF temporary' = "none" THEN 0 ELSE 1)
        /\ temporary' \in {"none", "open", "gone"}
    BY <1>19, <2>2
  <2>4. 0 \in {0, 1} /\ Holding  OBVIOUS
  <2> QED
    BY ONLY <1>12, <1>15, <1>17, <1>18, <1>20, <2>1, <2>2, <2>3, <2>4, ShutBooks
<1>22. \A m \in Above(i) : m \in Ids /\ m # i /\ m \notin S
  BY <1>2, <1>4, IdFacts DEF Above
<1> QED  BY <1>7, <1>11, <1>21, <1>22
(* The source of a barrier is closed, and perhaps the barrier with it.       *)
LEMMA LoadHolding ==
    ASSUME Holding, NEW i \in Main, i # 1, i - 1 \in Main, kind[i] \in Barriers,
           NEW S, S = Closing(i - 1), st' \in [Ids -> Stream],
           \A j \in Ids : j # i => st'[j] = Shut(S)[j],
           st'[i].inner = st[i].inner, st'[i].file = st[i].file, st'[i].cursor = st[i].cursor,
           st'[i].jobs = st[i].jobs, st'[i].busy = st[i].busy,
           st'[i].closed \in {TRUE, st[i].closed},
           files' = Less(files, HeldBy(S)), procs' = Less(procs, Active(S)),
           WatchClosed(1 \in S /\ kind[1] = "watch"), UNCHANGED <<kind, leaked, temporary>>
    PROVE  /\ Holding'
           /\ \A m \in Above(i) : st'[m] = st[m]
<1> DEFINE n == i - 1
           t == ShutIn(st, S)
<1>1. Fit(kind, st) /\ kind \in [Ids -> AnyKind] /\ st \in [Ids -> Stream]
  BY BookFacts
<1>2. /\ i \in Ids /\ n \in Ids /\ n \in Main /\ n # i /\ i \in Int /\ i \in Above(n)
      /\ \A m \in Above(i) : m \in Above(n) /\ m \in Ids /\ m # i
  <2>0. i \in Int /\ i \in Ids /\ i - 1 \in Main  BY IdFacts
  <2>1. i \in Int /\ i \in Ids /\ n \in Main /\ n \in Ids /\ n < i  BY <2>0, IdFacts
  <2>2. \A m \in Main : m \in Int /\ m \in Ids  BY IdFacts
  <2>3. \A m \in Above(i) : m \in Main /\ m > i  BY <2>1 DEF Above
  <2>4. \A m \in Main : m > n => m \in Above(n)  BY DEF Above
  <2> HIDE DEF n
  <2>5. \A m \in Above(i) : m \in Above(n) /\ m \in Ids /\ m # i
    <3> TAKE m \in Above(i)
    <3>1. m \in Main /\ m > i /\ m \in Int /\ m \in Ids /\ n \in Int  BY <2>1, <2>2, <2>3
    <3>2. m > n /\ m # i  BY <2>1, <3>1
    <3> QED  BY <2>4, <3>1, <3>2
  <2>6. i > n /\ n # i  BY <2>1, <2>2
  <2> QED  BY <2>1, <2>4, <2>5, <2>6
<1>3. S = ClosingIn(st, n) /\ kind[n] # "none"
  <2>1. n \in 1..i /\ kind[i] # "none"  BY DEF Barriers, Main
  <2> QED  BY <1>1, <2>1, SameNames DEF Fit, KindsFit
<1>4. \A j \in Ids : j # i => st'[j] = t[j]  BY SameNames
<1> HIDE DEF n
<1>5. S \subseteq Ids /\ \A m \in Above(n) : m \notin S
  <2>1. n \in Ids  BY <1>2
  <2> QED  BY ONLY <1>1, <1>3, <2>1, ClosingReaches
<1>6. /\ t \in [Ids -> Stream] /\ Fit(kind, t)
      /\ \A m \in Above(n) : t[m] = st[m]
      /\ \A j \in 1..n : t[j].closed
  <2>1. n \in Ids /\ n \in Main  BY <1>2
  <2> QED  BY <1>1, <1>3, <2>1, ShutFits
<1> HIDE DEF t
<1>7. t[i] = st[i]  BY <1>2, <1>6
<1>8. HoldsAsOne(kind[i], st'[i])
  <2>1. HoldsAsOne(kind[i], st[i])  BY <1>1, <1>2 DEF Fit, HoldsByKind
  <2>2. ~st[i].file /\ ~st[i].cursor /\ st[i].jobs = <<>>
    BY <2>1 DEF HoldsAsOne, Barriers, WithFile
  <2> QED  BY <2>1, <2>2 DEF HoldsAsOne
<1>9. Fit(kind, st')
  <2>1. CASE st'[i].closed = st[i].closed
    <3>1. /\ st'[i].closed = t[i].closed /\ st'[i].inner = t[i].inner
          /\ st'[i].file => t[i].file \/ i \in Main \/ t[i - Stages].inner # 0
      BY <1>7, <2>1
    <3>2. i \in Ids  BY <1>2
    <3>3. st' \in [Ids -> Stream]  OBVIOUS
    <3> QED  BY ONLY <1>1, <1>4, <1>6, <1>8, <3>1, <3>2, <3>3, TouchFits
  <2>2. CASE st'[i].closed
    <3>1. \A j \in 1..i : j = i \/ t[j].closed
      <4>1. \A j \in 1..i : j = i \/ j \in 1..n  BY <1>2 DEF n
      <4> QED  BY <1>6, <4>1
    <3>2. st'[i].inner = t[i].inner  BY <1>7
    <3>3. st' \in [Ids -> Stream] /\ i \in Main /\ kind[i] \in Barriers  OBVIOUS
    <3> QED  BY ONLY <1>1, <1>4, <1>6, <1>8, <2>2, <3>1, <3>2, <3>3, SelfCloseFits
  <2>3. st'[i].closed \in {TRUE, st[i].closed}  OBVIOUS
  <2> QED  BY <2>1, <2>2, <2>3
<1>10. \A j \in Ids : /\ Len(st'[j].jobs) = Len(ShutIn(st, S)[j].jobs)
                      /\ st'[j].file = ShutIn(st, S)[j].file
  <2>1. \A j \in Ids : Len(st'[j].jobs) = Len(t[j].jobs) /\ st'[j].file = t[j].file
    BY <1>4, <1>7
  <2> QED  BY <2>1 DEF t
<1>11. kind[1] = "watch" /\ 1 \notin S /\ st'[1].closed => st[1].closed
  <2>1. 1 \in Ids  BY <1>2, IdFacts
  <2>2. S \in SUBSET Ids  BY <1>5
  <2>3. 1 \notin S => t[1] = st[1]  BY <1>1, <2>1, <2>2, ShutType DEF t
  <2> QED  BY <1>4, <2>1, <2>3
<1>12. /\ files' = files - Cardinality(Hold(st, armed, S)) - 0
       /\ procs' = procs - Cardinality(Kids(st, S))
  <2>1. S \in SUBSET Ids  BY <1>5
  <2>2. /\ files \in Nat /\ procs \in Nat
        /\ Cardinality(Hold(st, armed, S)) \in Nat /\ Cardinality(Kids(st, S)) \in Nat
        /\ Cardinality(Hold(st, armed, S)) + (IF temporary = "none" THEN 0 ELSE 1) <= files
        /\ Cardinality(Kids(st, S)) <= procs
        /\ HeldBy(S) = Cardinality(Hold(st, armed, S)) /\ Active(S) = Cardinality(Kids(st, S))
    BY <2>1, InTheBooks
  <2>3. Cardinality(Hold(st, armed, S)) <= files  BY <2>2
  <2>4. Less(files, HeldBy(S)) = files - Cardinality(Hold(st, armed, S))  BY <2>2, <2>3, LessFacts
  <2>5. Less(procs, Active(S)) = procs - Cardinality(Kids(st, S))  BY <2>2, LessFacts
  <2> QED  BY <2>2, <2>4, <2>5
<1>13. Holding'
  <2>1. S \in SUBSET Ids /\ Holding /\ 0 \in {0, 1} /\ st' \in [Ids -> Stream]  BY <1>5
  <2>2. UNCHANGED <<kind, leaked>> /\ temporary' = temporary  OBVIOUS
  <2>3. /\ (IF temporary = "none" THEN 0 ELSE 1) = 0 + (IF temporary' = "none" THEN 0 ELSE 1)
        /\ temporary' \in {"none", "open", "gone"}
    BY <2>2, BookFacts DEF HoldType
  <2>4. WatchClosed(1 \in S /\ kind[1] = "watch")  OBVIOUS
  <2> QED  BY ONLY <1>9, <1>10, <1>11, <1>12, <2>1, <2>2, <2>3, <2>4, ShutBooks
<1> QED  BY <1>2, <1>4, <1>6, <1>13

(* Every open stream is shut.                                                *)
LEMMA ShutAllFits ==
    ASSUME NEW k \in [Ids -> AnyKind], NEW s \in [Ids -> Stream], Fit(k, s),
           NEW S \in SUBSET Ids, S = {i \in Ids : k[i] # "none" /\ ~s[i].closed}
    PROVE  /\ ShutIn(s, S) \in [Ids -> Stream] /\ Fit(k, ShutIn(s, S))
           /\ \A i \in Ids : k[i] # "none" => ShutIn(s, S)[i].closed
<1> DEFINE t == ShutIn(s, S)
<1>1. KindsFit(k) /\ HoldsByKind(k, s) /\ Nested(k, s) /\ ClosedBelow(s)  BY DEF Fit
<1>2. /\ t \in [Ids -> Stream]
      /\ \A j \in S : t[j] = Emptied(s[j])
      /\ \A j \in Ids \ S : t[j] = s[j]
  BY ShutType
<1> HIDE DEF t
<1>3. ASSUME NEW j \in Ids
      PROVE  /\ t[j].inner = s[j].inner
             /\ t[j].closed <=> s[j].closed \/ j \in S
             /\ t[j].file => s[j].file
             /\ HoldsAsOne(k[j], t[j])
             /\ k[j] # "none" => t[j].closed
  <2>1. s[j] \in Stream /\ HoldsAsOne(k[j], s[j])  BY <1>1 DEF HoldsByKind
  <2>2. CASE j \in S
    <3>1. /\ t[j].closed /\ ~t[j].file /\ ~t[j].cursor /\ t[j].jobs = <<>>
          /\ t[j].inner = s[j].inner /\ t[j].busy = s[j].busy
      BY <1>2, <2>1, <2>2, EmptiedType
    <3>2. Len(<<>>) = 0 /\ 0 <= Width  BY IdFacts
    <3> QED  BY <2>1, <2>2, <3>1, <3>2 DEF HoldsAsOne
  <2>3. CASE j \notin S
    <3>1. t[j] = s[j] /\ (k[j] # "none" => s[j].closed)  BY <1>2, <2>3
    <3> QED  BY <2>1, <2>3, <3>1
  <2> QED  BY <2>2, <2>3
<1>4. HoldsByKind(k, t)  BY <1>3 DEF HoldsByKind
<1>5. Nested(k, t)
  <2>1. \A j \in Main : j \in Ids /\ Inner(j) \in Ids  BY IdFacts
  <2> QED  BY <1>1, <1>3, <2>1 DEF Nested
<1>6. ClosedBelow(t)
  <2>1. SUFFICES ASSUME NEW j \in Main, t[j].closed
                 PROVE  /\ \A m \in 1..j : t[m].closed
                        /\ t[j].inner # 0 => t[Inner(j)].closed
    BY DEF ClosedBelow
  <2>2. j \in Ids /\ Inner(j) \in Ids /\ \A m \in 1..j : m \in Ids  BY IdFacts
  <2>3. CASE s[j].closed
    <3>1. (\A m \in 1..j : s[m].closed) /\ (s[j].inner # 0 => s[Inner(j)].closed)
      BY <1>1, <2>3 DEF ClosedBelow
    <3> QED  BY <1>3, <2>2, <3>1
  <2>4. CASE ~s[j].closed
    <3>1. k[j] # "none"  BY <1>3, <2>1, <2>2, <2>4
    <3>2. \A m \in 1..j : k[m] # "none"  BY <1>1, <3>1 DEF KindsFit
    <3>3. t[j].inner # 0 => k[Inner(j)] # "none"  BY <1>1, <1>3, <2>2 DEF Nested
    <3> QED  BY <1>3, <2>2, <3>2, <3>3
  <2> QED  BY <2>3, <2>4
<1>7. Fit(k, t)  BY <1>1, <1>4, <1>5, <1>6 DEF Fit
<1> QED  BY <1>2, <1>3, <1>7 DEF t

(* The last stage of the pipeline is one of its stages.                      *)
LEMMA LastIsStage ==
    ASSUME Holding
    PROVE  LastStage \in Main /\ LastStage \in Ids /\ kind[LastStage] # "none"
<1> DEFINE T == {i \in Main : kind[i] # "none"}
<1>1. Fit(kind, st)  BY BookFacts
<1>2. Stages \in Nat /\ 1 \in Main  BY IdFacts, SourceIsId
<1>3. T \subseteq 1..Stages  BY DEF Main
<1>4. 1 \in T  BY <1>1, <1>2 DEF Fit, KindsFit, SourceKinds
<1>5. LastStage = Max(T)  BY DEF LastStage
<1> HIDE DEF T
<1>6. Max(T) \in T  BY <1>2, <1>3, <1>4, Greatest
<1> QED  BY <1>5, <1>6, IdFacts DEF T
-----------------------------------------------------------------------------
(* What the steps do to the calls, and all of it together.                   *)

OnTop(i) == phase = "pulling" /\ calls # <<>> /\ calls[Len(calls)] = i

(* What is known of the stage on top of the stack.                           *)
LEMMA TopFacts ==
    ASSUME Holding, Talking, NEW i, OnTop(i)
    PROVE  /\ i \in Ids /\ kind[i] # "none" /\ i # 0
           /\ calls \in Seq(Ids) /\ calls # <<>> /\ i = calls[Len(calls)] /\ phase = "pulling"
           /\ answer.from \in Ids \cup {0} /\ answer.item \in Item \cup {End}
           /\ CallsFit(kind, st, calls, answer.from) /\ Phases
           /\ i \notin Main => i - Stages \in Main /\ st[i - Stages].inner # 0
           /\ answer.from # 0 => WaitsFor(kind[i], st[i], i, answer.from)
                                  /\ kind[answer.from] # "none"
           /\ kind \in [Ids -> AnyKind] /\ st \in [Ids -> Stream] /\ st[i] \in Stream
           /\ Fit(kind, st) /\ HoldsAsOne(kind[i], st[i])
<1>1. /\ calls \in Seq(Ids) /\ calls # <<>> /\ i = calls[Len(calls)] /\ phase = "pulling"
      /\ answer.from \in Ids \cup {0} /\ answer.item \in Item \cup {End}
      /\ CallsFit(kind, st, calls, answer.from) /\ Phases
  BY DEF OnTop, Talking, TalkType
<1>2. kind \in [Ids -> AnyKind] /\ st \in [Ids -> Stream] /\ Fit(kind, st)  BY BookFacts
<1>3. /\ i \in Ids /\ kind[i] # "none"
      /\ i \notin Main => st[i - Stages].inner # 0
      /\ answer.from # 0 => WaitsFor(kind[i], st[i], i, answer.from)
  BY ONLY <1>1, <1>2, TopCall
<1>4. i # 0 /\ (i \notin Main => i - Stages \in Main)  BY <1>3, IdFacts
<1>5. HoldsAsOne(kind[i], st[i])  BY <1>2, <1>3 DEF Fit, HoldsByKind
<1>6. answer.from # 0 => kind[answer.from] # "none"  BY <1>1 DEF Phases
<1> QED  BY <1>1, <1>2, <1>3, <1>4, <1>5, <1>6

(* The stage on top gives its answer.                                        *)
LEMMA GiveTalking ==
    ASSUME Holding, Talking, NEW i, OnTop(i), NEW item \in Item \cup {End}, Give(i, item),
           st' \in [Ids -> Stream], \A m \in Above(i) : st'[m] = st[m],
           UNCHANGED <<kind, consumer, phase, temporary>>
    PROVE  Talking'
<1>1. /\ i \in Ids /\ i # 0 /\ kind[i] # "none" /\ calls \in Seq(Ids) /\ calls # <<>> /\ i = calls[Len(calls)]
      /\ phase = "pulling" /\ answer.from \in Ids \cup {0}
      /\ CallsFit(kind, st, calls, answer.from) /\ Phases
      /\ kind \in [Ids -> AnyKind] /\ st \in [Ids -> Stream]
  BY TopFacts
<1>2. calls' = Front(calls) /\ answer' = [from |-> i, item |-> item]  BY DEF Give
<1>3. st' \in [Ids -> Stream] /\ \A m \in Above(i) : st'[m] = st[m]  OBVIOUS
<1>4. CallsFit(kind, st', Front(calls), i) /\ Front(calls) \in Seq(Ids)
  BY ONLY <1>1, <1>3, GiveFits
<1>5. CallsFit(kind', st', calls', answer'.from)  BY <1>2, <1>4
<1>6. TalkType'  BY <1>1, <1>2, <1>4 DEF TalkType
<1>7. Phases'  BY <1>1, <1>2 DEF Phases
<1> QED  BY <1>5, <1>6, <1>7 DEF Talking

(* It asks its source, or its inner stream.                                  *)
LEMMA AskTalking ==
    ASSUME Holding, Talking, NEW i \in Main, OnTop(i), NEW j \in Ids, Ask(j),
           st' \in [Ids -> Stream], \A m \in Above(i) : st'[m] = st[m],
           kind' \in [Ids -> AnyKind], \A m \in Main : kind'[m] = kind[m],
           j = i - 1 \/ (j = Inner(i) /\ st'[i].inner # 0), j = i - 1 => j \in Main,
           kind'[j] # "none", WaitsFor(kind'[i], st'[i], i, j),
           UNCHANGED <<consumer, phase, temporary>>
    PROVE  Talking'
<1>1. /\ calls \in Seq(Ids) /\ calls # <<>> /\ i = calls[Len(calls)]
      /\ phase = "pulling" /\ answer.from \in Ids \cup {0}
      /\ CallsFit(kind, st, calls, answer.from) /\ Phases
      /\ kind \in [Ids -> AnyKind] /\ st \in [Ids -> Stream]
  BY TopFacts
<1>2. calls' = Append(calls, j) /\ answer' = [from |-> 0, item |-> End]  BY DEF Ask, NoAnswer
<1>3. /\ st' \in [Ids -> Stream] /\ kind' \in [Ids -> AnyKind]
      /\ \A m \in Above(i) : st'[m] = st[m]
      /\ \A m \in Main : kind'[m] = kind[m]
      /\ i \in Main /\ j \in Ids
      /\ j = i - 1 \/ (j = Inner(i) /\ st'[i].inner # 0)
      /\ j = i - 1 => j \in Main
      /\ kind'[j] # "none" /\ WaitsFor(kind'[i], st'[i], i, j)
  OBVIOUS
<1>4. CallsFit(kind', st', Append(calls, j), 0) /\ Append(calls, j) \in Seq(Ids)
  BY ONLY <1>1, <1>3, AskFits
<1>5. CallsFit(kind', st', calls', answer'.from)  BY <1>2, <1>4
<1>6. TalkType'  BY <1>1, <1>2, <1>4 DEF TalkType
<1>7. Phases'  BY <1>1, <1>2 DEF Phases
<1> QED  BY <1>5, <1>6, <1>7 DEF Talking

(* Its inner stream is asked in its place.                                   *)
LEMMA ReplaceTalking ==
    ASSUME Holding, Talking, NEW i \in Main, OnTop(i),
           calls' = Append(Front(calls), Inner(i)), answer' = NoAnswer,
           st' \in [Ids -> Stream], \A m \in Above(i) : st'[m] = st[m],
           kind' \in [Ids -> AnyKind], \A m \in Main : kind'[m] = kind[m],
           st'[i].inner # 0, kind'[Inner(i)] # "none",
           UNCHANGED <<consumer, phase, temporary>>
    PROVE  Talking'
<1>1. /\ calls \in Seq(Ids) /\ calls # <<>> /\ i = calls[Len(calls)]
      /\ phase = "pulling" /\ answer.from \in Ids \cup {0}
      /\ CallsFit(kind, st, calls, answer.from) /\ Phases
      /\ kind \in [Ids -> AnyKind] /\ st \in [Ids -> Stream]
  BY TopFacts
<1>2. answer' = [from |-> 0, item |-> End]  BY DEF NoAnswer
<1>3. /\ st' \in [Ids -> Stream] /\ kind' \in [Ids -> AnyKind]
      /\ \A m \in Above(i) : st'[m] = st[m]
      /\ \A m \in Main : kind'[m] = kind[m]
      /\ i \in Main /\ st'[i].inner # 0 /\ kind'[Inner(i)] # "none"
  OBVIOUS
<1>4. /\ CallsFit(kind', st', Append(Front(calls), Inner(i)), 0)
      /\ Append(Front(calls), Inner(i)) \in Seq(Ids)
  BY ONLY <1>1, <1>3, ReplaceFits
<1>5. CallsFit(kind', st', calls', answer'.from)  BY <1>2, <1>4
<1>6. TalkType'  BY <1>1, <1>2, <1>4 DEF TalkType
<1>7. Phases'  BY <1>1, <1>2 DEF Phases
<1> QED  BY <1>5, <1>6, <1>7 DEF Talking

(* It goes on by itself.                                                     *)
LEMMA StayTalking ==
    ASSUME Holding, Talking, NEW i \in Main, OnTop(i), calls' = calls, answer' = NoAnswer,
           st' \in [Ids -> Stream], \A m \in Above(i) : st'[m] = st[m],
           UNCHANGED <<kind, consumer, phase, temporary>>
    PROVE  Talking'
<1>1. /\ calls \in Seq(Ids) /\ calls # <<>> /\ i = calls[Len(calls)]
      /\ phase = "pulling" /\ answer.from \in Ids \cup {0}
      /\ CallsFit(kind, st, calls, answer.from) /\ Phases
      /\ kind \in [Ids -> AnyKind] /\ st \in [Ids -> Stream]
  BY TopFacts
<1>2. answer' = [from |-> 0, item |-> End]  BY DEF NoAnswer
<1>3. st' \in [Ids -> Stream] /\ (\A m \in Above(i) : st'[m] = st[m]) /\ i \in Main  OBVIOUS
<1>4. CallsFit(kind, st', calls, 0)
  BY ONLY <1>1, <1>3, StayFits
<1>5. CallsFit(kind', st', calls', answer'.from)  BY <1>2, <1>4
<1>6. TalkType'  BY <1>1, <1>2, <1>4 DEF TalkType
<1>7. Phases'  BY <1>1, <1>2 DEF Phases
<1> QED  BY <1>5, <1>6, <1>7 DEF Talking

(* The rest of the state.                                                    *)
LEMMA RestKept ==
    ASSUME RestType, failed' \in BOOLEAN, erred' \in BOOLEAN, dropped' \subseteq Item,
           UNCHANGED <<cancelled, consumer, phase, output, target>>
    PROVE  RestType'
BY DEF RestType

LEMMA ErrorTypes ==
    ASSUME RestType, NoError \/ Error
    PROVE  failed' \in BOOLEAN /\ erred' \in BOOLEAN
BY DEF RestType, NoError, Error

(* A stage changes and holds what it held.                                   *)
Touched(i) ==
    /\ st' \in [Ids -> Stream] /\ \A j \in Ids : j # i => st'[j] = st[j]
    /\ st'[i].closed = st[i].closed /\ st'[i].inner = st[i].inner /\ st'[i].file = st[i].file
    /\ Len(st'[i].jobs) = Len(st[i].jobs) /\ HoldsAsOne(kind[i], st'[i])

(* The stage closes from itself down and says that it is at its end.         *)
LEMMA StepClosing ==
    ASSUME IInv, NEW i, OnTop(i), Close(Closing(i)), Give(i, End), UNCHANGED dropped,
           NoError \/ Error, KeepRest
    PROVE  IInv'
<1>1. Holding /\ Talking /\ RestType  BY DEF IInv
<1>2. i \in Ids /\ kind[i] # "none"  BY <1>1, TopFacts
<1>3. UNCHANGED <<cancelled, kind, consumer, phase, output, temporary, target, leaked>>
  BY DEF KeepRest
<1>4. Holding' /\ \A m \in Above(i) : st'[m] = st[m]  BY <1>1, <1>2, <1>3, CloseHolding
<1>5. st' \in [Ids -> Stream]  BY <1>4 DEF Holding, HoldType
<1>6. Talking'  BY <1>1, <1>3, <1>4, <1>5, GiveTalking
<1>7. dropped' \subseteq Item  BY <1>1 DEF RestType
<1>8. RestType'  BY <1>1, <1>3, <1>7, ErrorTypes, RestKept
<1> QED  BY <1>4, <1>6, <1>8 DEF IInv

(* The stage gives an answer and the streams are as before.                  *)
LEMMA StepGiving ==
    ASSUME IInv, NEW i, OnTop(i), NEW item \in Item \cup {End}, Give(i, item), KeepStreams,
           dropped' \subseteq Item, NoError \/ Error, KeepRest
    PROVE  IInv'
<1>1. Holding /\ Talking /\ RestType  BY DEF IInv
<1>2. i \in Ids /\ kind[i] # "none"  BY <1>1, TopFacts
<1>3. UNCHANGED <<cancelled, kind, consumer, phase, output, temporary, target, leaked>>
      /\ UNCHANGED <<st, files, procs, watchVars>>
  BY DEF KeepRest, KeepStreams
<1>4. Holding'  BY <1>1, <1>3, KeepHolding
<1>5. st' \in [Ids -> Stream] /\ \A m \in Above(i) : st'[m] = st[m]
  BY <1>3, <1>4 DEF Holding, HoldType
<1>6. Talking'  BY <1>1, <1>3, <1>5, GiveTalking
<1>8. RestType'  BY <1>1, <1>3, ErrorTypes, RestKept
<1> QED  BY <1>4, <1>6, <1>8 DEF IInv

(* The stage changes and gives an answer.                                    *)
LEMMA StepTouchGiving ==
    ASSUME IInv, NEW i, OnTop(i), NEW item \in Item \cup {End}, Give(i, item), Touched(i),
           UNCHANGED <<files, procs>>, WatchType', WatchOpen', armed' = armed,
           dropped' \subseteq Item, NoError \/ Error, KeepRest
    PROVE  IInv'
<1>1. Holding /\ Talking /\ RestType  BY DEF IInv
<1>2. i \in Ids /\ kind[i] # "none"  BY <1>1, TopFacts
<1>3. UNCHANGED <<cancelled, kind, consumer, phase, output, temporary, target, leaked>>
  BY DEF KeepRest
<1>4. Holding'  BY <1>1, <1>2, <1>3, TouchHolding DEF Touched
<1>5. st' \in [Ids -> Stream] /\ \A m \in Above(i) : st'[m] = st[m]
  BY <1>2, AboveIsOther DEF Touched
<1>6. Talking'  BY <1>1, <1>3, <1>5, GiveTalking
<1>8. RestType'  BY <1>1, <1>3, ErrorTypes, RestKept
<1> QED  BY <1>4, <1>6, <1>8 DEF IInv

(* The stage asks and the streams are as before.                             *)
LEMMA StepAsking ==
    ASSUME IInv, NEW i \in Main, OnTop(i), NEW j \in Ids, Ask(j), KeepStreams,
           j = i - 1 \/ (j = Inner(i) /\ st[i].inner # 0), j = i - 1 => j \in Main,
           kind[j] # "none", WaitsFor(kind[i], st[i], i, j),
           dropped' \subseteq Item, NoError \/ Error, KeepRest
    PROVE  IInv'
<1>1. Holding /\ Talking /\ RestType  BY DEF IInv
<1>3. UNCHANGED <<cancelled, kind, consumer, phase, output, temporary, target, leaked>>
      /\ UNCHANGED <<st, files, procs, watchVars>>
  BY DEF KeepRest, KeepStreams
<1>4. Holding'  BY <1>1, <1>3, KeepHolding
<1>5. /\ st' \in [Ids -> Stream] /\ \A m \in Above(i) : st'[m] = st[m]
      /\ kind' \in [Ids -> AnyKind] /\ \A m \in Main : kind'[m] = kind[m]
      /\ j = i - 1 \/ (j = Inner(i) /\ st'[i].inner # 0)
      /\ kind'[j] # "none" /\ WaitsFor(kind'[i], st'[i], i, j)
  BY <1>3, <1>4 DEF Holding, HoldType
<1>6. Talking'  BY <1>1, <1>3, <1>5, AskTalking
<1>8. RestType'  BY <1>1, <1>3, ErrorTypes, RestKept
<1> QED  BY <1>4, <1>6, <1>8 DEF IInv

(* The stage changes and asks.                                               *)
LEMMA StepTouchAsking ==
    ASSUME IInv, NEW i \in Main, OnTop(i), NEW j \in Ids, Ask(j), Touched(i),
           UNCHANGED <<files, procs, watchVars>>,
           j = i - 1, j \in Main, kind[j] # "none", WaitsFor(kind[i], st'[i], i, j),
           dropped' \subseteq Item, NoError \/ Error, KeepRest
    PROVE  IInv'
<1>1. Holding /\ Talking /\ RestType  BY DEF IInv
<1>3. UNCHANGED <<cancelled, kind, consumer, phase, output, temporary, target, leaked>>
  BY DEF KeepRest
<1>4. Holding'
  <2>1. i \in Ids /\ 1 \in Ids  BY SourceIsId, IdFacts
  <2>2. st'[1].closed = st[1].closed  BY <2>1 DEF Touched
  <2>3. WatchType' /\ WatchOpen' /\ armed' = armed  BY <1>1, <1>3, <2>2, WatchKept
  <2> QED  BY <1>1, <1>3, <2>1, <2>3, TouchHolding DEF Touched
<1>5. /\ st' \in [Ids -> Stream] /\ \A m \in Above(i) : st'[m] = st[m]
      /\ kind' \in [Ids -> AnyKind] /\ \A m \in Main : kind'[m] = kind[m]
      /\ kind'[j] # "none" /\ WaitsFor(kind'[i], st'[i], i, j)
  <2>1. \A m \in Above(i) : st'[m] = st[m]  BY IdFacts DEF Touched, Above
  <2> QED  BY <1>3, <1>4, <2>1 DEF Holding, HoldType
<1>6. Talking'  BY <1>1, <1>3, <1>5, AskTalking
<1>8. RestType'  BY <1>1, <1>3, ErrorTypes, RestKept
<1> QED  BY <1>4, <1>6, <1>8 DEF IInv
-----------------------------------------------------------------------------
(* The steps of a watch.                                                     *)

Events == [kind : {"renamed", "removed", "modified", "created"}, path : Paths, old : Paths]

LEMMA EventsAreFinite == IsFiniteSet(Events)
<1> DEFINE K == {"renamed", "removed", "modified", "created"}
           D == (K \X Paths) \X Paths
           f == [c \in D |-> [kind |-> c[1][1], path |-> c[1][2], old |-> c[2]]]
<1>1. IsFiniteSet(K)
  <2>1. IsFiniteSet({}) BY FS_EmptySet
  <2>2. IsFiniteSet({} \cup {"renamed"})  BY <2>1, FS_AddElement
  <2>3. IsFiniteSet({} \cup {"renamed"} \cup {"removed"})  BY <2>2, FS_AddElement
  <2>4. IsFiniteSet({} \cup {"renamed"} \cup {"removed"} \cup {"modified"})  BY <2>3, FS_AddElement
  <2>5. IsFiniteSet({} \cup {"renamed"} \cup {"removed"} \cup {"modified"} \cup {"created"})
    BY <2>4, FS_AddElement
  <2>6. K = {} \cup {"renamed"} \cup {"removed"} \cup {"modified"} \cup {"created"}  OBVIOUS
  <2> QED  BY <2>5, <2>6
<1>2. IsFiniteSet(Paths)  BY TreeAssumption
<1> HIDE DEF K
<1>3. IsFiniteSet(K \X Paths)  BY <1>1, <1>2, FS_Product
<1>4. IsFiniteSet(D)  BY <1>2, <1>3, FS_Product
<1>5. f \in Surjection(D, Events)
  <2>1. f \in [D -> Events]  BY DEF Events, K
  <2>2. ASSUME NEW e \in Events PROVE \E c \in D : f[c] = e
    <3>1. <<<<e.kind, e.path>>, e.old>> \in D  BY DEF Events, K
    <3>2. e = [kind |-> e.kind, path |-> e.path, old |-> e.old]  BY DEF Events
    <3>3. f[<<<<e.kind, e.path>>, e.old>>] = [kind |-> e.kind, path |-> e.path, old |-> e.old]
      BY <3>1
    <3> QED  BY <3>1, <3>2, <3>3
  <2> HIDE DEF f, D
  <2> QED  BY <2>1, <2>2 DEF Surjection
<1> QED  BY ONLY <1>4, <1>5, FS_Surjection

(* The events of a comparison are a sequence.                                *)
LEMMA SetToSeqType ==
    ASSUME NEW S, IsFiniteSet(S)
    PROVE  SetToSeq(S) \in Seq(S)
<1>1. Cardinality(S) \in Nat /\ ExistsBijection(1..Cardinality(S), S)  BY FS_CardinalityType
<1>2. \E f \in [1..Cardinality(S) -> S] : IsInjective(f)
  BY <1>1 DEF ExistsBijection, Bijection, Injection
<1>3. SetToSeq(S) \in [1..Cardinality(S) -> S]  BY <1>2 DEF SetToSeq
<1> QED  BY <1>1, <1>3

LEMMA DifferenceType ==
    ASSUME NEW old \in Trees, NEW new \in Trees, NEW renamed \in Pairings(old, new)
    PROVE  SetToSeq(Difference(old, new, renamed)) \in Seq(Events)
<1>1. DOMAIN old \subseteq Paths /\ DOMAIN new \subseteq Paths  BY DEF Trees
<1>2. DOMAIN renamed \subseteq DOMAIN old /\ \A p \in DOMAIN renamed : renamed[p] \in DOMAIN new
  BY DEF Pairings
<1>3. Difference(old, new, renamed) \subseteq Events
  BY <1>1, <1>2 DEF Difference, Event, Events
<1>4. IsFiniteSet(Difference(old, new, renamed))  BY <1>3, EventsAreFinite, FS_Subset
<1>5. SetToSeq(Difference(old, new, renamed)) \in Seq(Difference(old, new, renamed))
  BY <1>4, SetToSeqType
<1> QED  BY <1>3, <1>5

(* The types of a watch, with the names they have here.                      *)
LEMMA WatchTypes ==
    WatchType <=>
        /\ tree \in Trees /\ seen \in Trees
        /\ armed \in BOOLEAN /\ wake \in BOOLEAN /\ missed \in BOOLEAN
        /\ step \in {"new", "scanned", "waiting", "woken", "stale", "closed"}
        /\ changes \in 0..MaxChanges
        /\ events \in Seq(Events)
        /\ reported \subseteq Paths
BY DEF WatchType, Events

(* The runtime's own steps keep the types, and arm it at most once.          *)
LEMMA WorkKeeps ==
    ASSUME WatchType, WatchOpen, kind[1] = "watch", ~st[1].closed, WatchWorks
    PROVE  /\ WatchType' /\ step' \in {"scanned", "waiting", "woken", "stale"}
           /\ UNCHANGED <<failed, cancelled, procs>>
           /\ \/ armed' = armed /\ files' = files /\ (armed => step' \in {"waiting", "woken", "stale"})
              \/ ~armed /\ armed' /\ files' = files + 1 /\ FileFree /\ step' = "waiting"
<1>1. CASE FirstScan
  <2>1. ~armed  BY <1>1 DEF WatchOpen, FirstScan
  <2>2. /\ seen' = tree /\ reported' = DOMAIN tree /\ step' = "scanned"
        /\ UNCHANGED <<failed, cancelled, files, procs, tree, armed, wake, events, changes, missed>>
    BY <1>1 DEF FirstScan, runtimeVars
  <2>3. DOMAIN tree \subseteq Paths  BY DEF WatchType, Trees
  <2> QED  BY <2>1, <2>2, <2>3 DEF WatchType
<1>2. CASE Open
  <2>1. ~armed  BY <1>2 DEF WatchOpen, Open
  <2>2. /\ FileFree /\ armed' = TRUE /\ wake' = FALSE /\ files' = files + 1 /\ step' = "waiting"
        /\ UNCHANGED <<failed, cancelled, procs, tree, seen, events, changes, missed, reported>>
    BY <1>2 DEF Open
  <2> QED  BY <2>1, <2>2 DEF WatchType
<1>3. CASE Wake
  <2>1. /\ wake' = FALSE /\ step' = "woken"
        /\ UNCHANGED <<failed, cancelled, files, procs, tree, seen, armed, events, changes, missed, reported>>
    BY <1>3 DEF Wake, runtimeVars
  <2> QED  BY <2>1 DEF WatchType
<1>4. CASE Rescan
  <2>1. /\ seen' = tree /\ step' = "stale"
        /\ UNCHANGED <<failed, cancelled, files, procs, tree, armed, wake, changes, missed, reported>>
    BY <1>4 DEF Rescan, runtimeVars
  <2>2. PICK renamed \in Pairings(seen, tree) : events' = SetToSeq(Difference(seen, tree, renamed))
    BY <1>4 DEF Rescan
  <2>3. seen \in Trees /\ tree \in Trees  BY DEF WatchType
  <2>4. events' \in Seq(Events)  BY <2>2, <2>3, DifferenceType
  <2> QED  BY <2>1, <2>4 DEF WatchType, Events
<1>5. CASE Rebuild
  <2>1. /\ missed' \in BOOLEAN /\ wake' = FALSE /\ step' = "waiting"
        /\ UNCHANGED <<failed, cancelled, files, procs, tree, seen, armed, events, changes, reported>>
    BY <1>5 DEF Rebuild, runtimeVars, WatchType
  <2> QED  BY <2>1 DEF WatchType
<1> QED  BY <1>1, <1>2, <1>3, <1>4, <1>5 DEF WatchWorks

LEMMA EventKeeps ==
    ASSUME WatchType, WatchOpen, Ready, GiveEvent
    PROVE  WatchType' /\ armed' = armed /\ step' = step
<1>1. /\ events' = Tail(events) /\ reported' = After(reported, Head(events))
      /\ UNCHANGED <<tree, seen, armed, wake, step, changes, missed>>
  BY DEF GiveEvent
<1>2. events \in Seq(Events) /\ events # <<>>  BY DEF Ready, WatchType, Events
<1>3. events' \in Seq(Events) /\ Head(events) \in Events  BY <1>1, <1>2
<1>4. reported' \subseteq Paths  BY <1>1, <1>3 DEF After, WatchType, Events
<1> QED  BY <1>1, <1>3, <1>4 DEF WatchType, Events
-----------------------------------------------------------------------------
(* The actions of the sources.                                               *)

LEMMA RefuseKeeps ==
    ASSUME IInv, NEW i \in Ids, Refuse(i)
    PROVE  IInv'
<1>1. /\ OnTop(i) /\ KeepStreams /\ Give(i, End) /\ UNCHANGED dropped /\ KeepRest
      /\ NoError \/ Error
  BY DEF Refuse, Asked, OnTop, Step
<1>2. dropped' \subseteq Item  BY <1>1 DEF IInv, RestType
<1>3. End \in Item \cup {End}  OBVIOUS
<1> QED  BY <1>1, <1>2, <1>3, StepGiving

(* What an entered stage is.                                                 *)
LEMMA EnterFacts ==
    ASSUME IInv, NEW i \in Ids, Entered(i)
    PROVE  /\ Holding /\ Talking /\ RestType
           /\ OnTop(i) /\ kind[i] # "none" /\ ~st[i].closed /\ st[i].busy = "no" /\ KeepRest
           /\ answer = NoAnswer
           /\ st[i] \in Stream /\ HoldsAsOne(kind[i], st[i]) /\ Fit(kind, st)
           /\ kind \in [Ids -> AnyKind] /\ st \in [Ids -> Stream] /\ dropped \subseteq Item
           /\ i \notin Main => i - Stages \in Main /\ st[i - Stages].inner # 0
<1>1. Holding /\ Talking /\ RestType  BY DEF IInv
<1>2. /\ OnTop(i) /\ kind[i] # "none" /\ ~st[i].closed /\ st[i].busy = "no" /\ KeepRest
      /\ answer = NoAnswer
  BY DEF Entered, Asked, OnTop, Step
<1>3. dropped \subseteq Item  BY <1>1 DEF RestType
<1> QED  BY <1>1, <1>2, <1>3, TopFacts

LEMMA ItemOfType ==
    ASSUME NEW i \in Ids, st \in [Ids -> Stream], st[i].left > 0
    PROVE  ItemOf(i) \in Item
<1>1. st[i] \in Stream  OBVIOUS
<1>2. st[i].left \in 0..Items /\ st[i].tag \in Item /\ Items \in Nat  BY <1>1, IdFacts DEF Stream
<1> QED  BY <1>2 DEF ItemOf, Item

(* A closing end and a failure, as every action has them.                    *)
LEMMA FinishKeeps ==
    ASSUME IInv, NEW i, OnTop(i), Finish(i) \/ FailClosed(i), KeepRest
    PROVE  IInv'
<1>1. Close(Closing(i)) /\ Give(i, End) /\ UNCHANGED dropped /\ (NoError \/ Error)
  BY DEF Finish, FailClosed
<1> QED  BY <1>1, StepClosing

LEMMA FailOpenKeeps ==
    ASSUME IInv, NEW i, OnTop(i), FailOpen(i), KeepRest
    PROVE  IInv'
<1>1. /\ KeepStreams /\ Give(i, End) /\ UNCHANGED dropped /\ (NoError \/ Error)
  BY DEF FailOpen
<1>2. dropped' \subseteq Item  BY <1>1 DEF IInv, RestType
<1>3. End \in Item \cup {End}  OBVIOUS
<1> QED  BY <1>1, <1>2, <1>3, StepGiving

(* Where the watch is left alone by a stage that changes.                    *)
LEMMA TouchedWatch ==
    ASSUME Holding, NEW i \in Ids, Touched(i), UNCHANGED watchVars, UNCHANGED kind
    PROVE  WatchType' /\ WatchOpen' /\ armed' = armed
<1>1. st'[1].closed = st[1].closed  BY SourceIsId DEF Touched
<1> QED  BY <1>1, WatchKept

LEMMA NextInMemoryKeeps ==
    ASSUME IInv, NEW i \in Ids, NextInMemory(i)
    PROVE  IInv'
<1>1. Entered(i) /\ kind[i] \in {"list", "processes", "every"}  BY DEF NextInMemory
<1>2. /\ Holding /\ OnTop(i) /\ KeepRest /\ st[i] \in Stream /\ HoldsAsOne(kind[i], st[i])
      /\ st \in [Ids -> Stream] /\ dropped \subseteq Item
  BY <1>1, EnterFacts
<1>3. CASE /\ st[i].left > 0
           /\ st' = [st EXCEPT ![i].left = @ - 1]
           /\ Give(i, ItemOf(i)) /\ NoError
           /\ UNCHANGED <<files, procs, watchVars, dropped>>
  <2>1. ItemOf(i) \in Item \cup {End}  BY <1>2, <1>3, ItemOfType
  <2>2. st[i].left - 1 \in 0..Items  BY <1>2, <1>3, IdFacts DEF Stream
  <2>3. [st[i] EXCEPT !.left = st[i].left - 1] \in Stream  BY <1>2, <2>2 DEF Stream
  <2>4. Touched(i)
    <3>1. /\ st' \in [Ids -> Stream] /\ \A j \in Ids : j # i => st'[j] = st[j]
          /\ st'[i] = [st[i] EXCEPT !.left = st[i].left - 1]
      BY <1>2, <1>3, <2>3
    <3>2. /\ st'[i].closed = st[i].closed /\ st'[i].inner = st[i].inner /\ st'[i].file = st[i].file
          /\ st'[i].jobs = st[i].jobs /\ st'[i].cursor = st[i].cursor /\ st'[i].busy = st[i].busy
      BY <1>2, <3>1 DEF Stream
    <3> QED  BY <1>2, <3>1, <3>2 DEF Touched, HoldsAsOne
  <2>5. WatchType' /\ WatchOpen' /\ armed' = armed
    BY <1>2, <1>3, <2>4, TouchedWatch DEF KeepRest
  <2>6. dropped' \subseteq Item /\ (NoError \/ Error) /\ UNCHANGED <<files, procs>>  BY <1>2, <1>3
  <2> QED  BY <1>2, <1>3, <2>1, <2>4, <2>5, <2>6, StepTouchGiving
<1>4. CASE Finish(i) \/ FailClosed(i)
  BY <1>2, <1>4, FinishKeeps
<1> QED  BY <1>3, <1>4 DEF NextInMemory

LEMMA NextInDatabaseKeeps ==
    ASSUME IInv, NEW i \in Ids, NextInDatabase(i)
    PROVE  IInv'
<1>1. Entered(i) /\ kind[i] = "database"  BY DEF NextInDatabase
<1>2. /\ Holding /\ OnTop(i) /\ KeepRest /\ st[i] \in Stream /\ HoldsAsOne(kind[i], st[i])
      /\ st \in [Ids -> Stream] /\ dropped \subseteq Item /\ ~st[i].closed
  BY <1>1, EnterFacts
<1>3. CASE /\ st[i].left > 0
           /\ st' = [st EXCEPT ![i].left = @ - 1, ![i].cursor = TRUE]
           /\ Give(i, ItemOf(i)) /\ NoError
           /\ UNCHANGED <<files, procs, watchVars, dropped>>
  <2>1. ItemOf(i) \in Item \cup {End}  BY <1>2, <1>3, ItemOfType
  <2>2. st[i].left - 1 \in 0..Items  BY <1>2, <1>3, IdFacts DEF Stream
  <2>3. [st[i] EXCEPT !.left = st[i].left - 1, !.cursor = TRUE] \in Stream  BY <1>2, <2>2 DEF Stream
  <2>4. Touched(i)
    <3>1. /\ st' \in [Ids -> Stream] /\ \A j \in Ids : j # i => st'[j] = st[j]
          /\ st'[i] = [st[i] EXCEPT !.left = st[i].left - 1, !.cursor = TRUE]
      BY <1>2, <1>3, <2>3
    <3>2. /\ st'[i].closed = st[i].closed /\ st'[i].inner = st[i].inner /\ st'[i].file = st[i].file
          /\ st'[i].jobs = st[i].jobs /\ st'[i].busy = st[i].busy
      BY <1>2, <3>1 DEF Stream
    <3> QED  BY <1>1, <1>2, <3>1, <3>2 DEF Touched, HoldsAsOne
  <2>5. WatchType' /\ WatchOpen' /\ armed' = armed
    BY <1>2, <1>3, <2>4, TouchedWatch DEF KeepRest
  <2>6. dropped' \subseteq Item /\ (NoError \/ Error) /\ UNCHANGED <<files, procs>>  BY <1>2, <1>3
  <2> QED  BY <1>2, <1>3, <2>1, <2>4, <2>5, <2>6, StepTouchGiving
<1>4. CASE Finish(i) \/ FailClosed(i)
  BY <1>2, <1>4, FinishKeeps
<1> QED  BY <1>3, <1>4 DEF NextInDatabase

LEMMA TimerCancelledKeeps ==
    ASSUME IInv, NEW i \in Ids, TimerCancelled(i)
    PROVE  IInv'
<1>1. OnTop(i) /\ FailClosed(i) /\ KeepRest  BY DEF TimerCancelled, Asked, OnTop, Step
<1> QED  BY <1>1, FinishKeeps

LEMMA NextInFileKeeps ==
    ASSUME IInv, NEW i \in Ids, NextInFile(i)
    PROVE  IInv'
<1>1. Entered(i) /\ kind[i] \in WithFile  BY DEF NextInFile
<1>2. /\ Holding /\ Talking /\ RestType
      /\ OnTop(i) /\ KeepRest /\ st[i] \in Stream /\ HoldsAsOne(kind[i], st[i])
      /\ st \in [Ids -> Stream] /\ dropped \subseteq Item /\ ~st[i].closed
      /\ i \notin Main => i - Stages \in Main /\ st[i - Stages].inner # 0
  BY <1>1, EnterFacts
<1>3. CASE /\ st[i].file \/ FileFree
           /\ st[i].left > 0
           /\ st' = [st EXCEPT ![i].file = TRUE, ![i].left = @ - 1]
           /\ files' = IF st[i].file THEN files ELSE files + 1
           /\ UNCHANGED <<procs, watchVars, dropped>>
           /\ \/ Give(i, ItemOf(i)) /\ NoError
              \/ kind[i] = "files" /\ Give(i, End) /\ Error
  <2>1. ItemOf(i) \in Item  BY <1>2, <1>3, ItemOfType
  <2>2. st[i].left - 1 \in 0..Items  BY <1>2, <1>3, IdFacts DEF Stream
  <2>3. [st[i] EXCEPT !.file = TRUE, !.left = st[i].left - 1] \in Stream  BY <1>2, <2>2 DEF Stream
  <2>4. /\ st' \in [Ids -> Stream] /\ \A j \in Ids : j # i => st'[j] = st[j]
        /\ st'[i] = [st[i] EXCEPT !.file = TRUE, !.left = st[i].left - 1]
    BY <1>2, <1>3, <2>3
  <2>5. /\ st'[i].closed = st[i].closed /\ st'[i].inner = st[i].inner /\ st'[i].file
        /\ st'[i].jobs = st[i].jobs /\ st'[i].busy = st[i].busy /\ st'[i].cursor = st[i].cursor
        /\ st'[i].file = TRUE
    BY <1>2, <2>4 DEF Stream
  <2>6. HoldsAsOne(kind[i], st'[i])  BY <1>1, <1>2, <2>5 DEF HoldsAsOne
  <2>7. UNCHANGED <<cancelled, kind, consumer, phase, output, temporary, target, leaked>>
    BY <1>2 DEF KeepRest
  <2>8. WatchType' /\ WatchOpen' /\ armed' = armed
    <3>1. st'[1].closed = st[1].closed  BY <2>4, <2>5, SourceIsId
    <3> QED  BY <1>2, <1>3, <2>7, <3>1, WatchKept
  <2>9. Holding'
    <3>1. CASE st[i].file
      <4>1. st[i].file = TRUE  BY <1>2, <3>1 DEF Stream
      <4>2. Touched(i) /\ files' = files  BY <1>3, <2>4, <2>5, <2>6, <3>1, <4>1 DEF Touched
      <4> QED  BY <1>2, <1>3, <2>7, <2>8, <4>2, TouchHolding DEF Touched
    <3>2. CASE ~st[i].file
      <4>1. FileFree /\ files' = files + 1  BY <1>3, <3>2
      <4>2. i = 1 => ~armed
        <5>1. kind[i] # "watch"  BY <1>1 DEF WithFile
        <5> QED  BY <1>2, <5>1, BookFacts DEF WatchOpen
      <4>3. Len(st'[i].jobs) = Len(st[i].jobs)  BY <2>5
      <4>4. ~(st[i].file \/ (i = 1 /\ armed)) /\ (st'[i].file \/ (i = 1 /\ armed'))
        BY <2>5, <3>2, <4>2
      <4>5. /\ st'[i].file => st[i].file \/ i \in Main \/ st[i - Stages].inner # 0
            /\ i # 1 => armed' = armed
            /\ UNCHANGED <<kind, procs, leaked, temporary>>
        BY <1>2, <1>3, <2>7, <2>8
      <4>6. i \in Ids /\ Holding  BY <1>2
      <4> QED
        BY ONLY <2>4, <2>5, <2>6, <2>8, <4>1, <4>3, <4>4, <4>5, <4>6, OpenHolding
    <3> QED  BY <3>1, <3>2
  <2>10. \A m \in Above(i) : st'[m] = st[m]  BY <2>4, AboveIsOther
  <2>11. PICK item \in Item \cup {End} : Give(i, item)  BY <1>3, <2>1
  <2>12. Talking'
    <3>1. UNCHANGED <<kind, consumer, phase, temporary>> /\ st' \in [Ids -> Stream]  BY <2>4, <2>7
    <3> QED  BY ONLY <1>2, <2>10, <2>11, <3>1, GiveTalking
  <2>13. RestType'
    <3>1. dropped' \subseteq Item /\ (NoError \/ Error)  BY <1>2, <1>3
    <3> QED  BY <1>2, <2>7, <3>1, ErrorTypes, RestKept
  <2> QED  BY <2>9, <2>12, <2>13 DEF IInv
<1>4. CASE Finish(i) \/ FailClosed(i)
  BY <1>2, <1>4, FinishKeeps
<1> QED  BY <1>3, <1>4 DEF NextInFile
LEMMA WatchIsFirst ==
    ASSUME Fit(kind, st), NEW i \in Ids, kind[i] = "watch"
    PROVE  i = 1
<1>1. CASE i \in Main  BY <1>1 DEF Fit, KindsFit, StageKinds
<1>2. CASE i \notin Main
  <2>1. i - Stages \in Main /\ Inner(i - Stages) = i  BY <1>2, IdFacts
  <2> QED  BY <2>1 DEF Fit, KindsFit
<1> QED  BY <1>1, <1>2

LEMMA NextWatchKeeps ==
    ASSUME IInv, NEW i \in Ids, NextWatch(i)
    PROVE  IInv'
<1>1. OnTop(i) /\ kind[i] = "watch" /\ KeepRest /\ answer = NoAnswer
  BY DEF NextWatch, Asked, OnTop, Step
<1>2. Holding /\ Talking /\ RestType  BY DEF IInv
<1>3. /\ st[i] \in Stream /\ HoldsAsOne(kind[i], st[i]) /\ Fit(kind, st)
      /\ st \in [Ids -> Stream]
  BY <1>1, <1>2, TopFacts
<1>4. i = 1 /\ i \in Main  BY <1>1, <1>3, WatchIsFirst, SourceIsId
<1>5. UNCHANGED <<cancelled, kind, consumer, phase, output, temporary, target, leaked>>
  BY <1>1 DEF KeepRest
<1>6. WatchType /\ WatchOpen /\ dropped \subseteq Item  BY <1>2, BookFacts DEF RestType
<1>7. CASE /\ Ready /\ st[i].left > 0
           /\ GiveEvent
           /\ st' = [st EXCEPT ![i].left = @ - 1, ![i].busy = "no"]
           /\ Give(i, ItemOf(i)) /\ NoError
           /\ UNCHANGED <<files, procs, dropped>>
  <2>1. ItemOf(i) \in Item \cup {End}  BY <1>3, <1>7, ItemOfType
  <2>2. st[i].left - 1 \in 0..Items  BY <1>3, <1>7, IdFacts DEF Stream
  <2>3. [st[i] EXCEPT !.left = st[i].left - 1, !.busy = "no"] \in Stream  BY <1>3, <2>2 DEF Stream
  <2>4. /\ st' \in [Ids -> Stream] /\ \A j \in Ids : j # i => st'[j] = st[j]
        /\ st'[i] = [st[i] EXCEPT !.left = st[i].left - 1, !.busy = "no"]
    BY <1>3, <1>7, <2>3
  <2>5. /\ st'[i].closed = st[i].closed /\ st'[i].inner = st[i].inner /\ st'[i].file = st[i].file
        /\ st'[i].jobs = st[i].jobs /\ st'[i].cursor = st[i].cursor /\ st'[i].busy = "no"
    BY <1>3, <2>4 DEF Stream
  <2>6. Touched(i)  BY <1>3, <2>4, <2>5 DEF Touched, HoldsAsOne
  <2>7. WatchType' /\ armed' = armed /\ step' = step  BY <1>6, <1>7, EventKeeps
  <2>8. WatchOpen'  BY <1>4, <1>5, <1>6, <2>5, <2>7 DEF WatchOpen
  <2>9. dropped' \subseteq Item /\ (NoError \/ Error) /\ UNCHANGED <<files, procs>>
    BY <1>6, <1>7
  <2>10. Give(i, ItemOf(i)) /\ IInv  BY <1>7
  <2> QED  BY ONLY <1>1, <2>1, <2>6, <2>7, <2>8, <2>9, <2>10, StepTouchGiving
<1>8. CASE /\ WatchWorks
           /\ st' = [st EXCEPT ![i].busy = "wait"]
           /\ UNCHANGED <<procs, calls, answer, dropped, erred>>
  <2>1. ~st[1].closed
    <3>1. step # "closed"
      BY <1>8 DEF WatchWorks, FirstScan, Open, Wake, Rescan, Rebuild
    <3> QED  BY <1>1, <1>4, <1>6, <3>1 DEF WatchOpen
  <2>2. /\ WatchType' /\ step' \in {"scanned", "waiting", "woken", "stale"}
        /\ UNCHANGED <<failed, cancelled, procs>>
        /\ \/ armed' = armed /\ files' = files /\ (armed => step' \in {"waiting", "woken", "stale"})
           \/ ~armed /\ armed' /\ files' = files + 1 /\ FileFree /\ step' = "waiting"
    BY <1>1, <1>4, <1>6, <1>8, <2>1, WorkKeeps
  <2>3. [st[i] EXCEPT !.busy = "wait"] \in Stream  BY <1>3 DEF Stream
  <2>4. /\ st' \in [Ids -> Stream] /\ \A j \in Ids : j # i => st'[j] = st[j]
        /\ st'[i] = [st[i] EXCEPT !.busy = "wait"]
    BY <1>3, <1>8, <2>3
  <2>5. /\ st'[i].closed = st[i].closed /\ st'[i].inner = st[i].inner /\ st'[i].file = st[i].file
        /\ st'[i].jobs = st[i].jobs /\ st'[i].cursor = st[i].cursor /\ st'[i].busy = "wait"
    BY <1>3, <2>4 DEF Stream
  <2>6. Touched(i)  BY <1>3, <2>4, <2>5 DEF Touched, HoldsAsOne
  <2>7. WatchOpen'
    <3>1. ~st'[1].closed  BY <1>4, <2>1, <2>5
    <3> QED  BY <1>1, <1>4, <1>5, <2>2, <3>1 DEF WatchOpen
  <2>8. Holding'
    <3>1. CASE armed' = armed /\ files' = files
      BY <1>2, <1>5, <2>2, <2>6, <2>7, <3>1, TouchHolding DEF Touched
    <3>2. CASE ~armed /\ armed' /\ files' = files + 1 /\ FileFree
      <4>1. /\ ~(st[i].file \/ (i = 1 /\ armed)) /\ (st'[i].file \/ (i = 1 /\ armed'))
            /\ st'[i].file => st[i].file \/ i \in Main \/ st[i - Stages].inner # 0
            /\ i # 1 => armed' = armed
            /\ UNCHANGED <<kind, procs, leaked, temporary>>
        BY <1>1, <1>3, <1>4, <1>5, <2>2, <3>2 DEF HoldsAsOne, WithFile
      <4>2. /\ st'[i].closed = st[i].closed /\ st'[i].inner = st[i].inner
            /\ Len(st'[i].jobs) = Len(st[i].jobs) /\ HoldsAsOne(kind[i], st'[i])
            /\ st' \in [Ids -> Stream] /\ \A j \in Ids : j # i => st'[j] = st[j]
        BY <2>6 DEF Touched
      <4>3. i \in Ids /\ files' = files + 1 /\ FileFree /\ WatchType'  BY <2>2, <3>2
      <4> QED  BY ONLY <1>2, <2>7, <4>1, <4>2, <4>3, OpenHolding
    <3> QED  BY <2>2, <3>1, <3>2
  <2>9. \A m \in Above(i) : st'[m] = st[m]  BY <2>4, AboveIsOther
  <2>10. Talking'
    <3>1. UNCHANGED <<kind, consumer, phase, temporary>> /\ st' \in [Ids -> Stream]
          /\ calls' = calls /\ answer' = NoAnswer
      BY <1>1, <1>5, <1>8, <2>4
    <3> QED  BY ONLY <1>1, <1>2, <1>4, <2>9, <3>1, StayTalking
  <2>11. RestType'
    <3>1. dropped' \subseteq Item /\ failed' \in BOOLEAN /\ erred' \in BOOLEAN
      BY <1>2, <1>8, <2>2 DEF RestType
    <3> QED  BY <1>2, <1>5, <3>1, RestKept
  <2> QED  BY <2>8, <2>10, <2>11 DEF IInv
<1>9. CASE FailClosed(i)  BY <1>1, <1>9, FinishKeeps
<1> QED  BY <1>7, <1>8, <1>9 DEF NextWatch

LEMMA WatchBreaksKeeps ==
    ASSUME IInv, NEW i \in Ids, WatchBreaks(i)
    PROVE  IInv'
<1>1. OnTop(i) /\ FailClosed(i) /\ KeepRest  BY DEF WatchBreaks, Asked, OnTop, Step
<1> QED  BY <1>1, FinishKeeps

-----------------------------------------------------------------------------
(* The actions of the stages that ask for one item after the other.          *)

(* A stage has a source below it, and no inner stream unless it is flat_map  *)
(* or on_error.                                                              *)
LEMMA StageFacts ==
    ASSUME Fit(kind, st), NEW i \in Ids, kind[i] \in StageKinds
    PROVE  /\ i \in Main /\ i # 1 /\ i - 1 \in Main /\ i - 1 \in Ids /\ kind[i - 1] # "none"
           /\ st[i].inner # 0 => /\ kind[i] \in {"flat_map", "on_error"} /\ st[i].inner = Inner(i)
                                 /\ kind[Inner(i)] # "none"
           /\ i - 1 # Inner(i) /\ Inner(i - 1) # Inner(i)
<1>1. i \in Main
  <2>1. SUFFICES ASSUME i \notin Main PROVE FALSE  OBVIOUS
  <2>2. i - Stages \in Main /\ Inner(i - Stages) = i  BY <2>1, IdFacts
  <2> QED  BY <2>2 DEF Fit, KindsFit, StageKinds
<1>2. i # 1  BY DEF Fit, KindsFit, StageKinds, SourceKinds
<1>3. i - 1 \in Main /\ i - 1 \in 1..i  BY <1>1, <1>2, PipelineAssumption DEF Main
<1>4. kind[i - 1] # "none"
  <2>1. kind[i] # "none"  BY DEF StageKinds
  <2> QED  BY <1>1, <1>3, <2>1 DEF Fit, KindsFit
<1>5. i - 1 \in Ids /\ i - 1 # Inner(i) /\ Inner(i - 1) # Inner(i)
  BY <1>1, <1>3, IdFacts DEF Inner
<1>6. st[i].inner # 0 => /\ kind[i] \in {"flat_map", "on_error"} /\ st[i].inner = Inner(i)
                         /\ kind[Inner(i)] # "none"
  BY DEF Fit, Nested
<1> QED  BY <1>1, <1>2, <1>3, <1>4, <1>5, <1>6

(* What a stage is that is told what its source has given.                   *)
LEMMA ToldFacts ==
    ASSUME IInv, NEW i \in Ids, Told(i, i - 1), kind[i] \in StageKinds
    PROVE  /\ Holding /\ Talking /\ RestType
           /\ OnTop(i) /\ i \in Main /\ i # 1 /\ i - 1 \in Main /\ i - 1 \in Ids
           /\ kind[i] # "none" /\ kind[i - 1] # "none"
           /\ WaitsFor(kind[i], st[i], i, i - 1) /\ st[i].inner = 0 /\ ~st[i].closed
           /\ answer.item \in Item \cup {End}
           /\ st[i] \in Stream /\ HoldsAsOne(kind[i], st[i]) /\ Fit(kind, st)
           /\ kind \in [Ids -> AnyKind] /\ st \in [Ids -> Stream] /\ dropped \subseteq Item
<1>1. Holding /\ Talking /\ RestType  BY DEF IInv
<1>2. OnTop(i) /\ (answer.from = i - 1 \/ answer.from = Inner(i - 1))
  BY DEF Told, OnTop
<1>3. /\ kind[i] # "none" /\ answer.from \in Ids \cup {0} /\ answer.item \in Item \cup {End}
      /\ answer.from # 0 => WaitsFor(kind[i], st[i], i, answer.from)
      /\ st[i] \in Stream /\ HoldsAsOne(kind[i], st[i]) /\ Fit(kind, st)
      /\ kind \in [Ids -> AnyKind] /\ st \in [Ids -> Stream]
  BY <1>1, <1>2, TopFacts
<1>4. /\ i \in Main /\ i # 1 /\ i - 1 \in Main /\ i - 1 \in Ids /\ kind[i - 1] # "none"
      /\ i - 1 # Inner(i) /\ Inner(i - 1) # Inner(i)
  BY <1>3, StageFacts
<1>5. answer.from # 0 /\ answer.from # Inner(i)
  <2>1. i - 1 # 0 /\ Inner(i - 1) # 0  BY <1>4, IdFacts
  <2> QED  BY <1>2, <1>4, <2>1
<1>6. WaitsFor(kind[i], st[i], i, answer.from)  BY <1>3, <1>5
<1>7. st[i].inner = 0 /\ ~st[i].closed  BY <1>5, <1>6 DEF WaitsFor
<1>8. WaitsFor(kind[i], st[i], i, i - 1)  BY <1>6, <1>7 DEF WaitsFor
<1>9. dropped \subseteq Item  BY <1>1 DEF RestType
<1> QED  BY <1>1, <1>2, <1>3, <1>4, <1>7, <1>8, <1>9
LEMMA AskSourceKeeps ==
    ASSUME IInv, NEW i \in Main, AskSource(i)
    PROVE  IInv'
<1>1. i \in Ids /\ Entered(i) /\ kind[i] \in PerItem /\ kind[i] \in StageKinds
  BY IdFacts DEF AskSource, PerItem, StageKinds
<1>2. /\ Holding /\ OnTop(i) /\ KeepRest /\ ~st[i].closed /\ st[i].busy = "no"
      /\ st[i] \in Stream /\ Fit(kind, st) /\ dropped \subseteq Item
  BY <1>1, EnterFacts
<1>3. CASE Finish(i)  BY <1>2, <1>3, FinishKeeps
<1>4. CASE /\ ~(kind[i] = "take" /\ st[i].left = 0)
           /\ Ask(i - 1) /\ KeepStreams /\ NoError /\ UNCHANGED dropped
  <2>1. i - 1 \in Main /\ i - 1 \in Ids /\ kind[i - 1] # "none" /\ st[i].inner = 0
    BY <1>1, <1>2, StageFacts DEF PerItem
  <2>2. kind[i] = "take" => st[i].left > 0  BY <1>2, <1>4, IdFacts DEF Stream
  <2>3. WaitsFor(kind[i], st[i], i, i - 1)  BY <1>1, <1>2, <2>1, <2>2 DEF WaitsFor
  <2>4. dropped' \subseteq Item /\ (NoError \/ Error)  BY <1>2, <1>4
  <2>5. i \in Main /\ Ask(i - 1) /\ KeepStreams /\ IInv  BY <1>4
  <2> QED  BY ONLY <1>2, <2>1, <2>3, <2>4, <2>5, StepAsking
<1> QED  BY <1>3, <1>4 DEF AskSource

LEMMA PassItemKeeps ==
    ASSUME IInv, NEW i \in Main, PassItem(i)
    PROVE  IInv'
<1>1. /\ i \in Ids /\ Told(i, i - 1) /\ kind[i] \in PerItem /\ kind[i] \in StageKinds /\ KeepRest
      /\ Give(i, answer.item)
      /\ NoError /\ UNCHANGED <<files, procs, watchVars, dropped>>
      /\ st' = [st EXCEPT ![i].left = IF kind[i] = "take" THEN @ - 1 ELSE @,
                          ![i].started = TRUE, ![i].held = End]
  BY IdFacts DEF PassItem, PerItem, StageKinds, Step
<1>2. /\ Holding /\ Talking /\ OnTop(i) /\ WaitsFor(kind[i], st[i], i, i - 1)
      /\ answer.item \in Item \cup {End}
      /\ st[i] \in Stream /\ HoldsAsOne(kind[i], st[i])
      /\ st \in [Ids -> Stream] /\ dropped \subseteq Item
  BY <1>1, ToldFacts
<1> DEFINE left == IF kind[i] = "take" THEN st[i].left - 1 ELSE st[i].left
<1>3. left \in 0..Items  BY <1>2, IdFacts DEF Stream, WaitsFor
<1>4. [st[i] EXCEPT !.left = left, !.started = TRUE, !.held = End] \in Stream
  BY <1>2, <1>3 DEF Stream
<1>5. /\ st' \in [Ids -> Stream] /\ \A j \in Ids : j # i => st'[j] = st[j]
      /\ st'[i] = [st[i] EXCEPT !.left = left, !.started = TRUE, !.held = End]
  BY <1>1, <1>2, <1>4
<1>6. /\ st'[i].closed = st[i].closed /\ st'[i].inner = st[i].inner /\ st'[i].file = st[i].file
      /\ st'[i].jobs = st[i].jobs /\ st'[i].cursor = st[i].cursor /\ st'[i].busy = st[i].busy
  BY <1>2, <1>5 DEF Stream
<1>7. Touched(i)  BY <1>2, <1>5, <1>6 DEF Touched, HoldsAsOne
<1>8. WatchType' /\ WatchOpen' /\ armed' = armed
  BY <1>1, <1>2, <1>7, TouchedWatch DEF KeepRest
<1>9. dropped' \subseteq Item /\ (NoError \/ Error) /\ UNCHANGED <<files, procs>>  BY <1>1, <1>2
<1>10. IInv  OBVIOUS
<1> QED  BY ONLY <1>1, <1>2, <1>7, <1>8, <1>9, <1>10, StepTouchGiving

LEMMA DropItemKeeps ==
    ASSUME IInv, NEW i \in Main, DropItem(i)
    PROVE  IInv'
<1>1. /\ i \in Ids /\ Told(i, i - 1) /\ kind[i] \in PerItem \ {"take"} /\ kind[i] \in StageKinds
      /\ KeepRest /\ answer.item # End /\ Ask(i - 1) /\ NoError
      /\ kind[i] = "skip" => st[i].left > 0
      /\ dropped' = dropped \cup {answer.item} /\ UNCHANGED <<files, procs, watchVars>>
      /\ st' = [st EXCEPT ![i].left = IF kind[i] = "skip" THEN @ - 1 ELSE @,
                        ![i].held = IF kind[i] = "parse_csv" /\ st[i].started
                                      THEN answer.item ELSE End,
                        ![i].started = TRUE]
  BY IdFacts DEF DropItem, PerItem, StageKinds, Step, Drop
<1>2. /\ Holding /\ Talking /\ OnTop(i) /\ WaitsFor(kind[i], st[i], i, i - 1)
      /\ answer.item \in Item \cup {End} /\ i - 1 \in Main /\ i - 1 \in Ids /\ kind[i - 1] # "none"
      /\ st[i] \in Stream /\ HoldsAsOne(kind[i], st[i])
      /\ st \in [Ids -> Stream] /\ dropped \subseteq Item
  BY <1>1, ToldFacts
<1> DEFINE left == IF kind[i] = "skip" THEN st[i].left - 1 ELSE st[i].left
           held == IF kind[i] = "parse_csv" /\ st[i].started THEN answer.item ELSE End
<1>3. left \in 0..Items /\ held \in Item \cup {End}  BY <1>1, <1>2, IdFacts DEF Stream
<1>4. [st[i] EXCEPT !.left = left, !.held = held, !.started = TRUE] \in Stream
  BY <1>2, <1>3 DEF Stream
<1>5. /\ st' \in [Ids -> Stream] /\ \A j \in Ids : j # i => st'[j] = st[j]
      /\ st'[i] = [st[i] EXCEPT !.left = left, !.held = held, !.started = TRUE]
  BY <1>1, <1>2, <1>4
<1>6. /\ st'[i].closed = st[i].closed /\ st'[i].inner = st[i].inner /\ st'[i].file = st[i].file
      /\ st'[i].jobs = st[i].jobs /\ st'[i].cursor = st[i].cursor /\ st'[i].busy = st[i].busy
  BY <1>2, <1>5 DEF Stream
<1>7. Touched(i)  BY <1>2, <1>5, <1>6 DEF Touched, HoldsAsOne
<1>8. WaitsFor(kind[i], st'[i], i, i - 1)  BY <1>1, <1>2, <1>6 DEF WaitsFor
<1>9. dropped' \subseteq Item /\ (NoError \/ Error)  BY <1>1, <1>2
<1>10. IInv /\ i \in Main  OBVIOUS
<1> QED  BY ONLY <1>1, <1>2, <1>7, <1>8, <1>9, <1>10, StepTouchAsking

LEMMA FailItemKeeps ==
    ASSUME IInv, NEW i \in Main, FailItem(i)
    PROVE  IInv'
<1>1. OnTop(i) /\ KeepRest /\ (FailOpen(i) \/ FailClosed(i))
  BY DEF FailItem, Told, OnTop, Step
<1> QED  BY <1>1, FinishKeeps, FailOpenKeeps

LEMMA SourceEndedKeeps ==
    ASSUME IInv, NEW i \in Main, SourceEnded(i)
    PROVE  IInv'
<1>1. OnTop(i) /\ KeepRest /\ (Finish(i) \/ FailClosed(i))
  BY DEF SourceEnded, Told, OnTop, Step
<1> QED  BY <1>1, FinishKeeps

LEMMA AskRowKeeps ==
    ASSUME IInv, NEW i \in Main, AskRow(i)
    PROVE  IInv'
<1>1. i \in Ids /\ Entered(i) /\ kind[i] = "encode_csv" /\ kind[i] \in StageKinds
  BY IdFacts DEF AskRow, StageKinds
<1>2. /\ Holding /\ OnTop(i) /\ KeepRest /\ ~st[i].closed /\ st[i].busy = "no"
      /\ st[i] \in Stream /\ Fit(kind, st) /\ dropped \subseteq Item /\ HoldsAsOne(kind[i], st[i])
      /\ st \in [Ids -> Stream]
  BY <1>1, EnterFacts
<1>3. CASE /\ Give(i, st[i].held)
           /\ st' = [st EXCEPT ![i].held = End]
           /\ UNCHANGED <<files, procs, watchVars, dropped>> /\ NoError
  <2>1. st[i].held \in Item \cup {End}  BY <1>2 DEF Stream
  <2>2. [st[i] EXCEPT !.held = End] \in Stream  BY <1>2 DEF Stream
  <2>3. /\ st' \in [Ids -> Stream] /\ \A j \in Ids : j # i => st'[j] = st[j]
        /\ st'[i] = [st[i] EXCEPT !.held = End]
    BY <1>1, <1>2, <1>3, <2>2
  <2>4. /\ st'[i].closed = st[i].closed /\ st'[i].inner = st[i].inner /\ st'[i].file = st[i].file
        /\ st'[i].jobs = st[i].jobs /\ st'[i].cursor = st[i].cursor /\ st'[i].busy = st[i].busy
    BY <1>2, <2>3 DEF Stream
  <2>5. Touched(i)  BY <1>2, <2>3, <2>4 DEF Touched, HoldsAsOne
  <2>6. WatchType' /\ WatchOpen' /\ armed' = armed
    BY <1>1, <1>2, <1>3, <2>5, TouchedWatch DEF KeepRest
  <2>7. dropped' \subseteq Item /\ (NoError \/ Error) /\ UNCHANGED <<files, procs>>  BY <1>2, <1>3
  <2>8. IInv /\ Give(i, st[i].held)  BY <1>3
  <2> QED  BY ONLY <1>2, <2>1, <2>5, <2>6, <2>7, <2>8, StepTouchGiving
<1>4. CASE FailOpen(i)  BY <1>2, <1>4, FailOpenKeeps
<1>5. CASE Ask(i - 1) /\ KeepStreams /\ NoError /\ UNCHANGED dropped
  <2>1. i - 1 \in Main /\ i - 1 \in Ids /\ kind[i - 1] # "none" /\ st[i].inner = 0
    BY <1>1, <1>2, StageFacts
  <2>2. WaitsFor(kind[i], st[i], i, i - 1)  BY <1>1, <1>2, <2>1 DEF WaitsFor
  <2>3. dropped' \subseteq Item /\ (NoError \/ Error)  BY <1>2, <1>5
  <2>4. i \in Main /\ Ask(i - 1) /\ KeepStreams /\ IInv  BY <1>5
  <2> QED  BY ONLY <1>2, <2>1, <2>2, <2>3, <2>4, StepAsking
<1> QED  BY <1>3, <1>4, <1>5 DEF AskRow

LEMMA EncodeRowKeeps ==
    ASSUME IInv, NEW i \in Main, EncodeRow(i)
    PROVE  IInv'
<1>1. i \in Ids /\ Told(i, i - 1) /\ kind[i] = "encode_csv" /\ kind[i] \in StageKinds /\ KeepRest
  BY IdFacts DEF EncodeRow, StageKinds, Step
<1>2. /\ Holding /\ OnTop(i) /\ answer.item \in Item \cup {End}
      /\ st[i] \in Stream /\ HoldsAsOne(kind[i], st[i])
      /\ st \in [Ids -> Stream] /\ dropped \subseteq Item
  BY <1>1, ToldFacts
<1>3. CASE Finish(i) \/ FailClosed(i)  BY <1>1, <1>2, <1>3, FinishKeeps
<1>4. CASE FailOpen(i)  BY <1>1, <1>2, <1>4, FailOpenKeeps
<1>5. CASE /\ Give(i, IF st[i].started THEN answer.item ELSE Header)
           /\ st' = [st EXCEPT ![i].started = TRUE,
                               ![i].held = IF @ = End /\ ~st[i].started THEN answer.item ELSE End]
           /\ NoError /\ UNCHANGED <<files, procs, watchVars, dropped>>
  <2> DEFINE held == IF st[i].held = End /\ ~st[i].started THEN answer.item ELSE End
             item == IF st[i].started THEN answer.item ELSE Header
  <2>1. held \in Item \cup {End} /\ item \in Item \cup {End}
    BY <1>2, IdFacts DEF Item, Header
  <2>2. [st[i] EXCEPT !.started = TRUE, !.held = held] \in Stream  BY <1>2, <2>1 DEF Stream
  <2>3. /\ st' \in [Ids -> Stream] /\ \A j \in Ids : j # i => st'[j] = st[j]
        /\ st'[i] = [st[i] EXCEPT !.started = TRUE, !.held = held]
    BY <1>1, <1>2, <1>5, <2>2 DEF held
  <2>4. /\ st'[i].closed = st[i].closed /\ st'[i].inner = st[i].inner /\ st'[i].file = st[i].file
        /\ st'[i].jobs = st[i].jobs /\ st'[i].cursor = st[i].cursor /\ st'[i].busy = st[i].busy
    BY <1>2, <2>3 DEF Stream
  <2>5. Touched(i)  BY <1>2, <2>3, <2>4 DEF Touched, HoldsAsOne
  <2>6. WatchType' /\ WatchOpen' /\ armed' = armed
    BY <1>1, <1>2, <1>5, <2>5, TouchedWatch DEF KeepRest
  <2>7. dropped' \subseteq Item /\ (NoError \/ Error) /\ UNCHANGED <<files, procs>>  BY <1>2, <1>5
  <2>8. IInv /\ Give(i, item)  BY <1>5
  <2> HIDE DEF item
  <2> QED  BY ONLY <1>1, <1>2, <2>1, <2>5, <2>6, <2>7, <2>8, StepTouchGiving
<1> QED  BY <1>3, <1>4, <1>5 DEF EncodeRow

-----------------------------------------------------------------------------
(* The actions of sort_by and group_by.                                      *)

LEMMA NextSortedKeeps ==
    ASSUME IInv, NEW i \in Main, NextSorted(i)
    PROVE  IInv'
<1>1. i \in Ids /\ Entered(i) /\ kind[i] \in Barriers /\ kind[i] \in StageKinds
  BY IdFacts DEF NextSorted, Barriers, StageKinds
<1>2. /\ Holding /\ OnTop(i) /\ KeepRest /\ ~st[i].closed /\ st[i].busy = "no"
      /\ st[i] \in Stream /\ Fit(kind, st) /\ dropped \subseteq Item /\ HoldsAsOne(kind[i], st[i])
      /\ st \in [Ids -> Stream]
  BY <1>1, EnterFacts
<1>3. CASE /\ st' = [st EXCEPT ![i].started = TRUE]
           /\ Ask(i - 1)
           /\ UNCHANGED <<files, procs, watchVars, dropped>> /\ NoError
  <2>1. i - 1 \in Main /\ i - 1 \in Ids /\ kind[i - 1] # "none" /\ st[i].inner = 0
    BY <1>1, <1>2, StageFacts DEF Barriers
  <2>2. [st[i] EXCEPT !.started = TRUE] \in Stream  BY <1>2 DEF Stream
  <2>3. /\ st' \in [Ids -> Stream] /\ \A j \in Ids : j # i => st'[j] = st[j]
        /\ st'[i] = [st[i] EXCEPT !.started = TRUE]
    BY <1>1, <1>2, <1>3, <2>2
  <2>4. /\ st'[i].closed = st[i].closed /\ st'[i].inner = st[i].inner /\ st'[i].file = st[i].file
        /\ st'[i].jobs = st[i].jobs /\ st'[i].cursor = st[i].cursor /\ st'[i].busy = st[i].busy
    BY <1>2, <2>3 DEF Stream
  <2>5. Touched(i)  BY <1>2, <2>3, <2>4 DEF Touched, HoldsAsOne
  <2>6. WaitsFor(kind[i], st'[i], i, i - 1)  BY <1>1, <1>2, <2>1, <2>4 DEF WaitsFor, Barriers
  <2>7. /\ dropped' \subseteq Item /\ (NoError \/ Error) /\ UNCHANGED <<files, procs, watchVars>>
        /\ IInv /\ i \in Main /\ Ask(i - 1)
    BY <1>2, <1>3
  <2> QED  BY ONLY <1>2, <2>1, <2>5, <2>6, <2>7, StepTouchAsking
<1>4. CASE Finish(i)  BY <1>2, <1>4, FinishKeeps
<1>5. CASE /\ st[i].buffer # <<>>
           /\ Give(i, Head(st[i].buffer))
           /\ st' = [st EXCEPT ![i].buffer = Tail(@)]
           /\ UNCHANGED <<files, procs, watchVars, dropped>> /\ NoError
  <2>1. st[i].buffer \in Seq(Item)  BY <1>2 DEF Stream
  <2>2. Head(st[i].buffer) \in Item \cup {End} /\ Tail(st[i].buffer) \in Seq(Item)
    BY <1>5, <2>1
  <2>3. [st[i] EXCEPT !.buffer = Tail(st[i].buffer)] \in Stream  BY <1>2, <2>2 DEF Stream
  <2>4. /\ st' \in [Ids -> Stream] /\ \A j \in Ids : j # i => st'[j] = st[j]
        /\ st'[i] = [st[i] EXCEPT !.buffer = Tail(st[i].buffer)]
    BY <1>1, <1>2, <1>5, <2>3
  <2>5. /\ st'[i].closed = st[i].closed /\ st'[i].inner = st[i].inner /\ st'[i].file = st[i].file
        /\ st'[i].jobs = st[i].jobs /\ st'[i].cursor = st[i].cursor /\ st'[i].busy = st[i].busy
    BY <1>2, <2>4 DEF Stream
  <2>6. Touched(i)  BY <1>2, <2>4, <2>5 DEF Touched, HoldsAsOne
  <2>7. WatchType' /\ WatchOpen' /\ armed' = armed
    BY <1>1, <1>2, <1>5, <2>6, TouchedWatch DEF KeepRest
  <2>8. /\ dropped' \subseteq Item /\ (NoError \/ Error) /\ UNCHANGED <<files, procs>>
        /\ IInv /\ Give(i, Head(st[i].buffer))
    BY <1>2, <1>5
  <2> QED  BY ONLY <1>2, <2>2, <2>6, <2>7, <2>8, StepTouchGiving
<1> QED  BY <1>3, <1>4, <1>5 DEF NextSorted

LEMMA LoadKeeps ==
    ASSUME IInv, NEW i \in Main, Load(i)
    PROVE  IInv'
<1>1. i \in Ids /\ Told(i, i - 1) /\ kind[i] \in Barriers /\ kind[i] \in StageKinds /\ KeepRest
      /\ answer.item # End
  BY IdFacts DEF Load, Barriers, StageKinds, Step
<1>2. /\ Holding /\ Talking /\ RestType /\ OnTop(i) /\ answer.item \in Item \cup {End}
      /\ i # 1 /\ i - 1 \in Main /\ i - 1 \in Ids /\ kind[i - 1] # "none"
      /\ WaitsFor(kind[i], st[i], i, i - 1)
      /\ st[i] \in Stream /\ HoldsAsOne(kind[i], st[i])
      /\ st \in [Ids -> Stream] /\ dropped \subseteq Item
  BY <1>1, ToldFacts
<1>3. CASE /\ st' = [st EXCEPT ![i].buffer = Append(@, answer.item)]
           /\ Ask(i - 1)
           /\ UNCHANGED <<files, procs, watchVars, dropped>> /\ NoError
  <2>1. Append(st[i].buffer, answer.item) \in Seq(Item)  BY <1>1, <1>2 DEF Stream
  <2>2. [st[i] EXCEPT !.buffer = Append(st[i].buffer, answer.item)] \in Stream
    BY <1>2, <2>1 DEF Stream
  <2>3. /\ st' \in [Ids -> Stream] /\ \A j \in Ids : j # i => st'[j] = st[j]
        /\ st'[i] = [st[i] EXCEPT !.buffer = Append(st[i].buffer, answer.item)]
    BY <1>1, <1>2, <1>3, <2>2
  <2>4. /\ st'[i].closed = st[i].closed /\ st'[i].inner = st[i].inner /\ st'[i].file = st[i].file
        /\ st'[i].jobs = st[i].jobs /\ st'[i].cursor = st[i].cursor /\ st'[i].busy = st[i].busy
    BY <1>2, <2>3 DEF Stream
  <2>5. Touched(i)  BY <1>2, <2>3, <2>4 DEF Touched, HoldsAsOne
  <2>6. WaitsFor(kind[i], st'[i], i, i - 1)  BY <1>1, <1>2, <2>4 DEF WaitsFor, Barriers
  <2>7. /\ dropped' \subseteq Item /\ (NoError \/ Error) /\ UNCHANGED <<files, procs, watchVars>>
        /\ IInv /\ i \in Main /\ Ask(i - 1)
    BY <1>2, <1>3
  <2> QED  BY ONLY <1>1, <1>2, <2>5, <2>6, <2>7, StepTouchAsking
<1>4. CASE Close(Closing(i - 1)) /\ Give(i, End) /\ UNCHANGED dropped /\ Error
  <2>1. UNCHANGED <<cancelled, kind, consumer, phase, output, temporary, target, leaked>>
    BY <1>1 DEF KeepRest
  <2>2. Holding' /\ \A m \in Above(i - 1) : st'[m] = st[m]  BY <1>2, <1>4, <2>1, CloseHolding
  <2>3. \A m \in Above(i) : m \in Above(i - 1)
    <3>1. ASSUME NEW m \in Above(i) PROVE m \in Above(i - 1)
      <4>1. m \in Main /\ m > i /\ m \in Int /\ i \in Int  BY IdFacts DEF Above
      <4>2. m > i - 1  BY <4>1
      <4> QED  BY <4>1, <4>2 DEF Above
    <3> QED  BY <3>1
  <2>4. st' \in [Ids -> Stream] /\ (\A m \in Above(i) : st'[m] = st[m]) /\ End \in Item \cup {End}
        /\ UNCHANGED <<kind, consumer, phase, temporary>> /\ Give(i, End)
    BY <1>4, <2>1, <2>2, <2>3 DEF Holding, HoldType
  <2>5. Talking'  BY ONLY <1>2, <2>4, GiveTalking
  <2>6. RestType'
    <3>1. dropped' \subseteq Item /\ (NoError \/ Error)  BY <1>2, <1>4
    <3> QED  BY <1>2, <2>1, <3>1, ErrorTypes, RestKept
  <2> QED  BY <2>2, <2>5, <2>6 DEF IInv
<1> QED  BY <1>3, <1>4 DEF Load
(* Turning a sequence round keeps its items.                                 *)
LEMMA ReverseType ==
    ASSUME NEW S, NEW s \in Seq(S)
    PROVE  Reverse(s) \in Seq(S)
<1>1. Len(s) \in Nat /\ \A j \in 1..Len(s) : s[Len(s) - j + 1] \in S
  <2>1. Len(s) \in Nat  OBVIOUS
  <2>2. ASSUME NEW j \in 1..Len(s) PROVE s[Len(s) - j + 1] \in S
    <3>1. Len(s) - j + 1 \in 1..Len(s)  BY <2>1
    <3> QED  BY <3>1, ElementOfSeq
  <2> QED  BY <2>1, <2>2
<1>2. Reverse(s) \in [1..Len(s) -> S]  BY <1>1 DEF Reverse
<1> QED  BY <1>1, <1>2, SeqDef

LEMMA LoadedKeeps ==
    ASSUME IInv, NEW i \in Main, Loaded(i)
    PROVE  IInv'
<1> DEFINE items == st[i].buffer
           ordered == CASE items = <<>> -> {<<>>}
                        [] kind[i] = "sort" -> {Reverse(items)}
                        [] OTHER -> {items, <<Head(items)>>}
           closed == Closing(i - 1)
<1>1. i \in Ids /\ Told(i, i - 1) /\ kind[i] \in Barriers /\ kind[i] \in StageKinds /\ KeepRest
      /\ NoError
  BY IdFacts DEF Loaded, Barriers, StageKinds, Step
<1>2. /\ Holding /\ Talking /\ RestType /\ OnTop(i)
      /\ i # 1 /\ i - 1 \in Main /\ i - 1 \in Ids /\ kind[i - 1] # "none"
      /\ st[i] \in Stream /\ Fit(kind, st) /\ kind \in [Ids -> AnyKind]
      /\ st \in [Ids -> Stream] /\ dropped \subseteq Item
  BY <1>1, ToldFacts
<1>3. /\ files' = Less(files, HeldBy(closed)) /\ procs' = Less(procs, Active(closed))
      /\ WatchClosed(1 \in closed /\ kind[1] = "watch")
      /\ IF failed
           THEN Give(i, End) /\ st' = Shut(closed) /\ UNCHANGED dropped
           ELSE \E o \in ordered :
                   /\ dropped' = dropped \cup (Range(items) \ Range(o))
                   /\ IF o = <<>>
                        THEN /\ st' = [Shut(closed) EXCEPT ![i].closed = TRUE, ![i].buffer = o]
                             /\ Give(i, End)
                        ELSE /\ st' = [Shut(closed) EXCEPT ![i].buffer = Tail(o)]
                             /\ Give(i, Head(o))
  BY DEF Loaded
<1>4. items \in Seq(Item)  BY <1>2 DEF Stream
<1>5. \A o \in ordered : o \in Seq(Item)
  <2>1. CASE items = <<>>
    <3>1. <<>> \in Seq(Item) /\ Reverse(items) \in Seq(Item)  BY <1>4, ReverseType
    <3>2. ordered = {<<>>} \/ ordered = {Reverse(items)}  BY <2>1
    <3> QED  BY <3>1, <3>2
  <2>2. CASE items # <<>> /\ kind[i] = "sort"
    <3>1. Reverse(items) \in Seq(Item)  BY <1>4, ReverseType
    <3> QED  BY <2>2, <3>1
  <2>3. CASE items # <<>> /\ kind[i] # "sort"
    <3>1. Head(items) \in Item  BY <1>4, <2>3
    <3>2. <<Head(items)>> \in Seq(Item)  BY <3>1
    <3> QED  BY <1>4, <2>3, <3>2
  <2> QED  BY <2>1, <2>2, <2>3
<1>7. /\ Shut(closed) \in [Ids -> Stream] /\ Shut(closed)[i] = st[i]
      /\ closed \subseteq Ids
  <2>1. closed = ClosingIn(st, i - 1) /\ Shut(closed) = ShutIn(st, closed)  BY SameNames
  <2> HIDE DEF closed
  <2>2. closed \subseteq Ids /\ \A m \in Above(i - 1) : m \notin closed
    BY ONLY <1>2, <2>1, ClosingReaches
  <2>3. i \in Above(i - 1)
    <3>1. i \in Int  BY <1>1, IdFacts
    <3> QED  BY <3>1 DEF Above
  <2> QED  BY <1>1, <1>2, <2>1, <2>2, <2>3, ShutType
<1>8. \E b \in {TRUE, st[i].closed}, buffer \in Seq(Item), item \in Item \cup {End} :
          /\ st' = [Shut(closed) EXCEPT ![i].closed = b, ![i].buffer = buffer]
          /\ Give(i, item) /\ dropped' \subseteq Item
  <2> HIDE DEF closed, ordered
  <2>1. CASE failed
    <3>1. Shut(closed) = [Shut(closed) EXCEPT ![i].closed = st[i].closed, ![i].buffer = st[i].buffer]
      BY <1>1, <1>7, <1>2 DEF Stream
    <3>2. Give(i, End) /\ st' = Shut(closed) /\ UNCHANGED dropped  BY <1>3, <2>1
    <3> QED  BY <1>2, <1>4, <3>1, <3>2
  <2>2. CASE ~failed
    <3>1. PICK o \in ordered :
              /\ dropped' = dropped \cup (Range(items) \ Range(o))
              /\ IF o = <<>>
                   THEN /\ st' = [Shut(closed) EXCEPT ![i].closed = TRUE, ![i].buffer = o]
                        /\ Give(i, End)
                   ELSE /\ st' = [Shut(closed) EXCEPT ![i].buffer = Tail(o)]
                        /\ Give(i, Head(o))
      BY <1>3, <2>2
    <3>2. o \in Seq(Item)  BY <1>5
    <3>3. Range(items) \subseteq Item  BY <1>4 DEF Range
    <3>4. dropped' \subseteq Item  BY <1>2, <3>1, <3>3
    <3>5. CASE o = <<>>  BY <3>1, <3>2, <3>4, <3>5
    <3>6. CASE o # <<>>
      <4>1. Tail(o) \in Seq(Item) /\ Head(o) \in Item  BY <3>2, <3>6
      <4>2. [Shut(closed) EXCEPT ![i].buffer = Tail(o)]
              = [Shut(closed) EXCEPT ![i].closed = st[i].closed, ![i].buffer = Tail(o)]
        BY <1>1, <1>7, <1>2 DEF Stream
      <4> QED  BY <3>1, <3>4, <3>6, <4>1, <4>2
    <3> QED  BY <3>5, <3>6
  <2> QED  BY <2>1, <2>2
<1>9. PICK b \in {TRUE, st[i].closed}, buffer \in Seq(Item), item \in Item \cup {End} :
          /\ st' = [Shut(closed) EXCEPT ![i].closed = b, ![i].buffer = buffer]
          /\ Give(i, item) /\ dropped' \subseteq Item
  BY <1>8
<1> HIDE DEF ordered, closed, items
<1>10. b \in BOOLEAN  BY <1>9, <1>2 DEF Stream
<1>11. [st[i] EXCEPT !.closed = b, !.buffer = buffer] \in Stream  BY <1>2, <1>10 DEF Stream
<1>12. /\ st' \in [Ids -> Stream] /\ \A j \in Ids : j # i => st'[j] = Shut(closed)[j]
       /\ st'[i] = [st[i] EXCEPT !.closed = b, !.buffer = buffer]
  BY <1>1, <1>7, <1>9, <1>11
<1>13. /\ st'[i].inner = st[i].inner /\ st'[i].file = st[i].file /\ st'[i].cursor = st[i].cursor
       /\ st'[i].jobs = st[i].jobs /\ st'[i].busy = st[i].busy /\ st'[i].closed \in {TRUE, st[i].closed}
  BY <1>2, <1>12 DEF Stream
<1>14. closed = Closing(i - 1) /\ UNCHANGED <<kind, leaked, temporary>> /\ i \in Main
  BY <1>1 DEF closed, KeepRest
<1>15. /\ files' = Less(files, HeldBy(closed)) /\ procs' = Less(procs, Active(closed))
       /\ WatchClosed(1 \in closed /\ kind[1] = "watch")
  BY <1>3
<1>16. Holding' /\ \A m \in Above(i) : st'[m] = st[m]
  <2>1. Holding /\ i \in Main /\ i # 1 /\ i - 1 \in Main /\ kind[i] \in Barriers  BY <1>1, <1>2
  <2>2. /\ st' \in [Ids -> Stream] /\ \A j \in Ids : j # i => st'[j] = Shut(closed)[j]
        /\ UNCHANGED <<kind, leaked, temporary>>
    BY <1>12, <1>14
  <2>3. st'[i].closed \in {TRUE, st[i].closed}  BY <1>13
  <2> QED  BY ONLY <2>1, <2>2, <2>3, <1>13, <1>14, <1>15, LoadHolding
<1>17. UNCHANGED <<kind, consumer, phase, temporary>> /\ UNCHANGED <<cancelled, consumer, phase, output, target>>
  BY <1>1 DEF KeepRest
<1>18. Give(i, item) /\ dropped' \subseteq Item /\ item \in Item \cup {End}  BY <1>9
<1>19. Talking'  BY ONLY <1>2, <1>12, <1>16, <1>17, <1>18, GiveTalking
<1>20. RestType'
  <2>1. NoError \/ Error  BY <1>1
  <2> QED  BY <1>2, <2>1, <1>17, <1>18, ErrorTypes, RestKept
<1> QED  BY <1>16, <1>19, <1>20 DEF IInv

-----------------------------------------------------------------------------
(* The actions of flat_map and on_error.                                     *)

LEMMA AskInnerKeeps ==
    ASSUME IInv, NEW i \in Main, AskInner(i)
    PROVE  IInv'
<1> DEFINE j == IF st[i].inner # 0 THEN Inner(i) ELSE i - 1
<1>1. i \in Ids /\ Entered(i) /\ kind[i] \in {"flat_map", "on_error"} /\ kind[i] \in StageKinds
  BY IdFacts DEF AskInner, StageKinds
<1>2. /\ OnTop(i) /\ KeepRest /\ ~st[i].closed /\ st[i].busy = "no" /\ dropped \subseteq Item
      /\ Fit(kind, st)
  BY <1>1, EnterFacts
<1>3. /\ i - 1 \in Main /\ i - 1 \in Ids /\ kind[i - 1] # "none" /\ i - 1 # Inner(i)
      /\ st[i].inner # 0 => kind[Inner(i)] # "none"
      /\ Inner(i) \in Ids /\ Inner(i) \notin Main
  BY <1>1, <1>2, StageFacts, IdFacts
<1>4. j = i - 1 \/ (j = Inner(i) /\ st[i].inner # 0)  OBVIOUS
<1>5. j \in Ids /\ kind[j] # "none" /\ (j = i - 1 => j \in Main)  BY <1>3
<1>6. WaitsFor(kind[i], st[i], i, j)  BY <1>1, <1>2 DEF WaitsFor
<1>7. Ask(j) /\ KeepStreams /\ dropped' \subseteq Item /\ (NoError \/ Error) /\ IInv /\ i \in Main
  BY <1>2 DEF AskInner
<1> HIDE DEF j
<1> QED  BY ONLY <1>2, <1>4, <1>5, <1>6, <1>7, StepAsking

(* The closure's stream is attached.                                         *)
LEMMA AttachKeeps ==
    ASSUME IInv, NEW i \in Ids, Told(i, i - 1), kind[i] \in {"flat_map", "on_error"},
           NEW tag \in Item, Attach(i, tag), UNCHANGED <<files, procs, watchVars, leaked, temporary>>
    PROVE  /\ Holding' /\ st' \in [Ids -> Stream] /\ kind' \in [Ids -> AnyKind]
           /\ \A m \in Above(i) : st'[m] = st[m]
           /\ \A m \in Main : kind'[m] = kind[m]
           /\ st'[i].inner # 0 /\ kind'[Inner(i)] # "none"
           /\ WaitsFor(kind'[i], st'[i], i, Inner(i))
           /\ dropped' \subseteq Item
           /\ Holding /\ Talking /\ RestType /\ OnTop(i) /\ i \in Main /\ Inner(i) \in Ids
<1>1. kind[i] \in StageKinds /\ i \in Ids /\ IInv /\ Told(i, i - 1)  BY DEF StageKinds
<1>2. /\ Holding /\ Talking /\ RestType /\ OnTop(i) /\ i \in Main
      /\ WaitsFor(kind[i], st[i], i, i - 1) /\ st[i].inner = 0 /\ ~st[i].closed
      /\ st[i] \in Stream /\ HoldsAsOne(kind[i], st[i]) /\ dropped \subseteq Item
  BY ONLY <1>1, ToldFacts
<1>3. PICK q \in {"list", "lines"}, left \in 0..(IF kind[i] = "flat_map" THEN 1 ELSE 2) :
        /\ kind' = [kind EXCEPT ![Inner(i)] = q]
        /\ st' = [st EXCEPT ![i].inner = Inner(i), ![Inner(i)] = Fresh(left, tag)]
        /\ dropped' = IF left = 0 /\ kind[i] = "flat_map" THEN dropped \cup {tag} ELSE dropped
  BY DEF Attach
<1>4. left \in 0..2 /\ q \in {"list", "lines"} /\ tag \in Item  BY <1>3
<1>5. /\ kind' = [kind EXCEPT ![Inner(i)] = q]
      /\ st' = [st EXCEPT ![i].inner = Inner(i), ![Inner(i)] = Fresh(left, tag)]
      /\ UNCHANGED <<files, procs, watchVars, leaked, temporary>>
      /\ kind[i] \in {"flat_map", "on_error"}
  BY <1>3
<1>6. /\ Holding'
      /\ \A m \in Above(i) : st'[m] = st[m]
      /\ \A m \in Main : kind'[m] = kind[m]
      /\ kind'[Inner(i)] = q /\ st'[i] = [st[i] EXCEPT !.inner = Inner(i)]
  BY ONLY <1>2, <1>4, <1>5, AttachHolding
<1>7. /\ st'[i].inner = Inner(i) /\ st'[i].closed = st[i].closed /\ st'[i].busy = st[i].busy
      /\ st'[i].jobs = st[i].jobs
  BY <1>2, <1>6 DEF Stream
<1>8. Inner(i) \in Ids /\ Inner(i) # 0  BY <1>2, IdFacts
<1>9. WaitsFor(kind'[i], st'[i], i, Inner(i))
  BY <1>1, <1>2, <1>6, <1>7 DEF WaitsFor
<1>10. dropped' \subseteq Item  BY <1>2, <1>3
<1>11. st' \in [Ids -> Stream] /\ kind' \in [Ids -> AnyKind]  BY <1>6 DEF Holding, HoldType
<1>12. kind'[Inner(i)] # "none"  BY <1>4, <1>6
<1> QED  BY ONLY <1>2, <1>6, <1>7, <1>8, <1>9, <1>10, <1>11, <1>12

LEMMA FlatMapOuterKeeps ==
    ASSUME IInv, NEW i \in Main, FlatMapOuter(i)
    PROVE  IInv'
<1>1. i \in Ids /\ Told(i, i - 1) /\ kind[i] = "flat_map" /\ kind[i] \in StageKinds
  BY IdFacts DEF FlatMapOuter, StageKinds
<1>2. OnTop(i) /\ answer.item \in Item \cup {End} /\ RestType  BY <1>1, ToldFacts
<1>3. CASE (Finish(i) \/ FailClosed(i)) /\ Step(i)  BY <1>2, <1>3, FinishKeeps DEF Step
<1>4. CASE /\ answer.item # End /\ Attach(i, answer.item)
           /\ Ask(Inner(i)) /\ NoError
           /\ UNCHANGED <<cancelled, files, procs, watchVars, consumer, phase, output,
                          temporary, target, leaked>>
  <2>1. /\ answer.item \in Item /\ Attach(i, answer.item) /\ IInv /\ kind[i] \in {"flat_map", "on_error"}
        /\ UNCHANGED <<files, procs, watchVars, leaked, temporary>>
    BY <1>1, <1>2, <1>4
  <2>2. /\ Holding' /\ st' \in [Ids -> Stream] /\ kind' \in [Ids -> AnyKind]
        /\ \A m \in Above(i) : st'[m] = st[m]
        /\ \A m \in Main : kind'[m] = kind[m]
        /\ st'[i].inner # 0 /\ kind'[Inner(i)] # "none"
        /\ WaitsFor(kind'[i], st'[i], i, Inner(i))
        /\ dropped' \subseteq Item
        /\ Holding /\ Talking /\ RestType /\ OnTop(i) /\ i \in Main /\ Inner(i) \in Ids
    BY ONLY <1>1, <2>1, AttachKeeps
  <2>3. Inner(i) = i - 1 => Inner(i) \in Main
    BY <2>2, IdFacts DEF Inner
  <2>4. Ask(Inner(i)) /\ UNCHANGED <<consumer, phase, temporary>>  BY <1>4
  <2>5. Inner(i) = i - 1 \/ (Inner(i) = Inner(i) /\ st'[i].inner # 0)  BY <2>2
  <2>6. Talking'  BY ONLY <2>2, <2>3, <2>4, <2>5, AskTalking
  <2>7. RestType'  BY <1>2, <1>4, <2>2, ErrorTypes, RestKept
  <2> QED  BY <2>2, <2>6, <2>7 DEF IInv
<1> QED  BY <1>3, <1>4 DEF FlatMapOuter

(* An inner stream has answered.                                             *)
LEMMA InnerFacts ==
    ASSUME IInv, NEW i \in Main, Told(i, Inner(i)), kind[i] # "none"
    PROVE  /\ Holding /\ Talking /\ RestType /\ OnTop(i) /\ i \in Ids
           /\ kind[Inner(i)] # "none" /\ answer.item \in Item \cup {End}
           /\ WaitsFor(kind[i], st[i], i, Inner(i)) /\ ~st[i].closed
           /\ st[i] \in Stream /\ HoldsAsOne(kind[i], st[i]) /\ Fit(kind, st)
           /\ dropped \subseteq Item
<1>1. Holding /\ Talking /\ RestType  BY DEF IInv
<1>2. OnTop(i) /\ answer.from = Inner(i)  BY IdFacts DEF Told, OnTop
<1>3. Inner(i) # 0 /\ Inner(i) \in Ids  BY IdFacts
<1>4. /\ i \in Ids /\ answer.item \in Item \cup {End}
      /\ answer.from # 0 => WaitsFor(kind[i], st[i], i, answer.from) /\ kind[answer.from] # "none"
      /\ st[i] \in Stream /\ Fit(kind, st) /\ HoldsAsOne(kind[i], st[i])
  BY ONLY <1>1, <1>2, TopFacts
<1>5. WaitsFor(kind[i], st[i], i, Inner(i)) /\ kind[Inner(i)] # "none"  BY <1>2, <1>3, <1>4
<1>6. ~st[i].closed  BY <1>5 DEF WaitsFor
<1>7. dropped \subseteq Item  BY <1>1 DEF RestType
<1> QED  BY <1>1, <1>2, <1>4, <1>5, <1>6, <1>7

LEMMA FlatMapInnerKeeps ==
    ASSUME IInv, NEW i \in Main, FlatMapInner(i)
    PROVE  IInv'
<1>1. /\ Told(i, Inner(i)) /\ kind[i] = "flat_map" /\ kind[i] # "none" /\ KeepRest
      /\ kind[i] \in StageKinds
  BY DEF FlatMapInner, StageKinds, Step
<1>2. /\ Holding /\ Talking /\ RestType /\ OnTop(i) /\ i \in Ids
      /\ kind[Inner(i)] # "none" /\ answer.item \in Item \cup {End}
      /\ WaitsFor(kind[i], st[i], i, Inner(i)) /\ ~st[i].closed
      /\ st[i] \in Stream /\ HoldsAsOne(kind[i], st[i]) /\ Fit(kind, st)
      /\ dropped \subseteq Item
  BY <1>1, InnerFacts
<1>3. CASE answer.item # End
  <2>1. /\ Give(i, answer.item) /\ KeepStreams /\ dropped' \subseteq Item /\ (NoError \/ Error)
        /\ IInv
    BY <1>2, <1>3 DEF FlatMapInner
  <2> QED  BY ONLY <1>1, <1>2, <2>1, StepGiving
<1>4. CASE answer.item = End
  <2> DEFINE closed == Closing(Inner(i))
  <2>1. /\ st' = [Shut(closed) EXCEPT ![i].inner = 0]
        /\ files' = Less(files, HeldBy(closed))
        /\ Ask(i - 1) /\ UNCHANGED <<procs, watchVars>>
        /\ NoError /\ UNCHANGED dropped
    BY <1>4 DEF FlatMapInner
  <2>2. closed = Closing(Inner(i))  OBVIOUS
  <2> HIDE DEF closed
  <2>3. UNCHANGED <<kind, procs, watchVars, leaked, temporary>> /\ i \in Main
        /\ UNCHANGED <<kind, consumer, phase, temporary>>
        /\ UNCHANGED <<cancelled, consumer, phase, output, target>>
    BY <1>1, <2>1 DEF KeepRest
  <2>4. /\ Holding'
        /\ \A m \in Above(i) : st'[m] = st[m]
        /\ st'[i] = [st[i] EXCEPT !.inner = 0]
    BY ONLY <1>2, <2>1, <2>2, <2>3, DetachHolding
  <2>5. /\ i - 1 \in Main /\ i - 1 \in Ids /\ kind[i - 1] # "none"
    BY <1>1, <1>2, StageFacts
  <2>6. /\ st'[i].inner = 0 /\ st'[i].closed = st[i].closed /\ st'[i].busy = st[i].busy
        /\ st'[i].jobs = st[i].jobs
    BY <1>2, <2>4 DEF Stream
  <2>7. WaitsFor(kind'[i], st'[i], i, i - 1)  BY <1>1, <1>2, <2>3, <2>6 DEF WaitsFor
  <2>8. st' \in [Ids -> Stream] /\ kind' \in [Ids -> AnyKind]  BY <2>4 DEF Holding, HoldType
  <2>9. /\ \A m \in Main : kind'[m] = kind[m]
        /\ kind'[i - 1] # "none" /\ Ask(i - 1) /\ i - 1 = i - 1 /\ (i - 1 = i - 1 => i - 1 \in Main)
        /\ (i - 1 = i - 1 \/ (i - 1 = Inner(i) /\ st'[i].inner # 0))
    BY <2>1, <2>3, <2>5
  <2>10. Talking'  BY ONLY <1>2, <2>3, <2>4, <2>5, <2>7, <2>8, <2>9, AskTalking
  <2>11. RestType'
    <3>1. dropped' \subseteq Item /\ (NoError \/ Error)  BY <1>2, <2>1
    <3> QED  BY <1>2, <2>3, <3>1, ErrorTypes, RestKept
  <2> QED  BY <2>4, <2>10, <2>11 DEF IInv
<1> QED  BY <1>3, <1>4

LEMMA OnErrorSourceKeeps ==
    ASSUME IInv, NEW i \in Main, OnErrorSource(i)
    PROVE  IInv'
<1>1. i \in Ids /\ Told(i, i - 1) /\ kind[i] = "on_error" /\ kind[i] \in StageKinds
  BY IdFacts DEF OnErrorSource, StageKinds
<1>2. OnTop(i) /\ answer.item \in Item \cup {End} /\ RestType /\ dropped \subseteq Item
  BY <1>1, ToldFacts
<1>3. CASE (Finish(i) \/ FailClosed(i)) /\ Step(i)  BY <1>2, <1>3, FinishKeeps DEF Step
<1>4. CASE /\ answer.item # End /\ Give(i, answer.item)
           /\ KeepStreams /\ NoError /\ UNCHANGED dropped /\ Step(i)
  <2>1. /\ Give(i, answer.item) /\ KeepStreams /\ dropped' \subseteq Item /\ (NoError \/ Error)
        /\ IInv /\ KeepRest
    BY <1>2, <1>4 DEF Step
  <2> QED  BY ONLY <1>2, <2>1, StepGiving
<1>5. CASE /\ failed' = FALSE
           /\ Attach(i, Items + 1)
           /\ calls' = Append(Front(calls), Inner(i)) /\ answer' = NoAnswer
           /\ UNCHANGED <<cancelled, files, procs, watchVars, consumer, phase, output,
                          temporary, target, erred, leaked>>
  <2> DEFINE tag == Items + 1
  <2>1. /\ tag \in Item /\ Attach(i, tag) /\ IInv /\ kind[i] \in {"flat_map", "on_error"}
        /\ UNCHANGED <<files, procs, watchVars, leaked, temporary>>
    BY <1>1, <1>5, IdFacts DEF Item
  <2> HIDE DEF tag
  <2>2. /\ Holding' /\ st' \in [Ids -> Stream] /\ kind' \in [Ids -> AnyKind]
        /\ \A m \in Above(i) : st'[m] = st[m]
        /\ \A m \in Main : kind'[m] = kind[m]
        /\ st'[i].inner # 0 /\ kind'[Inner(i)] # "none"
        /\ dropped' \subseteq Item
        /\ Holding /\ Talking /\ RestType /\ OnTop(i) /\ i \in Main
    BY ONLY <1>1, <2>1, AttachKeeps
  <2>3. calls' = Append(Front(calls), Inner(i)) /\ answer' = NoAnswer
        /\ UNCHANGED <<consumer, phase, temporary>>
    BY <1>5
  <2>4. Talking'  BY ONLY <2>2, <2>3, ReplaceTalking
  <2>5. RestType'
    <3>1. failed' \in BOOLEAN /\ erred' \in BOOLEAN  BY <1>2, <1>5 DEF RestType
    <3> QED  BY <1>2, <1>5, <2>2, <3>1, RestKept
  <2> QED  BY <2>2, <2>4, <2>5 DEF IInv
<1> QED  BY <1>3, <1>4, <1>5 DEF OnErrorSource

LEMMA OnErrorInnerKeeps ==
    ASSUME IInv, NEW i \in Main, OnErrorInner(i)
    PROVE  IInv'
<1>1. Told(i, Inner(i)) /\ kind[i] # "none" /\ KeepRest
  BY DEF OnErrorInner, Step
<1>2. OnTop(i) /\ answer.item \in Item \cup {End} /\ dropped \subseteq Item  BY <1>1, InnerFacts
<1>3. CASE Finish(i)  BY <1>1, <1>2, <1>3, FinishKeeps
<1>4. CASE Give(i, answer.item) /\ KeepStreams /\ NoError /\ UNCHANGED dropped
  <2>1. /\ Give(i, answer.item) /\ KeepStreams /\ dropped' \subseteq Item /\ (NoError \/ Error)
        /\ IInv
    BY <1>2, <1>4
  <2> QED  BY ONLY <1>1, <1>2, <2>1, StepGiving
<1> QED  BY <1>3, <1>4 DEF OnErrorInner

-----------------------------------------------------------------------------
(* The actions of parallel and its children.                                 *)

LEMMA NextParallelKeeps ==
    ASSUME IInv, NEW i \in Main, NextParallel(i)
    PROVE  IInv'
<1>1. /\ i \in Ids /\ Entered(i) /\ kind[i] = "parallel" /\ kind[i] \in StageKinds
      /\ NoError /\ UNCHANGED dropped
  BY IdFacts DEF NextParallel, StageKinds
<1>2. /\ Holding /\ Talking /\ RestType /\ OnTop(i) /\ KeepRest /\ ~st[i].closed /\ st[i].busy = "no"
      /\ answer = NoAnswer
      /\ st[i] \in Stream /\ Fit(kind, st) /\ dropped \subseteq Item /\ HoldsAsOne(kind[i], st[i])
      /\ st \in [Ids -> Stream]
  BY <1>1, EnterFacts
<1>3. /\ i - 1 \in Main /\ i - 1 \in Ids /\ kind[i - 1] # "none" /\ st[i].inner = 0
  BY <1>1, <1>2, StageFacts
<1>4. ASSUME NEW b \in {"fill", "wait"}, st' = [st EXCEPT ![i].busy = b]
      PROVE  /\ Touched(i) /\ st' \in [Ids -> Stream] /\ \A j \in Ids : j # i => st'[j] = st[j]
             /\ st'[i].closed = st[i].closed /\ st'[i].inner = st[i].inner
             /\ st'[i].jobs = st[i].jobs
  <2>1. [st[i] EXCEPT !.busy = b] \in Stream  BY <1>2 DEF Stream
  <2>2. /\ st' \in [Ids -> Stream] /\ \A j \in Ids : j # i => st'[j] = st[j]
        /\ st'[i] = [st[i] EXCEPT !.busy = b]
    BY <1>1, <1>2, <1>4, <2>1
  <2>3. /\ st'[i].closed = st[i].closed /\ st'[i].inner = st[i].inner /\ st'[i].file = st[i].file
        /\ st'[i].jobs = st[i].jobs /\ st'[i].cursor = st[i].cursor /\ st'[i].busy = b
    BY <1>2, <2>2 DEF Stream
  <2>4. Touched(i)  BY <1>1, <1>2, <2>2, <2>3 DEF Touched, HoldsAsOne
  <2> QED  BY <2>2, <2>3, <2>4
<1>5. CASE /\ Room(i) /\ st' = [st EXCEPT ![i].busy = "fill"] /\ Ask(i - 1)
           /\ UNCHANGED <<files, procs, watchVars>>
  <2>1. /\ Touched(i) /\ st'[i].closed = st[i].closed /\ st'[i].inner = st[i].inner
        /\ st'[i].jobs = st[i].jobs
    BY <1>4, <1>5
  <2>2. WaitsFor(kind[i], st'[i], i, i - 1)
    BY <1>1, <1>2, <1>3, <1>5, <2>1 DEF WaitsFor, Room, Jobs
  <2>3. /\ dropped' \subseteq Item /\ (NoError \/ Error) /\ UNCHANGED <<files, procs, watchVars>>
        /\ IInv /\ i \in Main /\ Ask(i - 1)
    BY <1>1, <1>2, <1>5
  <2> QED  BY ONLY <1>2, <1>3, <2>1, <2>2, <2>3, StepTouchAsking
<1>6. CASE Close(Closing(i)) /\ Give(i, End)
  <2>1. Finish(i)  BY <1>1, <1>6 DEF Finish
  <2> QED  BY <1>2, <2>1, FinishKeeps
<1>7. CASE st' = [st EXCEPT ![i].busy = "wait"] /\ UNCHANGED <<calls, answer, files, procs, watchVars>>
  <2>1. /\ Touched(i) /\ st' \in [Ids -> Stream] /\ \A j \in Ids : j # i => st'[j] = st[j]
    BY <1>4, <1>7
  <2>2. UNCHANGED <<kind, files, procs, leaked, temporary>> /\ UNCHANGED <<kind, consumer, phase, temporary>>
        /\ UNCHANGED <<cancelled, consumer, phase, output, target>>
    BY <1>2, <1>7 DEF KeepRest
  <2>3. WatchType' /\ WatchOpen' /\ armed' = armed  BY <1>1, <1>2, <1>7, <2>1, <2>2, TouchedWatch
  <2>4. Holding'  BY <1>1, <1>2, <2>1, <2>2, <2>3, TouchHolding DEF Touched
  <2>5. calls' = calls /\ answer' = NoAnswer /\ i \in Main  BY <1>2, <1>7
  <2>6. \A m \in Above(i) : st'[m] = st[m]  BY <1>1, <2>1, AboveIsOther
  <2>7. Talking'  BY ONLY <1>2, <2>1, <2>2, <2>5, <2>6, StayTalking
  <2>8. RestType'
    <3>1. dropped' \subseteq Item /\ (NoError \/ Error)  BY <1>1, <1>2
    <3> QED  BY <1>2, <2>2, <3>1, ErrorTypes, RestKept
  <2> QED  BY <2>4, <2>7, <2>8 DEF IInv
<1> QED  BY <1>5, <1>6, <1>7 DEF NextParallel

(* Only parallel fills and refills.                                          *)
LEMMA FillerIsParallel ==
    ASSUME IInv, NEW i \in Main, phase = "pulling", calls # <<>>, calls[Len(calls)] = i,
           st[i].busy \in {"fill", "refill"}
    PROVE  kind[i] = "parallel" /\ kind[i] \in StageKinds /\ i \in Ids
<1>1. i \in Ids  BY IdFacts
<1>2. HoldsByKind(kind, st)  BY DEF IInv, Holding, Fit
<1> QED  BY <1>1, <1>2 DEF HoldsByKind, HoldsAsOne, StageKinds

LEMMA LaunchKeeps ==
    ASSUME IInv, NEW i \in Main, Launch(i)
    PROVE  IInv'
<1>1. /\ Told(i, i - 1) /\ answer.item # End /\ st[i].busy \in {"fill", "refill"} /\ KeepRest
      /\ LaunchChecks /\ files' = files + 1 /\ procs' = procs + 1
      /\ NoError /\ UNCHANGED <<watchVars, dropped>>
  BY DEF Launch, Step
<1>2. kind[i] = "parallel" /\ kind[i] \in StageKinds /\ i \in Ids
  BY <1>1, FillerIsParallel DEF Told
<1>3. /\ Holding /\ Talking /\ RestType /\ OnTop(i)
      /\ i # 1 /\ i - 1 \in Main /\ i - 1 \in Ids /\ kind[i - 1] # "none"
      /\ WaitsFor(kind[i], st[i], i, i - 1) /\ st[i].inner = 0 /\ ~st[i].closed
      /\ answer.item \in Item \cup {End}
      /\ st[i] \in Stream /\ HoldsAsOne(kind[i], st[i])
      /\ st \in [Ids -> Stream] /\ dropped \subseteq Item /\ kind \in [Ids -> AnyKind]
  BY <1>1, <1>2, ToldFacts
<1> DEFINE jobs == Append(st[i].jobs, [item |-> answer.item, state |-> "running"])
           more == [st[i] EXCEPT !.jobs = jobs]
<1>4. answer.item \in Item  BY <1>1, <1>3
<1>5. [item |-> answer.item, state |-> "running"] \in Job  BY <1>4 DEF Job
<1>6. /\ jobs \in Seq(Job) /\ Len(jobs) = Len(st[i].jobs) + 1 /\ Len(st[i].jobs) \in Nat
      /\ Len(st[i].jobs) < Width
  BY <1>1, <1>3, <1>5 DEF Stream, WaitsFor
<1>7. Launched(i) = [st EXCEPT ![i] = more]
  BY <1>2, <1>3 DEF Launched, Stream
<1>8. ASSUME NEW b \in {"no", "fill", "wait", "refill"}, NEW h \in Item \cup {End},
             st' = [st EXCEPT ![i] = [more EXCEPT !.busy = b, !.held = h]]
      PROVE  /\ st' \in [Ids -> Stream] /\ \A j \in Ids : j # i => st'[j] = st[j]
             /\ Holding' /\ \A m \in Above(i) : st'[m] = st[m]
             /\ st'[i].closed = st[i].closed /\ st'[i].inner = st[i].inner /\ st'[i].jobs = jobs
  <2> HIDE DEF jobs
  <2>1. [more EXCEPT !.busy = b, !.held = h] \in Stream  BY <1>3, <1>6 DEF Stream
  <2>2. /\ st' \in [Ids -> Stream] /\ \A j \in Ids : j # i => st'[j] = st[j]
        /\ st'[i] = [more EXCEPT !.busy = b, !.held = h]
    BY <1>2, <1>3, <1>8, <2>1
  <2>3. /\ st'[i].closed = st[i].closed /\ st'[i].inner = st[i].inner /\ st'[i].file = st[i].file
        /\ st'[i].jobs = jobs /\ st'[i].cursor = st[i].cursor /\ st'[i].busy = b
    BY <1>3, <2>2 DEF Stream
  <2>4. HoldsAsOne(kind[i], st'[i])
    BY <1>2, <1>3, <1>6, <2>3, IdFacts DEF HoldsAsOne
  <2>5. Len(st'[i].jobs) = Len(st[i].jobs) + 1  BY <1>6, <2>3
  <2>6. UNCHANGED <<kind, leaked, temporary, watchVars>>  BY <1>1 DEF KeepRest
  <2>7. Holding'
    BY ONLY <1>1, <1>2, <1>3, <2>2, <2>3, <2>4, <2>5, <2>6, LaunchHolding
  <2>8. \A m \in Above(i) : st'[m] = st[m]  BY <1>2, <2>2, AboveIsOther
  <2> QED  BY <2>2, <2>3, <2>7, <2>8
<1>9. st[i].busy \in {"no", "fill", "wait", "refill"} /\ st[i].held \in Item \cup {End}
  BY <1>3 DEF Stream
<1>10. UNCHANGED <<kind, consumer, phase, temporary>> /\ UNCHANGED <<cancelled, consumer, phase, output, target>>
  BY <1>1 DEF KeepRest
<1>11. RestType'
  <2>1. dropped' \subseteq Item /\ (NoError \/ Error)  BY <1>1, <1>3
  <2> QED  BY <1>3, <1>10, <2>1, ErrorTypes, RestKept
<1>12. CASE Len(Jobs(i)) + 1 < Width /\ st' = Launched(i) /\ Ask(i - 1)
  <2>1. more = [more EXCEPT !.busy = st[i].busy, !.held = st[i].held]
    <3> HIDE DEF jobs
    <3> QED  BY <1>3 DEF Stream
  <2>2. st' = [st EXCEPT ![i] = [more EXCEPT !.busy = st[i].busy, !.held = st[i].held]]
    BY <1>7, <1>12, <2>1
  <2>3. /\ st' \in [Ids -> Stream] /\ Holding' /\ \A m \in Above(i) : st'[m] = st[m]
        /\ st'[i].closed = st[i].closed /\ st'[i].inner = st[i].inner /\ st'[i].jobs = jobs
    BY ONLY <1>8, <1>9, <2>2
  <2>4. WaitsFor(kind'[i], st'[i], i, i - 1)
    <3> HIDE DEF jobs
    <3> QED  BY <1>2, <1>3, <1>6, <1>10, <1>12, <2>3 DEF WaitsFor, Jobs
  <2>5. /\ \A m \in Main : kind'[m] = kind[m]
        /\ kind'[i - 1] # "none" /\ Ask(i - 1) /\ (i - 1 = i - 1 => i - 1 \in Main)
        /\ (i - 1 = i - 1 \/ (i - 1 = Inner(i) /\ st'[i].inner # 0))
        /\ kind' \in [Ids -> AnyKind] /\ i \in Main
    BY <1>3, <1>10, <1>12
  <2>6. Talking'  BY ONLY <1>3, <1>10, <2>3, <2>4, <2>5, AskTalking
  <2> QED  BY <1>11, <2>3, <2>6 DEF IInv
<1>13. CASE /\ st' = [Launched(i) EXCEPT ![i].busy = "wait"]
            /\ answer' = NoAnswer /\ UNCHANGED calls
  <2>1. st' = [st EXCEPT ![i] = [more EXCEPT !.busy = "wait", !.held = st[i].held]]
    <3> HIDE DEF jobs
    <3>1. st' = [st EXCEPT ![i] = [more EXCEPT !.busy = "wait"]]  BY <1>2, <1>3, <1>7, <1>13
    <3>2. [more EXCEPT !.busy = "wait"] = [more EXCEPT !.busy = "wait", !.held = st[i].held]
      BY <1>3 DEF Stream
    <3> QED  BY <3>1, <3>2
  <2>2. "wait" \in {"no", "fill", "wait", "refill"}  OBVIOUS
  <2>3. /\ st' \in [Ids -> Stream] /\ Holding' /\ \A m \in Above(i) : st'[m] = st[m]
    BY ONLY <1>8, <1>9, <2>1, <2>2
  <2>4. calls' = calls /\ answer' = NoAnswer /\ i \in Main  BY <1>13
  <2>5. Talking'  BY ONLY <1>3, <1>10, <2>3, <2>4, StayTalking
  <2> QED  BY <1>11, <2>3, <2>5 DEF IInv
<1>14. CASE st' = [Launched(i) EXCEPT ![i].busy = "no", ![i].held = End] /\ Give(i, st[i].held)
  <2>1. st' = [st EXCEPT ![i] = [more EXCEPT !.busy = "no", !.held = End]]
    <3> HIDE DEF jobs, more
    <3> QED  BY <1>2, <1>3, <1>7, <1>14
  <2>2. "no" \in {"no", "fill", "wait", "refill"} /\ End \in Item \cup {End}  OBVIOUS
  <2>3. /\ st' \in [Ids -> Stream] /\ Holding' /\ \A m \in Above(i) : st'[m] = st[m]
    BY ONLY <1>8, <2>1, <2>2
  <2>4. Give(i, st[i].held)  BY <1>14
  <2>5. Talking'  BY ONLY <1>3, <1>9, <1>10, <2>3, <2>4, GiveTalking
  <2> QED  BY <1>11, <2>3, <2>5 DEF IInv
<1> QED  BY <1>12, <1>13, <1>14 DEF Launch

LEMMA LaunchFailsKeeps ==
    ASSUME IInv, NEW i \in Main, LaunchFails(i)
    PROVE  IInv'
<1>1. OnTop(i) /\ KeepRest  BY DEF LaunchFails, Told, OnTop, Step
<1>2. CASE FailClosed(i)  BY <1>1, <1>2, FinishKeeps
<1>3. CASE FailOpen(i)  BY <1>1, <1>3, FailOpenKeeps
<1> QED  BY <1>2, <1>3 DEF LaunchFails

LEMMA ParallelSourceEndedKeeps ==
    ASSUME IInv, NEW i \in Main, ParallelSourceEnded(i)
    PROVE  IInv'
<1>1. /\ i \in Ids /\ Told(i, i - 1) /\ kind[i] = "parallel" /\ kind[i] \in StageKinds /\ KeepRest
  BY IdFacts DEF ParallelSourceEnded, StageKinds, Step
<1>2. /\ Holding /\ Talking /\ RestType /\ OnTop(i)
      /\ st[i] \in Stream /\ HoldsAsOne(kind[i], st[i])
      /\ st \in [Ids -> Stream] /\ dropped \subseteq Item
  BY <1>1, ToldFacts
<1>3. CASE FailClosed(i)  BY <1>1, <1>2, <1>3, FinishKeeps
<1>4. CASE FailOpen(i)  BY <1>1, <1>2, <1>4, FailOpenKeeps
<1>5. CASE NoError /\ UNCHANGED dropped /\ Close(Closing(i)) /\ Give(i, End)
  <2>1. Finish(i)  BY <1>5 DEF Finish
  <2> QED  BY <1>1, <1>2, <2>1, FinishKeeps
<1>6. ASSUME NEW b \in {"no", "wait"}, NEW h \in Item \cup {End},
             st' = [st EXCEPT ![i] = [st[i] EXCEPT !.done = TRUE, !.busy = b, !.held = h]]
      PROVE  /\ Touched(i) /\ st' \in [Ids -> Stream] /\ \A j \in Ids : j # i => st'[j] = st[j]
  <2>1. [st[i] EXCEPT !.done = TRUE, !.busy = b, !.held = h] \in Stream  BY <1>2 DEF Stream
  <2>2. /\ st' \in [Ids -> Stream] /\ \A j \in Ids : j # i => st'[j] = st[j]
        /\ st'[i] = [st[i] EXCEPT !.done = TRUE, !.busy = b, !.held = h]
    BY <1>1, <1>2, <1>6, <2>1
  <2>3. /\ st'[i].closed = st[i].closed /\ st'[i].inner = st[i].inner /\ st'[i].file = st[i].file
        /\ st'[i].jobs = st[i].jobs /\ st'[i].cursor = st[i].cursor /\ st'[i].busy = b
    BY <1>2, <2>2 DEF Stream
  <2>4. Touched(i)  BY <1>1, <1>2, <2>2, <2>3 DEF Touched, HoldsAsOne
  <2> QED  BY <2>2, <2>4
<1>7. st[i].held \in Item \cup {End}  BY <1>2 DEF Stream
<1>8. CASE /\ NoError /\ UNCHANGED dropped
           /\ st' = [st EXCEPT ![i].done = TRUE, ![i].busy = "no", ![i].held = End]
           /\ Give(i, st[i].held) /\ UNCHANGED <<files, procs, watchVars>>
  <2>1. st' = [st EXCEPT ![i] = [st[i] EXCEPT !.done = TRUE, !.busy = "no", !.held = End]]
    BY <1>1, <1>2, <1>8
  <2>2. Touched(i)  BY <1>6, <2>1
  <2>3. WatchType' /\ WatchOpen' /\ armed' = armed
    BY <1>1, <1>2, <1>8, <2>2, TouchedWatch DEF KeepRest
  <2>4. /\ dropped' \subseteq Item /\ (NoError \/ Error) /\ UNCHANGED <<files, procs>>
        /\ IInv /\ Give(i, st[i].held)
    BY <1>2, <1>8
  <2> QED  BY ONLY <1>1, <1>2, <1>7, <2>2, <2>3, <2>4, StepTouchGiving
<1>9. CASE /\ NoError /\ UNCHANGED dropped
           /\ st' = [st EXCEPT ![i].done = TRUE, ![i].busy = "wait"]
           /\ answer' = NoAnswer /\ UNCHANGED <<calls, files, procs, watchVars>>
  <2>1. st' = [st EXCEPT ![i] = [st[i] EXCEPT !.done = TRUE, !.busy = "wait", !.held = st[i].held]]
    <3>1. st' = [st EXCEPT ![i] = [st[i] EXCEPT !.done = TRUE, !.busy = "wait"]]
      BY <1>1, <1>2, <1>9
    <3>2. [st[i] EXCEPT !.done = TRUE, !.busy = "wait"]
            = [st[i] EXCEPT !.done = TRUE, !.busy = "wait", !.held = st[i].held]
      BY <1>2 DEF Stream
    <3> QED  BY <3>1, <3>2
  <2>2. Touched(i) /\ st' \in [Ids -> Stream] /\ \A j \in Ids : j # i => st'[j] = st[j]
    BY <1>6, <1>7, <2>1
  <2>3. UNCHANGED <<kind, files, procs, leaked, temporary>> /\ UNCHANGED <<kind, consumer, phase, temporary>>
        /\ UNCHANGED <<cancelled, consumer, phase, output, target>>
    BY <1>1, <1>9 DEF KeepRest
  <2>4. WatchType' /\ WatchOpen' /\ armed' = armed  BY <1>1, <1>2, <1>9, <2>2, <2>3, TouchedWatch
  <2>5. Holding'  BY <1>1, <1>2, <2>2, <2>3, <2>4, TouchHolding DEF Touched
  <2>6. calls' = calls /\ answer' = NoAnswer /\ i \in Main  BY <1>9
  <2>7. \A m \in Above(i) : st'[m] = st[m]  BY <1>1, <2>2, AboveIsOther
  <2>8. Talking'  BY ONLY <1>2, <2>2, <2>3, <2>6, <2>7, StayTalking
  <2>9. RestType'
    <3>1. dropped' \subseteq Item /\ (NoError \/ Error)  BY <1>2, <1>9
    <3> QED  BY <1>2, <2>3, <3>1, ErrorTypes, RestKept
  <2> QED  BY <2>5, <2>8, <2>9 DEF IInv
<1> QED  BY <1>3, <1>4, <1>5, <1>8, <1>9 DEF ParallelSourceEnded

(* A stage that waits for its oldest child.                                  *)
LEMMA WaitingFacts ==
    ASSUME IInv, NEW i \in Main, Waiting(i)
    PROVE  /\ Holding /\ Talking /\ RestType /\ OnTop(i) /\ i \in Ids /\ kind[i] = "parallel"
           /\ ~st[i].closed /\ st[i].inner = 0 /\ st[i] \in Stream /\ HoldsAsOne(kind[i], st[i])
           /\ st \in [Ids -> Stream] /\ kind \in [Ids -> AnyKind] /\ dropped \subseteq Item
           /\ st[i].jobs \in Seq(Job) /\ Oldest(i).item \in Item
           /\ Tail(st[i].jobs) \in Seq(Job) /\ Len(st[i].jobs) = Len(Tail(st[i].jobs)) + 1
           /\ Len(Tail(st[i].jobs)) \in Nat /\ Len(Tail(st[i].jobs)) < Width
           /\ i - 1 \in Main /\ i - 1 \in Ids /\ kind[i - 1] # "none"
<1>1. Holding /\ Talking /\ RestType  BY DEF IInv
<1>2. OnTop(i) /\ kind[i] = "parallel" /\ Jobs(i) # <<>>  BY DEF Waiting, Asked, OnTop
<1>3. /\ i \in Ids /\ st[i] \in Stream /\ Fit(kind, st) /\ HoldsAsOne(kind[i], st[i])
      /\ kind \in [Ids -> AnyKind] /\ st \in [Ids -> Stream]
  BY ONLY <1>1, <1>2, TopFacts
<1>4. st[i].jobs # <<>> /\ st[i].jobs \in Seq(Job)  BY <1>2, <1>3 DEF Jobs, Stream
<1>5. ~st[i].closed /\ Len(st[i].jobs) <= Width  BY <1>3, <1>4 DEF HoldsAsOne
<1>6. st[i].jobs[1] \in Job
  BY <1>4
<1>7. Oldest(i).item \in Item  BY <1>6 DEF Oldest, Jobs, Job
<1>8. /\ Tail(st[i].jobs) \in Seq(Job) /\ Len(st[i].jobs) = Len(Tail(st[i].jobs)) + 1
      /\ Len(Tail(st[i].jobs)) \in Nat
  BY <1>4
<1>9. Len(Tail(st[i].jobs)) < Width  BY <1>5, <1>8, IdFacts
<1>10. kind[i] \in StageKinds  BY <1>2 DEF StageKinds
<1>11. /\ i - 1 \in Main /\ i - 1 \in Ids /\ kind[i - 1] # "none" /\ st[i].inner = 0
  BY <1>2, <1>3, <1>10, StageFacts
<1>12. dropped \subseteq Item  BY <1>1 DEF RestType
<1> QED  BY <1>1, <1>2, <1>3, <1>4, <1>5, <1>7, <1>8, <1>9, <1>11, <1>12

LEMMA CollectKeeps ==
    ASSUME IInv, NEW i \in Main, Collect(i)
    PROVE  IInv'
<1>1. /\ Waiting(i) /\ KeepRest /\ files' = Less(files, 1) /\ procs' = Less(procs, 1)
      /\ NoError /\ UNCHANGED <<watchVars, dropped>>
  BY DEF Collect, Step
<1>2. /\ Holding /\ Talking /\ RestType /\ OnTop(i) /\ i \in Ids /\ kind[i] = "parallel"
      /\ ~st[i].closed /\ st[i].inner = 0 /\ st[i] \in Stream /\ HoldsAsOne(kind[i], st[i])
      /\ st \in [Ids -> Stream] /\ kind \in [Ids -> AnyKind] /\ dropped \subseteq Item
      /\ st[i].jobs \in Seq(Job) /\ Oldest(i).item \in Item
      /\ Tail(st[i].jobs) \in Seq(Job) /\ Len(st[i].jobs) = Len(Tail(st[i].jobs)) + 1
      /\ Len(Tail(st[i].jobs)) \in Nat /\ Len(Tail(st[i].jobs)) < Width
      /\ i - 1 \in Main /\ i - 1 \in Ids /\ kind[i - 1] # "none"
  BY <1>1, WaitingFacts
<1> DEFINE jobs == Tail(st[i].jobs)
           fewer == [st[i] EXCEPT !.jobs = jobs]
<1>3. Collected(i) = [st EXCEPT ![i] = fewer]  BY <1>2 DEF Collected, Stream
<1>4. ASSUME NEW b \in {"no", "refill"}, NEW h \in Item \cup {End},
             st' = [st EXCEPT ![i] = [fewer EXCEPT !.busy = b, !.held = h]]
      PROVE  /\ st' \in [Ids -> Stream] /\ Holding' /\ \A m \in Above(i) : st'[m] = st[m]
             /\ st'[i].closed = st[i].closed /\ st'[i].inner = st[i].inner /\ st'[i].jobs = jobs
  <2> HIDE DEF jobs
  <2>0. jobs \in Seq(Job) /\ Len(st[i].jobs) = Len(jobs) + 1 /\ Len(jobs) \in Nat /\ Len(jobs) < Width
    BY <1>2 DEF jobs
  <2>1. [fewer EXCEPT !.busy = b, !.held = h] \in Stream  BY <1>2, <2>0 DEF Stream
  <2>2. /\ st' \in [Ids -> Stream] /\ \A j \in Ids : j # i => st'[j] = st[j]
        /\ st'[i] = [fewer EXCEPT !.busy = b, !.held = h]
    BY <1>2, <1>4, <2>1
  <2>3. /\ st'[i].closed = st[i].closed /\ st'[i].inner = st[i].inner /\ st'[i].file = st[i].file
        /\ st'[i].jobs = jobs /\ st'[i].cursor = st[i].cursor /\ st'[i].busy = b
    BY <1>2, <2>2 DEF Stream
  <2>4. HoldsAsOne(kind[i], st'[i])
    BY <1>2, <2>0, <2>3, IdFacts DEF HoldsAsOne
  <2>5. Len(st[i].jobs) = Len(st'[i].jobs) + 1  BY <2>0, <2>3
  <2>6. /\ UNCHANGED <<kind, temporary, watchVars>>
        /\ \/ files' = Less(files, 1) /\ leaked' = leaked
           \/ files' = files /\ leaked' = leaked + 1
    <3>1. UNCHANGED <<kind, temporary, watchVars>>  BY ONLY <1>1 DEF KeepRest
    <3>2. leaked' = leaked  BY ONLY <1>1 DEF KeepRest
    <3> QED  BY ONLY <1>1, <3>1, <3>2
  <2>7. Holding'
    BY ONLY <1>1, <1>2, <2>2, <2>3, <2>4, <2>5, <2>6, CollectHolding
  <2>8. \A m \in Above(i) : st'[m] = st[m]  BY <1>2, <2>2, AboveIsOther
  <2> QED  BY <2>2, <2>3, <2>7, <2>8
<1>5. UNCHANGED <<kind, consumer, phase, temporary>> /\ UNCHANGED <<cancelled, consumer, phase, output, target>>
  BY <1>1 DEF KeepRest
<1>6. RestType'
  <2>1. dropped' \subseteq Item /\ (NoError \/ Error)  BY <1>1, <1>2
  <2> QED  BY <1>2, <1>5, <2>1, ErrorTypes, RestKept
<1>7. CASE st' = [Collected(i) EXCEPT ![i].busy = "no"] /\ Give(i, Oldest(i).item)
  <2>1. st' = [st EXCEPT ![i] = [fewer EXCEPT !.busy = "no", !.held = st[i].held]]
    <3> HIDE DEF jobs
    <3>1. st' = [st EXCEPT ![i] = [fewer EXCEPT !.busy = "no"]]  BY <1>2, <1>3, <1>7
    <3>2. [fewer EXCEPT !.busy = "no"] = [fewer EXCEPT !.busy = "no", !.held = st[i].held]
      BY <1>2 DEF Stream
    <3> QED  BY <3>1, <3>2
  <2>2. "no" \in {"no", "refill"} /\ st[i].held \in Item \cup {End}  BY <1>2 DEF Stream
  <2>3. /\ st' \in [Ids -> Stream] /\ Holding' /\ \A m \in Above(i) : st'[m] = st[m]
    BY ONLY <1>4, <2>1, <2>2
  <2>4. Give(i, Oldest(i).item) /\ Oldest(i).item \in Item \cup {End}  BY <1>2, <1>7
  <2>5. Talking'  BY ONLY <1>2, <1>5, <2>3, <2>4, GiveTalking
  <2> QED  BY <1>6, <2>3, <2>5 DEF IInv
<1>8. CASE /\ st' = [Collected(i) EXCEPT ![i].busy = "refill", ![i].held = Oldest(i).item]
           /\ Ask(i - 1)
  <2>1. st' = [st EXCEPT ![i] = [fewer EXCEPT !.busy = "refill", !.held = Oldest(i).item]]
    <3> HIDE DEF jobs, fewer
    <3> QED  BY <1>2, <1>3, <1>8
  <2>2. "refill" \in {"no", "refill"} /\ Oldest(i).item \in Item \cup {End}  BY <1>2
  <2>3. /\ st' \in [Ids -> Stream] /\ Holding' /\ \A m \in Above(i) : st'[m] = st[m]
        /\ st'[i].closed = st[i].closed /\ st'[i].inner = st[i].inner /\ st'[i].jobs = jobs
    BY ONLY <1>4, <2>1, <2>2
  <2>4. WaitsFor(kind'[i], st'[i], i, i - 1)
    BY <1>2, <1>5, <2>3 DEF WaitsFor, StageKinds
  <2>5. /\ \A m \in Main : kind'[m] = kind[m]
        /\ kind'[i - 1] # "none" /\ Ask(i - 1) /\ (i - 1 = i - 1 => i - 1 \in Main)
        /\ (i - 1 = i - 1 \/ (i - 1 = Inner(i) /\ st'[i].inner # 0))
        /\ kind' \in [Ids -> AnyKind] /\ i \in Main
    BY <1>2, <1>5, <1>8
  <2>6. Talking'  BY ONLY <1>2, <1>5, <2>3, <2>4, <2>5, AskTalking
  <2> QED  BY <1>6, <2>3, <2>6 DEF IInv
<1> QED  BY <1>7, <1>8 DEF Collect

LEMMA CollectFailsKeeps ==
    ASSUME IInv, NEW i \in Main, CollectFails(i)
    PROVE  IInv'
<1>1. OnTop(i) /\ KeepRest /\ FailClosed(i)  BY DEF CollectFails, Waiting, Asked, OnTop, Step
<1> QED  BY <1>1, FinishKeeps

(* A child changes its state, and perhaps the consumer's file is gone.       *)
LEMMA JobsKeep ==
    ASSUME IInv, NEW i \in Main, NEW jobs \in Seq(Job), Len(jobs) = Len(st[i].jobs),
           ChangeJobs(i, jobs),
           temporary' = temporary \/ (temporary = "open" /\ temporary' = "gone")
    PROVE  IInv'
<1>1. /\ Holding /\ Talking /\ RestType /\ i \in Ids  BY IdFacts DEF IInv
<1>2. /\ Fit(kind, st) /\ kind \in [Ids -> AnyKind] /\ st \in [Ids -> Stream] /\ armed \in BOOLEAN
      /\ HoldType /\ WatchOpen /\ Sums /\ files <= MaxFiles /\ procs <= MaxProcesses
  BY <1>1, BookFacts
<1>3. /\ st' = [st EXCEPT ![i].jobs = jobs]
      /\ UNCHANGED <<failed, cancelled, files, procs>> /\ UNCHANGED watchVars
      /\ UNCHANGED <<kind, calls, answer, consumer, phase, output, target, dropped, erred, leaked>>
  BY DEF ChangeJobs, runtimeVars
<1>4. st[i] \in Stream  BY <1>1, <1>2
<1>5. [st[i] EXCEPT !.jobs = jobs] \in Stream  BY <1>4 DEF Stream
<1>6. /\ st' \in [Ids -> Stream] /\ \A j \in Ids : j # i => st'[j] = st[j]
      /\ st'[i] = [st[i] EXCEPT !.jobs = jobs]
  BY <1>1, <1>2, <1>3, <1>5
<1>7. /\ st'[i].closed = st[i].closed /\ st'[i].inner = st[i].inner /\ st'[i].file = st[i].file
      /\ st'[i].cursor = st[i].cursor /\ st'[i].busy = st[i].busy /\ st'[i].left = st[i].left
      /\ st'[i].jobs = jobs
  BY <1>4, <1>6 DEF Stream
<1>8. HoldsAsOne(kind[i], st[i])  BY <1>1, <1>2 DEF Fit, HoldsByKind
<1>9. jobs = <<>> <=> st[i].jobs = <<>>  BY <1>4 DEF Stream
<1>10. HoldsAsOne(kind[i], st'[i])  BY <1>7, <1>8, <1>9 DEF HoldsAsOne
<1>11. Fit(kind, st')
  <2>1. st'[i].file => st[i].file \/ i \in Main \/ st[i - Stages].inner # 0  BY <1>7
  <2>2. /\ st'[i].closed = st[i].closed /\ st'[i].inner = st[i].inner /\ i \in Ids
        /\ kind \in [Ids -> AnyKind] /\ st \in [Ids -> Stream] /\ Fit(kind, st)
    BY <1>1, <1>2, <1>7
  <2> QED  BY ONLY <1>6, <1>10, <2>1, <2>2, TouchFits
<1>12. \A m \in Ids : /\ st'[m].closed = st[m].closed /\ st'[m].inner = st[m].inner
                      /\ st'[m].busy = st[m].busy /\ Len(st'[m].jobs) = Len(st[m].jobs)
                      /\ st'[m].left = st[m].left /\ st'[m].file = st[m].file
  BY <1>6, <1>7
<1>13. Hold(st', armed, Ids) = Hold(st, armed, Ids) /\ Kids(st', Ids) = Kids(st, Ids)
  <2>1. \A m \in Ids : Len(st'[m].jobs) = Len(st[m].jobs) /\ st'[m].file = st[m].file  BY <1>12
  <2> QED  BY ONLY <1>2, <1>6, <2>1, SameHold
<1>14. /\ tree' = tree /\ seen' = seen /\ armed' = armed /\ wake' = wake /\ events' = events
       /\ step' = step /\ changes' = changes /\ missed' = missed /\ reported' = reported
  BY <1>3 DEF watchVars
<1>15. temporary' \in {"none", "open", "gone"} /\ (temporary' = "none" <=> temporary = "none")
  BY <1>2 DEF HoldType
<1>16. HoldType'  BY <1>2, <1>3, <1>6, <1>14, <1>15 DEF HoldType, WatchType
<1>17. WatchOpen'
  <2>1. st'[1].closed = st[1].closed  BY <1>12, SourceIsId
  <2> QED  BY <1>2, <1>3, <1>14, <2>1 DEF WatchOpen
<1>18. Sums'  BY <1>2, <1>3, <1>13, <1>14, <1>15 DEF Sums
<1>19. Holding'  BY <1>2, <1>3, <1>11, <1>16, <1>17, <1>18 DEF Holding
<1>20. Talking'
  <2>1. /\ calls \in Seq(Ids) /\ answer \in [from : Ids \cup {0}, item : Item \cup {End}]
        /\ CallsFit(kind, st, calls, answer.from) /\ Phases
    BY <1>1 DEF Talking, TalkType
  <2>2. answer.from \in Ids \cup {0}  BY <2>1
  <2>3. \A m \in Ids : /\ st'[m].closed = st[m].closed /\ st'[m].inner = st[m].inner
                       /\ st'[m].busy = st[m].busy /\ Len(st'[m].jobs) = Len(st[m].jobs)
                       /\ st'[m].left = st[m].left
    BY <1>12
  <2>4. CallsFit(kind, st', calls, answer.from)
    BY ONLY <1>2, <1>6, <2>1, <2>2, <2>3, SameFits
  <2>5. Phases'  BY <1>3, <1>12, <1>15, <2>1 DEF Phases
  <2> QED  BY <1>3, <2>1, <2>4, <2>5 DEF Talking, TalkType
<1>21. RestType'  BY <1>1, <1>3 DEF RestType
<1> QED  BY <1>19, <1>20, <1>21 DEF IInv

LEMMA WorkerEndsKeeps ==
    ASSUME IInv, NEW i \in Main, WorkerEnds(i)
    PROVE  IInv'
<1>1. PICK k \in 1..Len(Jobs(i)), state \in {"ok", "error", "bad"} :
        /\ ChangeJobs(i, [Jobs(i) EXCEPT ![k].state = state])
        /\ UNCHANGED temporary
  BY DEF WorkerEnds
<1> DEFINE jobs == [Jobs(i) EXCEPT ![k].state = state]
<1>2. st[i].jobs \in Seq(Job)  BY IdFacts DEF IInv, Holding, HoldType, Stream
<1>3. st[i].jobs[k] \in Job /\ k \in 1..Len(st[i].jobs)  BY <1>1, <1>2 DEF Jobs
<1>4. [st[i].jobs[k] EXCEPT !.state = state] \in Job  BY <1>3, <1>1 DEF Job
<1>5. jobs \in Seq(Job) /\ Len(jobs) = Len(st[i].jobs)
  <2>1. jobs = [st[i].jobs EXCEPT ![k] = [st[i].jobs[k] EXCEPT !.state = state]]
    BY <1>2, <1>3 DEF Jobs
  <2>2. st[i].jobs \in [1..Len(st[i].jobs) -> Job] /\ Len(st[i].jobs) \in Nat  BY <1>2
  <2>3. jobs \in [1..Len(st[i].jobs) -> Job]  BY <1>3, <1>4, <2>1, <2>2
  <2> HIDE DEF jobs
  <2> QED  BY <2>2, <2>3
<1>6. ChangeJobs(i, jobs) /\ temporary' = temporary  BY <1>1
<1> HIDE DEF jobs
<1> QED  BY <1>5, <1>6, JobsKeep

LEMMA WorkerOverMemoryKeeps ==
    ASSUME IInv, NEW i \in Main, WorkerOverMemory(i)
    PROVE  IInv'
<1>1. PICK k \in 1..Len(Jobs(i)) : \E hit \in SUBSET (1..k - 1) :
        ChangeJobs(i, [j \in 1..Len(Jobs(i)) |->
                        IF j = k THEN [Jobs(i)[j] EXCEPT !.state = "bad"]
                        ELSE IF j \in hit THEN [Jobs(i)[j] EXCEPT !.state = "error"]
                        ELSE Jobs(i)[j]])
  BY DEF WorkerOverMemory
<1>2. PICK hit \in SUBSET (1..k - 1) :
        ChangeJobs(i, [j \in 1..Len(Jobs(i)) |->
                        IF j = k THEN [Jobs(i)[j] EXCEPT !.state = "bad"]
                        ELSE IF j \in hit THEN [Jobs(i)[j] EXCEPT !.state = "error"]
                        ELSE Jobs(i)[j]])
  BY <1>1
<1> DEFINE jobs == [j \in 1..Len(Jobs(i)) |->
                      IF j = k THEN [Jobs(i)[j] EXCEPT !.state = "bad"]
                      ELSE IF j \in hit THEN [Jobs(i)[j] EXCEPT !.state = "error"]
                      ELSE Jobs(i)[j]]
<1>3. st[i].jobs \in Seq(Job)  BY IdFacts DEF IInv, Holding, HoldType, Stream
<1>4. \A j \in 1..Len(Jobs(i)) : Jobs(i)[j] \in Job /\ jobs[j] \in Job
  <2> TAKE j \in 1..Len(Jobs(i))
  <2>1. Jobs(i)[j] \in Job  BY <1>3 DEF Jobs
  <2>2. /\ [Jobs(i)[j] EXCEPT !.state = "bad"] \in Job
        /\ [Jobs(i)[j] EXCEPT !.state = "error"] \in Job
    BY <2>1 DEF Job
  <2> QED  BY <2>1, <2>2
<1>5. jobs \in [1..Len(Jobs(i)) -> Job]  BY ONLY <1>4
<1>6. jobs \in Seq(Job) /\ Len(jobs) = Len(st[i].jobs)
  <2>1. Len(Jobs(i)) \in Nat  BY <1>3 DEF Jobs
  <2> HIDE DEF jobs
  <2> QED  BY <1>5, <2>1 DEF Jobs
<1>7. ChangeJobs(i, jobs)  BY <1>2
<1>8. temporary' = temporary \/ (temporary = "open" /\ temporary' = "gone")  BY DEF WorkerOverMemory
<1> HIDE DEF jobs
<1> QED  BY <1>6, <1>7, <1>8, JobsKeep

-----------------------------------------------------------------------------
(* The consumer and the end of the program.                                  *)

(* The streams in S are shut, and perhaps the consumer's file with them.     *)
LEMMA ShutHolding ==
    ASSUME Holding, NEW S \in SUBSET Ids, NEW e \in {0, 1}, Fit(kind, ShutIn(st, S)), st' = Shut(S),
           \/ files' = Less(Less(files, HeldBy(S)), e)
           \/ files' = Less(Less(files, e), HeldBy(S)),
           procs' = Less(procs, Active(S)),
           (IF temporary = "none" THEN 0 ELSE 1) = e + (IF temporary' = "none" THEN 0 ELSE 1),
           temporary' \in {"none", "open", "gone"},
           WatchClosed(1 \in S /\ kind[1] = "watch"), UNCHANGED <<kind, leaked>>
    PROVE  Holding'
<1>1. /\ files \in Nat /\ procs \in Nat
      /\ Cardinality(Hold(st, armed, S)) \in Nat /\ Cardinality(Kids(st, S)) \in Nat
      /\ Cardinality(Hold(st, armed, S)) + (IF temporary = "none" THEN 0 ELSE 1) <= files
      /\ Cardinality(Kids(st, S)) <= procs
      /\ HeldBy(S) = Cardinality(Hold(st, armed, S)) /\ Active(S) = Cardinality(Kids(st, S))
      /\ st \in [Ids -> Stream]
  BY InTheBooks
<1>2. st' = ShutIn(st, S)  BY SameNames
<1>3. st' \in [Ids -> Stream] /\ \A j \in Ids \ S : st'[j] = st[j]  BY <1>1, <1>2, ShutType
<1>4. \A j \in Ids : /\ Len(st'[j].jobs) = Len(ShutIn(st, S)[j].jobs)
                     /\ st'[j].file = ShutIn(st, S)[j].file
  BY <1>2
<1>5. Fit(kind, st')  BY <1>2
<1>6. kind[1] = "watch" /\ 1 \notin S /\ st'[1].closed => st[1].closed
  BY <1>3, SourceIsId
<1> DEFINE h == Cardinality(Hold(st, armed, S))
           n == Cardinality(Kids(st, S))
<1>7. h \in Nat /\ n \in Nat /\ n <= procs /\ e \in Nat /\ h + e <= files
  <2>1. e <= (IF temporary = "none" THEN 0 ELSE 1)  OBVIOUS
  <2> QED  BY <1>1, <2>1
<1>8. files' = files - h - e
  <2>1. files' = Less(Less(files, h), e) \/ files' = Less(Less(files, e), h)  BY <1>1
  <2> HIDE DEF h, n
  <2>2. h <= files /\ e <= files /\ e <= files - h /\ h <= files - e  BY <1>1, <1>7
  <2>3. Less(files, h) = files - h /\ Less(files, h) \in Nat  BY <1>1, <1>7, <2>2, LessFacts
  <2>4. Less(files, e) = files - e /\ Less(files, e) \in Nat  BY <1>1, <1>7, <2>2, LessFacts
  <2>5. Less(files - h, e) = files - h - e  BY <1>7, <2>2, <2>3, LessFacts
  <2>6. Less(files - e, h) = files - e - h  BY <1>7, <2>2, <2>4, LessFacts
  <2> QED  BY <1>1, <1>7, <2>1, <2>3, <2>4, <2>5, <2>6
<1>9. procs' = procs - n
  <2>1. procs' = Less(procs, n)  BY <1>1
  <2> HIDE DEF n
  <2> QED  BY <1>1, <1>7, <2>1, LessFacts
<1>10. /\ Holding /\ S \in SUBSET Ids /\ e \in {0, 1}
       /\ files' = files - Cardinality(Hold(st, armed, S)) - e
       /\ procs' = procs - Cardinality(Kids(st, S))
       /\ (IF temporary = "none" THEN 0 ELSE 1) = e + (IF temporary' = "none" THEN 0 ELSE 1)
       /\ temporary' \in {"none", "open", "gone"} /\ UNCHANGED <<kind, leaked>>
  BY <1>8, <1>9
<1>11. WatchClosed(1 \in S /\ kind[1] = "watch")  OBVIOUS
<1> QED  BY ONLY <1>3, <1>4, <1>5, <1>6, <1>10, <1>11, ShutBooks

(* The stack of calls when nothing is pulled.                                *)
LEMMA IdleTalking ==
    ASSUME IInv, Len(calls) <= 1, calls # <<>> => answer.from = 0,
           \A j \in Ids : st'[j].inner = st[j].inner, UNCHANGED <<kind, calls, answer>>
    PROVE  TalkType' /\ CallsFit(kind', st', calls', answer'.from)
<1>1. TalkType /\ CallsFit(kind, st, calls, answer.from)  BY DEF IInv, Talking
<1>2. calls \in Seq(Ids) /\ Len(calls) \in Nat  BY <1>1 DEF TalkType
<1>3. \A m \in 1..Len(calls) : m = 1 /\ Len(calls) = 1 /\ calls[m] \in Ids /\ answer.from = 0
  <2> TAKE m \in 1..Len(calls)
  <2>1. Len(calls) = 1 /\ m = 1
    <3> DEFINE n == Len(calls)
    <3>1. n \in Nat /\ n <= 1 /\ m \in 1..n  BY <1>2
    <3> HIDE DEF n
    <3>2. n = 1 /\ m = 1  BY <3>1
    <3> QED  BY <3>2 DEF n
  <2>2. calls # <<>>
    <3>1. Len(<<>>) = 0  OBVIOUS
    <3> QED  BY <2>1, <3>1
  <2> QED  BY <1>2, <2>1, <2>2
<1>4. \A j \in Ids \ Main : j - Stages \in Ids  BY IdFacts
<1>5. Descends(kind, st', calls)  BY <1>1, <1>3, <1>4 DEF CallsFit, Descends
<1>6. Waits(kind, st', calls, answer.from)
  <2>1. \A m \in 1..Len(calls) : ~Pending(calls, answer.from, m)  BY <1>3 DEF Pending
  <2> QED  BY <2>1 DEF Waits
<1> QED  BY <1>1, <1>5, <1>6 DEF CallsFit, TalkType

(* The stack of calls is left.                                               *)
LEMMA LeftTalking ==
    ASSUME IInv, calls' = <<>>, answer' = NoAnswer, phase' = "ended",
           UNCHANGED <<kind, consumer, temporary>>
    PROVE  Talking'
<1>1. TalkType'  BY DEF TalkType, NoAnswer
<1>2. CallsFit(kind', st', calls', answer'.from)
  BY DEF CallsFit, Descends, Waits
<1>3. Phases'
  <2>1. temporary # "none" => consumer = "save"  BY DEF IInv, Talking, Phases
  <2> QED  BY <2>1 DEF Phases, NoAnswer
<1> QED  BY <1>1, <1>2, <1>3 DEF Talking

LEMMA BeginKeeps ==
    ASSUME IInv, Begin
    PROVE  IInv'
<1>1. /\ Holding /\ Talking /\ RestType /\ phase = "start" /\ Phases /\ TalkType
      /\ UNCHANGED <<calls, answer, consumer, output, target, dropped, leaked>>
  BY DEF IInv, Begin, Talking
<1>2. /\ HoldType /\ Fit(kind, st) /\ WatchOpen /\ Sums /\ WatchType
      /\ kind \in [Ids -> AnyKind] /\ st \in [Ids -> Stream]
      /\ files \in Nat /\ files <= MaxFiles /\ procs <= MaxProcesses
  BY <1>1, BookFacts
<1>3. Len(calls) <= 1 /\ (calls # <<>> => answer.from = 0) /\ temporary = "none"
      /\ IF answer.from = 0 THEN answer.item = End ELSE kind[answer.from] # "none"
  BY <1>1 DEF Phases
<1>4. CASE /\ consumer # "save"
           /\ phase' = "pulling"
           /\ UNCHANGED <<runtimeVars, watchVars, kind, st, temporary, erred>>
  <2>1. UNCHANGED <<failed, cancelled, files, procs>> /\ UNCHANGED <<kind, st, temporary, erred>>
        /\ UNCHANGED watchVars
    BY <1>4 DEF runtimeVars
  <2>2. Holding'  BY <1>1, <2>1, KeepHolding
  <2>3. TalkType' /\ CallsFit(kind', st', calls', answer'.from)
    BY <1>1, <1>3, <2>1, IdleTalking
  <2>4. Phases'  BY <1>1, <1>3, <1>4, <2>1 DEF Phases
  <2>5. RestType'  BY <1>1, <1>4, <2>1 DEF RestType
  <2> QED  BY <2>2, <2>3, <2>4, <2>5 DEF IInv, Talking
<1>5. CASE /\ consumer = "save" /\ FileFree
           /\ files' = files + 1
           /\ temporary' = "open" /\ phase' = "pulling"
           /\ UNCHANGED <<failed, cancelled, procs, watchVars, kind, st, erred>>
  <2>1. /\ tree' = tree /\ seen' = seen /\ armed' = armed /\ wake' = wake /\ events' = events
        /\ step' = step /\ changes' = changes /\ missed' = missed /\ reported' = reported
    BY <1>5 DEF watchVars
  <2>2. HoldType'  BY <1>1, <1>2, <1>5, <2>1 DEF HoldType, WatchType
  <2>3. WatchOpen'  BY <1>2, <1>5, <2>1 DEF WatchOpen
  <2>4. Sums'
    <3>1. Cardinality(Hold(st, armed, Ids)) \in Nat /\ leaked \in Nat  BY <1>1, BookFacts
    <3> DEFINE h == Cardinality(Hold(st, armed, Ids))
    <3>2. files = h + leaked + 0 /\ h \in Nat  BY <1>2, <1>3, <3>1 DEF Sums
    <3>3. Cardinality(Hold(st', armed', Ids)) = h /\ procs' = Cardinality(Kids(st', Ids))
      BY <1>2, <1>5, <2>1 DEF Sums
    <3> HIDE DEF h
    <3>4. files' = h + leaked' + 1  BY <1>1, <1>5, <3>1, <3>2
    <3> QED  BY <1>5, <3>3, <3>4 DEF Sums
  <2>5. files' <= MaxFiles /\ procs' <= MaxProcesses
    <3>1. files < MaxFiles /\ MaxFiles \in Nat  BY <1>5, LimitAssumption DEF FileFree
    <3> QED  BY <1>2, <1>5, <3>1
  <2>6. Holding'  BY <1>2, <1>5, <2>2, <2>3, <2>4, <2>5 DEF Holding
  <2>7. TalkType' /\ CallsFit(kind', st', calls', answer'.from)
    BY <1>1, <1>3, <1>5, IdleTalking
  <2>8. Phases'  BY <1>1, <1>3, <1>5 DEF Phases
  <2>9. RestType'  BY <1>1, <1>5 DEF RestType
  <2> QED  BY <2>6, <2>7, <2>8, <2>9 DEF IInv, Talking
<1>6. CASE /\ Close(Closing(LastStage)) /\ Error
           /\ phase' = "ended"
           /\ UNCHANGED <<cancelled, kind, temporary>>
  <2>1. LastStage \in Ids /\ kind[LastStage] # "none"  BY <1>1, LastIsStage
  <2>2. Close(Closing(LastStage)) /\ UNCHANGED <<kind, leaked, temporary>>  BY <1>1, <1>6
  <2> DEFINE last == LastStage
  <2>3. last \in Ids /\ kind[last] # "none" /\ Close(Closing(last))  BY <2>1, <2>2
  <2> HIDE DEF last
  <2>4. Holding'  BY ONLY <1>1, <2>2, <2>3, CloseHolding
  <2>5. \A j \in Ids : st'[j].inner = st[j].inner
    <3>1. st' = ShutIn(st, ClosingIn(st, last))  BY <2>3, SameNames DEF Close
    <3>2. ClosingIn(st, last) \subseteq Ids  BY <1>2, <2>3, ClosingReaches
    <3> QED  BY <1>2, <3>1, <3>2, ShutType, EmptiedType
  <2>6. TalkType' /\ CallsFit(kind', st', calls', answer'.from)
    BY <1>1, <1>3, <1>6, <2>5, IdleTalking
  <2>7. Phases'  BY <1>1, <1>3, <1>6 DEF Phases
  <2>8. RestType'  BY <1>1, <1>6 DEF RestType, Error
  <2> QED  BY <2>4, <2>6, <2>7, <2>8 DEF IInv, Talking
<1> QED  BY <1>4, <1>5, <1>6 DEF Begin

LEMMA ReadOnKeeps ==
    ASSUME IInv, ReadOn
    PROVE  IInv'
<1>1. /\ Holding /\ Talking /\ RestType /\ Phases /\ TalkType
      /\ phase = "pulling" /\ answer.item # End
      /\ output' = Append(output, answer.item)
      /\ calls' = <<LastStage>> /\ answer' = NoAnswer
      /\ UNCHANGED <<failed, cancelled, files, procs>> /\ UNCHANGED watchVars
      /\ UNCHANGED <<kind, st, consumer, phase, temporary, target, dropped, erred, leaked>>
  BY DEF IInv, ReadOn, Answered, Talking, runtimeVars
<1>2. Holding'  BY <1>1, KeepHolding
<1>3. LastStage \in Main /\ LastStage \in Ids /\ kind[LastStage] # "none"  BY <1>1, LastIsStage
<1> DEFINE last == LastStage
<1>4. last \in Main /\ last \in Ids /\ kind[last] # "none" /\ calls' = <<last>>  BY <1>1, <1>3
<1> HIDE DEF last
<1>5. answer' = [from |-> 0, item |-> End]  BY <1>1 DEF NoAnswer
<1>6. TalkType'  BY <1>4, <1>5 DEF TalkType
<1>7. CallsFit(kind', st', calls', answer'.from)
  <2>1. Len(<<last>>) = 1 /\ \A m \in 1..Len(<<last>>) : m = 1 /\ <<last>>[m] = last  OBVIOUS
  <2>2. Descends(kind, st, <<last>>)  BY <1>4, <2>1 DEF Descends
  <2>3. Waits(kind, st, <<last>>, 0)  BY <2>1 DEF Waits, Pending
  <2> QED  BY <1>1, <1>4, <1>5, <2>2, <2>3 DEF CallsFit
<1>8. Phases'  BY <1>1, <1>5 DEF Phases
<1>9. RestType'
  <2>1. answer.item \in Item  BY <1>1 DEF TalkType
  <2>2. output' \in Seq(Item)  BY <1>1, <2>1 DEF RestType
  <2> QED  BY <1>1, <2>2 DEF RestType
<1> QED  BY <1>2, <1>6, <1>7, <1>8, <1>9 DEF IInv, Talking

LEMMA StopKeeps ==
    ASSUME IInv, Stop
    PROVE  IInv'
<1>1. /\ Holding /\ Talking /\ RestType /\ Phases /\ TalkType
      /\ phase = "pulling" /\ calls = <<>> /\ phase' = "ended"
      /\ LeaveStream
      /\ files' = Less(Less(files, LeftFiles), IF consumer = "save" THEN 1 ELSE 0)
      /\ procs' = IF consumer \in Closes THEN Less(procs, Active(Closing(LastStage))) ELSE procs
      /\ WatchClosed(kind[1] = "watch" /\ consumer \in Closes /\ 1 \in Closing(LastStage))
      /\ temporary' = IF consumer = "save" THEN "none" ELSE temporary
      /\ target' = IF temporary = "open" /\ SaveComplete THEN "new" ELSE target
      /\ UNCHANGED <<cancelled, kind, calls, answer, consumer, dropped, leaked>>
  BY DEF IInv, Stop, Answered, Talking
<1>2. /\ HoldType /\ Fit(kind, st) /\ kind \in [Ids -> AnyKind] /\ st \in [Ids -> Stream]
      /\ files \in Nat
  BY <1>1, BookFacts
<1>3. temporary # "none" <=> consumer = "save"  BY <1>1 DEF Phases
<1>4. temporary' \in {"none", "open", "gone"} /\ temporary' = "none"  BY <1>1, <1>3
<1>5. Holding' /\ \A j \in Ids : st'[j].inner = st[j].inner
  <2>1. CASE consumer \in Closes
    <3> DEFINE last == LastStage
               S == Closing(last)
               e == IF consumer = "save" THEN 1 ELSE 0
    <3>1. last \in Ids /\ kind[last] # "none"  BY <1>1, LastIsStage
    <3>2. /\ st' = Shut(S) /\ files' = Less(Less(files, HeldBy(S)), e)
          /\ procs' = Less(procs, Active(S))
          /\ WatchClosed(kind[1] = "watch" /\ consumer \in Closes /\ 1 \in S)
      BY <1>1, <2>1 DEF LeaveStream, LeftFiles
    <3>3. S = ClosingIn(st, last)  BY SameNames
    <3>4. e \in {0, 1} /\ (IF temporary = "none" THEN 0 ELSE 1) = e + (IF temporary' = "none" THEN 0 ELSE 1)
      BY <1>3, <1>4
    <3> HIDE DEF last, S, e
    <3>5. S \subseteq Ids  BY <1>2, <3>1, <3>3, ClosingReaches
    <3>6. Fit(kind, ShutIn(st, S))  BY <1>2, <3>1, <3>3, ShutFits
    <3>7. WatchClosed(1 \in S /\ kind[1] = "watch")  BY <2>1, <3>2 DEF WatchClosed
    <3>8. UNCHANGED <<kind, leaked>> /\ S \in SUBSET Ids  BY <1>1, <3>5
    <3>9. Holding'
      BY ONLY <1>1, <1>4, <3>2, <3>4, <3>6, <3>7, <3>8, ShutHolding
    <3>10. st' = ShutIn(st, S)  BY <3>2, SameNames
    <3> QED  BY <1>2, <3>8, <3>9, <3>10, ShutType, EmptiedType
  <2>2. CASE consumer \notin Closes
    <3>1. consumer # "save"  BY <2>2 DEF Closes
    <3>2. st' = st /\ procs' = procs /\ temporary' = temporary /\ UNCHANGED watchVars
      BY <1>1, <2>2, <3>1 DEF LeaveStream, WatchClosed
    <3>3. files' = Less(Less(files, 0), 0)  BY <1>1, <2>2, <3>1 DEF LeftFiles
    <3>4. files' = files  BY <1>2, <3>3 DEF Less
    <3> QED  BY <1>1, <3>2, <3>4, KeepHolding
  <2> QED  BY <2>1, <2>2
<1>6. Len(calls) <= 1 /\ (calls # <<>> => answer.from = 0)
  <2>1. Len(<<>>) = 0  OBVIOUS
  <2> QED  BY <1>1, <2>1
<1>7. TalkType' /\ CallsFit(kind', st', calls', answer'.from)
  BY <1>1, <1>5, <1>6, IdleTalking
<1>8. Phases'  BY <1>1, <1>4, <1>6 DEF Phases
<1>9. RestType'
  <2>1. /\ failed' \in BOOLEAN /\ erred' \in BOOLEAN /\ output' \in Seq(Item)
    <3>1. answer.item \in Item \cup {End} /\ output \in Seq(Item) /\ failed \in BOOLEAN /\ erred \in BOOLEAN
      BY <1>1 DEF TalkType, RestType
    <3>2. \/ output' = output /\ NoError
          \/ answer.item # End /\ output' = Append(output, answer.item) /\ NoError
          \/ output' = output /\ Error
      BY DEF Stop
    <3>3. answer.item # End => Append(output, answer.item) \in Seq(Item)  BY <3>1
    <3> QED  BY <3>1, <3>2, <3>3 DEF NoError, Error
  <2>2. target' \in {"old", "new"}  BY <1>1 DEF RestType
  <2> QED  BY <1>1, <2>1, <2>2 DEF RestType
<1> QED  BY <1>5, <1>7, <1>8, <1>9 DEF IInv, Talking

LEMMA ReleaseKeeps ==
    ASSUME IInv, Release
    PROVE  IInv'
<1> DEFINE open == {i \in Ids : kind[i] # "none" /\ ~st[i].closed}
           file == IF temporary = "none" THEN 0 ELSE 1
<1>1. /\ Holding /\ Talking /\ RestType /\ Phases /\ TalkType
      /\ phase = "ended" /\ phase' = "released"
      /\ st' = Shut(open)
      /\ files' = Less(Less(files, file), HeldBy(open))
      /\ procs' = Less(procs, Active(open))
      /\ WatchClosed(kind[1] = "watch" /\ 1 \in open)
      /\ temporary' = "none"
      /\ UNCHANGED <<failed, cancelled, kind, calls, answer, consumer, output, target,
                     dropped, erred, leaked>>
  BY DEF IInv, Release, Talking
<1>2. /\ Fit(kind, st) /\ kind \in [Ids -> AnyKind] /\ st \in [Ids -> Stream]
  BY <1>1, BookFacts
<1>3. open = {i \in Ids : kind[i] # "none" /\ ~st[i].closed} /\ open \in SUBSET Ids  OBVIOUS
<1>4. file \in {0, 1} /\ (IF temporary = "none" THEN 0 ELSE 1) = file + (IF temporary' = "none" THEN 0 ELSE 1)
      /\ temporary' \in {"none", "open", "gone"}
  BY <1>1
<1> HIDE DEF open, file
<1>5. /\ ShutIn(st, open) \in [Ids -> Stream] /\ Fit(kind, ShutIn(st, open))
      /\ \A i \in Ids : kind[i] # "none" => ShutIn(st, open)[i].closed
  BY ONLY <1>2, <1>3, ShutAllFits
<1>6. WatchClosed(1 \in open /\ kind[1] = "watch")  BY <1>1 DEF WatchClosed
<1>7. UNCHANGED <<kind, leaked>>  BY <1>1
<1>8. Holding'  BY ONLY <1>1, <1>3, <1>4, <1>5, <1>6, <1>7, ShutHolding
<1>9. st' = ShutIn(st, open)  BY <1>1, SameNames
<1>10. \A j \in Ids : st'[j].inner = st[j].inner  BY <1>2, <1>3, <1>9, ShutType, EmptiedType
<1>11. Len(calls) <= 1 /\ (calls # <<>> => answer.from = 0)  BY <1>1 DEF Phases
<1>12. TalkType' /\ CallsFit(kind', st', calls', answer'.from)
  BY <1>1, <1>10, <1>11, IdleTalking
<1>13. Phases'  BY <1>1, <1>5, <1>9, <1>11 DEF Phases
<1>14. RestType'  BY <1>1 DEF RestType
<1> QED  BY <1>8, <1>12, <1>13, <1>14 DEF IInv, Talking

LEMMA OutOfMemoryKeeps ==
    ASSUME IInv, OutOfMemory
    PROVE  IInv'
<1>1. /\ Holding /\ RestType
      /\ calls' = <<>> /\ answer' = NoAnswer /\ phase' = "ended" /\ Error
      /\ UNCHANGED <<cancelled, files, procs>> /\ UNCHANGED watchVars
      /\ UNCHANGED <<kind, st, consumer, output, temporary, target, dropped, leaked>>
  BY DEF IInv, OutOfMemory
<1>2. Holding'  BY <1>1, KeepHolding
<1>3. Talking'  BY <1>1, LeftTalking
<1>4. RestType'  BY <1>1 DEF RestType, Error
<1> QED  BY <1>2, <1>3, <1>4 DEF IInv

LEMMA CollectOutOfMemoryKeeps ==
    ASSUME IInv, NEW i \in Main, CollectOutOfMemory(i)
    PROVE  IInv'
<1>1. /\ Waiting(i) /\ st' = Collected(i) /\ procs' = Less(procs, 1) /\ leaked' = leaked + 1
      /\ calls' = <<>> /\ answer' = NoAnswer /\ phase' = "ended" /\ Error
      /\ UNCHANGED <<cancelled, files>> /\ UNCHANGED watchVars
      /\ UNCHANGED <<kind, consumer, output, temporary, target, dropped>>
  BY DEF CollectOutOfMemory
<1>2. /\ Holding /\ RestType /\ i \in Ids
      /\ st[i] \in Stream /\ HoldsAsOne(kind[i], st[i]) /\ kind[i] = "parallel" /\ ~st[i].closed
      /\ st \in [Ids -> Stream]
      /\ Tail(st[i].jobs) \in Seq(Job) /\ Len(st[i].jobs) = Len(Tail(st[i].jobs)) + 1
      /\ Len(Tail(st[i].jobs)) \in Nat /\ Len(Tail(st[i].jobs)) < Width
  BY <1>1, WaitingFacts
<1> DEFINE jobs == Tail(st[i].jobs)
<1>3. st' = [st EXCEPT ![i].jobs = jobs]  BY <1>1 DEF Collected
<1>4. jobs \in Seq(Job) /\ Len(st[i].jobs) = Len(jobs) + 1 /\ Len(jobs) \in Nat /\ Len(jobs) < Width
  BY <1>2
<1> HIDE DEF jobs
<1>5. [st[i] EXCEPT !.jobs = jobs] \in Stream  BY <1>2, <1>4 DEF Stream
<1>6. /\ st' \in [Ids -> Stream] /\ \A j \in Ids : j # i => st'[j] = st[j]
      /\ st'[i] = [st[i] EXCEPT !.jobs = jobs]
  BY <1>2, <1>3, <1>5
<1>7. /\ st'[i].closed = st[i].closed /\ st'[i].inner = st[i].inner /\ st'[i].file = st[i].file
      /\ st'[i].jobs = jobs /\ st'[i].cursor = st[i].cursor /\ st'[i].busy = st[i].busy
  BY <1>2, <1>6 DEF Stream
<1>8. HoldsAsOne(kind[i], st'[i])
  BY <1>2, <1>4, <1>7, IdFacts DEF HoldsAsOne
<1>9. Len(st[i].jobs) = Len(st'[i].jobs) + 1  BY <1>4, <1>7
<1>10. /\ UNCHANGED <<kind, temporary, watchVars>> /\ procs' = Less(procs, 1)
       /\ \/ files' = Less(files, 1) /\ leaked' = leaked
          \/ files' = files /\ leaked' = leaked + 1
  <2>1. UNCHANGED <<kind, temporary, watchVars>>  BY <1>1
  <2>2. files' = files /\ leaked' = leaked + 1 /\ procs' = Less(procs, 1)  BY <1>1
  <2> QED  BY ONLY <2>1, <2>2
<1>11. Holding'  BY ONLY <1>2, <1>6, <1>7, <1>8, <1>9, <1>10, CollectHolding
<1>12. Talking'  BY <1>1, LeftTalking
<1>13. RestType'  BY <1>1, <1>2 DEF RestType, Error
<1> QED  BY <1>11, <1>12, <1>13 DEF IInv

(* A cancellation, and a change of the tree.                                 *)
LEMMA InterruptKeeps ==
    ASSUME IInv, Interrupt, UNCHANGED <<watchVars, pipeVars>>
    PROVE  IInv'
<1>1. /\ Holding /\ Talking /\ RestType
      /\ cancelled' = TRUE /\ UNCHANGED <<failed, files, procs>> /\ UNCHANGED watchVars
      /\ UNCHANGED <<kind, st, calls, answer, consumer, phase, output, temporary, target,
                     dropped, erred, leaked>>
  BY DEF IInv, Interrupt, pipeVars
<1>2. Holding'  BY <1>1, KeepHolding
<1>3. Talking'
  BY <1>1 DEF Talking, TalkType, Phases
<1>4. RestType'  BY <1>1 DEF RestType
<1> QED  BY <1>2, <1>3, <1>4 DEF IInv

LEMMA ChangedTree ==
    ASSUME WatchType, Change
    PROVE  tree' \in Trees
<1> DEFINE File == [inode : Inodes, version : 0..MaxChanges]
           now == changes + 1
<1>1. now \in 0..MaxChanges  BY TreeAssumption DEF WatchType, Change
<1>2. PICK S \in SUBSET Paths : tree \in [S -> File]  BY DEF WatchType, Trees
<1>3. DOMAIN tree = S /\ \A q \in S : tree[q] \in File  BY <1>2
<1>4. SUFFICES \E T \in SUBSET Paths : tree' \in [T -> File]
  BY DEF Trees
<1> HIDE DEF now
<1>5. \A p \in Paths, file \in File : With(p, file) \in [S \cup {p} -> File]
  <2> TAKE p \in Paths, file \in File
  <2> HIDE DEF File
  <2>1. With(p, file) = [q \in S \cup {p} |-> IF q = p THEN file ELSE tree[q]]
    BY <1>3 DEF With
  <2> QED  BY <1>3, <2>1
<1>6. \A p \in Paths : S \cup {p} \in SUBSET Paths  BY <1>2
<1>7. CASE \E p \in Paths \ DOMAIN tree, i \in Inodes \ {tree[q].inode : q \in DOMAIN tree} :
              tree' = With(p, [inode |-> i, version |-> now])
  <2>1. PICK p \in Paths, i \in Inodes : tree' = With(p, [inode |-> i, version |-> now])  BY <1>7
  <2>2. [inode |-> i, version |-> now] \in File  BY <1>1, <2>1
  <2> HIDE DEF File
  <2> QED  BY <1>5, <1>6, <2>1, <2>2
<1>8. CASE \E p \in DOMAIN tree : tree' = [tree EXCEPT ![p].version = now]
  <2>1. PICK p \in S : tree' = [tree EXCEPT ![p].version = now]  BY <1>3, <1>8
  <2>2. [tree[p] EXCEPT !.version = now] \in File  BY <1>1, <1>3, <2>1
  <2> HIDE DEF File
  <2> QED  BY <1>2, <2>1, <2>2
<1>9. CASE \E p \in DOMAIN tree : tree' = Without(p)
  <2>1. PICK p \in S : tree' = Without(p)  BY <1>3, <1>9
  <2> HIDE DEF File
  <2>2. tree' = [q \in S \ {p} |-> tree[q]]  BY <1>3, <2>1 DEF Without
  <2>3. tree' \in [S \ {p} -> File]  BY <1>3, <2>2
  <2> QED  BY <1>2, <2>3
<1>10. CASE \E p \in DOMAIN tree : \E q \in Paths \ {p} :
              tree' = [r \in (DOMAIN tree \cup {q}) \ {p} |-> IF r = q THEN tree[p] ELSE tree[r]]
  <2>1. PICK p \in S, q \in Paths :
          tree' = [r \in (S \cup {q}) \ {p} |-> IF r = q THEN tree[p] ELSE tree[r]]
    BY <1>3, <1>10
  <2> HIDE DEF File
  <2>2. tree' \in [(S \cup {q}) \ {p} -> File]  BY <1>3, <2>1
  <2>3. (S \cup {q}) \ {p} \in SUBSET Paths  BY <1>2, <2>1
  <2> QED  BY <2>2, <2>3
<1>11. CASE \E p \in DOMAIN tree, q \in Paths \ DOMAIN tree : tree' = With(q, tree[p])
  <2>1. PICK p \in S, q \in Paths : tree' = With(q, tree[p])  BY <1>3, <1>11
  <2> HIDE DEF File
  <2> QED  BY <1>3, <1>5, <1>6, <2>1
<1> QED  BY <1>7, <1>8, <1>9, <1>10, <1>11 DEF Change, now

LEMMA ChangeKeeps ==
    ASSUME IInv, Change, UNCHANGED pipeVars
    PROVE  IInv'
<1>1. /\ Holding /\ Talking /\ RestType
      /\ UNCHANGED <<failed, cancelled, files, procs>>
      /\ UNCHANGED <<seen, armed, events, step, reported>>
      /\ UNCHANGED <<kind, st, calls, answer, consumer, phase, output, temporary, target,
                     dropped, erred, leaked>>
  BY DEF IInv, Change, runtimeVars, pipeVars
<1>2. /\ HoldType /\ Fit(kind, st) /\ WatchOpen /\ Sums /\ WatchType
      /\ files <= MaxFiles /\ procs <= MaxProcesses
  BY <1>1, BookFacts
<1>3. tree' \in Trees  BY <1>2, ChangedTree
<1>4. changes' \in 0..MaxChanges /\ wake' \in BOOLEAN /\ missed' \in BOOLEAN
  BY <1>2, TreeAssumption DEF Change, WatchType
<1>5. WatchType'  BY <1>1, <1>2, <1>3, <1>4 DEF WatchType
<1>6. Holding'
  <2>1. HoldType'  BY <1>1, <1>2, <1>5 DEF HoldType
  <2>2. WatchOpen' /\ Sums'  BY <1>1, <1>2 DEF WatchOpen, Sums
  <2> QED  BY <1>1, <1>2, <2>1, <2>2 DEF Holding
<1>7. Talking'  BY <1>1 DEF Talking, TalkType, Phases
<1>8. RestType'  BY <1>1 DEF RestType
<1> QED  BY <1>6, <1>7, <1>8 DEF IInv

LEMMA StutterKeeps ==
    ASSUME IInv, UNCHANGED vars
    PROVE  IInv'
<1>1. /\ Holding /\ Talking /\ RestType
      /\ UNCHANGED <<failed, cancelled, files, procs>> /\ UNCHANGED watchVars
      /\ UNCHANGED <<kind, st, calls, answer, consumer, phase, output, temporary, target,
                     dropped, erred, leaked>>
  BY DEF IInv, vars, runtimeVars, pipeVars
<1>2. Holding'  BY <1>1, KeepHolding
<1>3. Talking'  BY <1>1 DEF Talking, TalkType, Phases
<1>4. RestType'  BY <1>1 DEF RestType
<1> QED  BY <1>2, <1>3, <1>4 DEF IInv

-----------------------------------------------------------------------------
(* The initial states.                                                       *)

LEMMA NoFilesIsTree == NoFiles \in Trees
<1>1. NoFiles \in [{} -> [inode : Inodes, version : 0..MaxChanges]]  BY DEF NoFiles
<1>2. {} \in SUBSET Paths  OBVIOUS
<1> QED  BY <1>1, <1>2 DEF Trees

LEMMA WatchStarts ==
    ASSUME WatchInit \/ NoWatch
    PROVE  WatchType /\ ~armed /\ step = "new"
<1>1. 0 \in 0..MaxChanges /\ MaxChanges \in 0..MaxChanges  BY TreeAssumption
<1>2. <<>> \in Seq([kind : {"renamed", "removed", "modified", "created"}, path : Paths, old : Paths])
  OBVIOUS
<1>3. CASE WatchInit
  <2>1. tree \in [Paths -> [inode : Inodes, version : {0}]]  BY <1>3 DEF WatchInit
  <2>2. [inode : Inodes, version : {0}] \subseteq [inode : Inodes, version : 0..MaxChanges]
    BY <1>1
  <2>3. tree \in [Paths -> [inode : Inodes, version : 0..MaxChanges]]  BY <2>1, <2>2
  <2>4. Paths \in SUBSET Paths  OBVIOUS
  <2>5. tree \in Trees  BY <2>3, <2>4 DEF Trees
  <2> QED  BY <1>1, <1>2, <1>3, <2>5, NoFilesIsTree DEF WatchInit, WatchType
<1>4. CASE NoWatch
  BY <1>1, <1>2, <1>4, NoFilesIsTree DEF NoWatch, WatchType
<1> QED  BY <1>3, <1>4

LEMMA InitIsSound ==
    ASSUME Init
    PROVE  IInv
<1>1. PICK p \in Pipelines :
        /\ kind = [i \in Ids |-> IF i <= Len(p) THEN p[i] ELSE "none"]
        /\ calls = <<Len(p)>>
  BY DEF Init
<1>2. /\ p \in Seq(SourceKinds \cup StageKinds) /\ Len(p) \in 1..Stages
      /\ p[1] \in SourceKinds /\ \A i \in 2..Len(p) : p[i] \in StageKinds
  BY PipelineAssumption
<1>3. \A i \in 1..Len(p) : p[i] \in SourceKinds \cup StageKinds  BY <1>2
<1>4. \A i \in Ids : /\ kind[i] = IF i <= Len(p) THEN p[i] ELSE "none"
                     /\ i \in Int /\ i >= 1
  BY <1>1, IdFacts
<1>5. kind \in [Ids -> AnyKind]  BY <1>1, <1>2, <1>3, IdFacts DEF AnyKind
<1>6. KindsFit(kind)
  <2>1. kind[1] \in SourceKinds  BY <1>2, <1>4, SourceIsId
  <2>2. ASSUME NEW i \in Main
        PROVE  /\ i # 1 => kind[i] \in StageKinds \cup {"none"}
               /\ kind[i] # "none" => \A j \in 1..i : kind[j] # "none"
               /\ kind[Inner(i)] \in {"none", "list", "lines"}
    <3>1. i \in Ids /\ Inner(i) \in Ids /\ \A j \in 1..i : j \in Ids  BY IdFacts
    <3>2. i # 1 => kind[i] \in StageKinds \cup {"none"}
      BY <1>2, <1>4, <3>1
    <3>3. kind[i] # "none" => \A j \in 1..i : kind[j] # "none"
      <4>1. "none" \notin SourceKinds \cup StageKinds  BY DEF SourceKinds, StageKinds
      <4> QED  BY <1>2, <1>3, <1>4, <3>1, <4>1
    <3>4. ~(Inner(i) <= Len(p))  BY <1>2, IdFacts DEF Inner, Main
    <3> QED  BY <1>4, <3>1, <3>2, <3>3, <3>4
  <2> QED  BY <2>1, <2>2 DEF KindsFit
<1>7. /\ st = [i \in Ids |-> Fresh(CASE kind[i] = "skip" -> 1 [] kind[i] = "take" -> 1
                                     [] OTHER -> Items, 0)]
      /\ RuntimeInit /\ (WatchInit \/ NoWatch)
      /\ answer = NoAnswer /\ consumer \in Consumers /\ phase = "start"
      /\ output = <<>> /\ temporary = "none" /\ target = "old"
      /\ dropped = {} /\ erred = FALSE /\ leaked = 0
  BY DEF Init
<1>8. \A left \in 0..Items : Fresh(left, 0) \in Stream
  BY IdFacts DEF Fresh, Stream, Item, Job
<1>9. ASSUME NEW i \in Ids
      PROVE  /\ st[i] \in Stream /\ ~st[i].closed /\ ~st[i].file /\ ~st[i].cursor /\ st[i].inner = 0
             /\ st[i].jobs = <<>> /\ st[i].busy = "no"
             /\ kind[i] = "take" => st[i].left = 1
  <2> DEFINE left == CASE kind[i] = "skip" -> 1 [] kind[i] = "take" -> 1 [] OTHER -> Items
  <2>1. left \in 0..Items /\ (kind[i] = "take" => left = 1)  BY IdFacts
  <2>2. st[i] = Fresh(left, 0)  BY <1>7
  <2> HIDE DEF left
  <2>3. Fresh(left, 0) \in Stream  BY <1>8, <2>1
  <2> QED  BY <2>1, <2>2, <2>3 DEF Fresh
<1>10. st \in [Ids -> Stream]
  <2>1. DOMAIN st = Ids /\ st = [i \in Ids |-> st[i]]  BY <1>7
  <2> QED  BY <1>9, <2>1
<1>11. Len(<<>>) = 0 /\ Width \in Nat  BY IdFacts
<1>12. HoldsByKind(kind, st)  BY <1>9, <1>11 DEF HoldsByKind, HoldsAsOne
<1>13. Nested(kind, st)  BY <1>9, IdFacts DEF Nested
<1>14. ClosedBelow(st)  BY <1>9, IdFacts DEF ClosedBelow
<1>15. Fit(kind, st)  BY <1>6, <1>12, <1>13, <1>14 DEF Fit
<1>16. WatchType /\ armed = FALSE
  <2>1. WatchType /\ ~armed  BY <1>7, WatchStarts
  <2> QED  BY <2>1 DEF WatchType
<1>17. Hold(st, armed, Ids) = {} /\ Kids(st, Ids) = {}
  <2>1. \A x \in Places : x \notin Hold(st, armed, Ids) /\ x \notin Kids(st, Ids)
    <3>1. ASSUME NEW a \in Ids, NEW b \in 0..Width
          PROVE  <<a, b>> \notin Hold(st, armed, Ids) /\ <<a, b>> \notin Kids(st, Ids)
      <4>1. armed \in BOOLEAN  BY <1>16
      <4>2. /\ <<a, b>> \in Kids(st, Ids) <=> b >= 1 /\ b <= Len(st[a].jobs)
            /\ <<a, b>> \in Hold(st, armed, Ids) <=>
                  \/ b >= 1 /\ b <= Len(st[a].jobs)
                  \/ b = 0 /\ (st[a].file \/ (a = 1 /\ armed))
        BY <1>10, <4>1, AllPlaces
      <4>3. Len(st[a].jobs) = 0 /\ ~st[a].file  BY <1>9, <1>11
      <4> QED  BY <1>16, <4>2, <4>3
    <3> QED  BY <3>1, PlaceIsPair
  <2>2. armed \in BOOLEAN  BY <1>16
  <2>3. Hold(st, armed, Ids) \subseteq Places /\ Kids(st, Ids) \subseteq Places
    BY <1>10, <2>2, AllPlaces
  <2> QED  BY <2>1, <2>3
<1>18. files = 0 /\ procs = 0 /\ failed = FALSE /\ cancelled = FALSE  BY <1>7 DEF RuntimeInit
<1>19. Sums
  <2>1. Cardinality(Hold(st, armed, Ids)) = 0 /\ Cardinality(Kids(st, Ids)) = 0
    BY <1>17, FS_EmptySet
  <2>2. leaked = 0 /\ temporary = "none"  BY <1>7
  <2> QED  BY <1>18, <2>1, <2>2 DEF Sums
<1>20. HoldType  BY <1>5, <1>7, <1>10, <1>16, <1>18 DEF HoldType
<1>21. WatchOpen  BY <1>9, <1>16, SourceIsId DEF WatchOpen
<1>22. Holding  BY <1>15, <1>18, <1>19, <1>20, <1>21, LimitAssumption DEF Holding
<1> DEFINE last == Len(p)
<1>23. last \in Main /\ last \in Ids /\ kind[last] # "none" /\ calls = <<last>>
  <2>1. last \in Main  BY <1>2 DEF Main
  <2>2. last \in Ids  BY <2>1, IdFacts
  <2>3. last \in 1..Len(p)  BY <1>2
  <2>4. "none" \notin SourceKinds \cup StageKinds  BY DEF SourceKinds, StageKinds
  <2>5. kind[last] = p[last]  BY <1>4, <2>2, <1>2
  <2> QED  BY <1>1, <1>3, <2>1, <2>2, <2>3, <2>4, <2>5
<1> HIDE DEF last
<1>24. Len(calls) = 1 /\ \A m \in 1..Len(calls) : m = 1 /\ calls[m] = last  BY <1>23
<1>25. answer = [from |-> 0, item |-> End]  BY <1>7 DEF NoAnswer
<1>26. Descends(kind, st, calls)  BY <1>23, <1>24 DEF Descends
<1>27. Waits(kind, st, calls, answer.from)  BY <1>24, <1>25 DEF Waits, Pending
<1>28. TalkType  BY <1>23, <1>25 DEF TalkType
<1>29. Phases  BY <1>7, <1>24, <1>25 DEF Phases
<1>30. Talking  BY <1>26, <1>27, <1>28, <1>29 DEF Talking, CallsFit
<1>31. RestType
  <2>1. output \in Seq(Item) /\ dropped \subseteq Item  BY <1>7
  <2>2. /\ failed \in BOOLEAN /\ cancelled \in BOOLEAN /\ erred \in BOOLEAN
        /\ consumer \in Consumers /\ phase = "start" /\ target = "old"
    BY <1>7, <1>18
  <2> QED  BY <2>1, <2>2 DEF RestType
<1> QED  BY <1>22, <1>30, <1>31 DEF IInv

-----------------------------------------------------------------------------
(* The theorems.                                                             *)

LEMMA SourceStepKeeps ==
    ASSUME IInv, NEW i \in Ids, Refuse(i) \/ SourceStep(i)
    PROVE  IInv'
BY RefuseKeeps, NextInMemoryKeeps, NextInDatabaseKeeps, TimerCancelledKeeps, NextInFileKeeps,
   NextWatchKeeps DEF SourceStep

LEMMA StageStepKeeps ==
    ASSUME IInv, NEW i \in Main,
           ItemStep(i) \/ RowStep(i) \/ BarrierStep(i) \/ InnerStep(i) \/ ParallelStep(i)
    PROVE  IInv'
<1>1. CASE ItemStep(i)
  BY <1>1, AskSourceKeeps, PassItemKeeps, DropItemKeeps, FailItemKeeps, SourceEndedKeeps DEF ItemStep
<1>2. CASE RowStep(i)  BY <1>2, AskRowKeeps, EncodeRowKeeps DEF RowStep
<1>3. CASE BarrierStep(i)  BY <1>3, NextSortedKeeps, LoadKeeps, LoadedKeeps DEF BarrierStep
<1>4. CASE InnerStep(i)
  BY <1>4, AskInnerKeeps, FlatMapOuterKeeps, FlatMapInnerKeeps, OnErrorSourceKeeps, OnErrorInnerKeeps
     DEF InnerStep
<1>5. CASE ParallelStep(i)
  BY <1>5, NextParallelKeeps, LaunchKeeps, LaunchFailsKeeps, ParallelSourceEndedKeeps, CollectKeeps,
     CollectFailsKeeps DEF ParallelStep
<1> QED  BY <1>1, <1>2, <1>3, <1>4, <1>5

LEMMA StepKeeps ==
    ASSUME IInv, [Next]_vars
    PROVE  IInv'
<1>1. CASE \E i \in Ids : Refuse(i) \/ SourceStep(i)  BY <1>1, SourceStepKeeps
<1>2. CASE \E i \in Main :
              ItemStep(i) \/ RowStep(i) \/ BarrierStep(i) \/ InnerStep(i) \/ ParallelStep(i)
  BY <1>2, StageStepKeeps
<1>3. CASE Begin \/ ReadOn \/ Stop \/ Release
  BY <1>3, BeginKeeps, ReadOnKeeps, StopKeeps, ReleaseKeeps
<1>4. CASE Mishap
  <2>1. CASE OutOfMemory  BY <2>1, OutOfMemoryKeeps
  <2>2. CASE \E i \in Main : CollectOutOfMemory(i) \/ WatchBreaks(i)
    <3>1. PICK i \in Main : CollectOutOfMemory(i) \/ WatchBreaks(i)  BY <2>2
    <3>2. i \in Ids  BY IdFacts
    <3> QED  BY <3>1, <3>2, CollectOutOfMemoryKeeps, WatchBreaksKeeps
  <2> QED  BY <1>4, <2>1, <2>2 DEF Mishap
<1>5. CASE \E i \in Main : Worker(i)
  BY <1>5, WorkerEndsKeeps, WorkerOverMemoryKeeps DEF Worker
<1>6. CASE Interrupt /\ UNCHANGED <<watchVars, pipeVars>>  BY <1>6, InterruptKeeps
<1>7. CASE Change /\ UNCHANGED pipeVars  BY <1>7, ChangeKeeps
<1>8. CASE UNCHANGED vars  BY <1>8, StutterKeeps
<1> QED  BY <1>1, <1>2, <1>3, <1>4, <1>5, <1>6, <1>7, <1>8 DEF Next, RuntimeStep

LEMMA IInvIsBalanced ==
    ASSUME IInv
    PROVE  Balanced
<1>1. /\ HoldType /\ Talking /\ RestType /\ Fit(kind, st) /\ Sums /\ WatchType
      /\ st \in [Ids -> Stream] /\ files <= MaxFiles /\ procs <= MaxProcesses
  BY BookFacts DEF IInv
<1>2. TypeOK
  BY <1>1 DEF TypeOK, RuntimeType, HoldType, Talking, TalkType, RestType, AnyKind
<1>3. Ids \in SUBSET Ids /\ Holding  BY DEF IInv
<1>4. HeldBy(Ids) = Cardinality(Hold(st, armed, Ids)) /\ Active(Ids) = Cardinality(Kids(st, Ids))
  BY <1>3, InTheBooks
<1>5. Accounting  BY <1>1, <1>4 DEF Accounting, Sums
<1>6. WithinLimits  BY <1>1 DEF WithinLimits, Fit, HoldsByKind, HoldsAsOne
<1> QED  BY <1>2, <1>5, <1>6 DEF Balanced

LEMMA IInvClosesAll ==
    ASSUME IInv
    PROVE  NothingStaysOpen
<1>1. /\ Holding /\ Talking /\ Fit(kind, st) /\ WatchOpen /\ WatchType
      /\ st \in [Ids -> Stream] /\ armed \in BOOLEAN
      /\ procs = Cardinality(Kids(st, Ids))
  BY BookFacts DEF IInv
<1>2. HoldsByKind(kind, st) /\ ClosedBelow(st) /\ KindsFit(kind)  BY <1>1 DEF Fit
<1>3. ClosedReachesUpstream
  <2>1. \A i \in Main : i \in Ids  BY IdFacts
  <2> QED  BY <1>2, <2>1 DEF ClosedReachesUpstream, HoldsByKind, HoldsAsOne, ClosedBelow, Jobs
<1>4. ASSUME phase = "released"
      PROVE  /\ \A i \in Opened : st[i].closed
             /\ procs = 0 /\ temporary = "none" /\ ~armed
  <2>1. /\ temporary = "none" /\ \A i \in Ids : kind[i] # "none" => st[i].closed
    BY <1>1, <1>4 DEF Talking, Phases
  <2>2. \A i \in Ids : st[i].jobs = <<>>
    BY <1>2, <2>1 DEF HoldsByKind, HoldsAsOne
  <2>3. Kids(st, Ids) = {}
    <3>1. \A x \in Places : x \notin Kids(st, Ids)
      <4>1. ASSUME NEW a \in Ids, NEW b \in 0..Width PROVE <<a, b>> \notin Kids(st, Ids)
        <5>1. Len(st[a].jobs) = 0
          <6>1. Len(<<>>) = 0  OBVIOUS
          <6> QED  BY <2>2, <6>1
        <5>2. <<a, b>> \in Kids(st, Ids) <=> b >= 1 /\ b <= Len(st[a].jobs)
          BY <1>1, AllPlaces
        <5> QED  BY <5>1, <5>2
      <4> QED  BY <4>1, PlaceIsPair
    <3>2. Kids(st, Ids) \subseteq Places  BY <1>1, AllPlaces
    <3> QED  BY <3>1, <3>2
  <2>4. procs = 0  BY <1>1, <2>3, FS_EmptySet
  <2>5. ~armed  BY <1>1, <2>1, SourceIsId DEF WatchOpen
  <2> QED  BY <2>1, <2>4, <2>5 DEF Opened
<1>5. ReleasedIsClosed  BY <1>4 DEF ReleasedIsClosed
<1> QED  BY <1>3, <1>5 DEF NothingStaysOpen

(* The invariant holds in every state of every pipeline.                     *)
THEOREM IInvAlways == Spec => []IInv
<1>1. Init => IInv  BY InitIsSound
<1>2. IInv /\ [Next]_vars => IInv'  BY StepKeeps
<1> QED  BY <1>1, <1>2, PTL DEF Spec

(* The counters of open files and of child processes are exact and within    *)
(* their limits, whatever is opened, launched, refused, cancelled or left    *)
(* half-way (runtime_reserve_file, runtime_fclose, parallel_launch,          *)
(* stream_close), in a pipeline of any length and any width.                 *)
THEOREM AlwaysBalanced == Spec => []Balanced
<1>1. IInv => Balanced  BY IInvIsBalanced
<1> QED  BY <1>1, IInvAlways, PTL

(* A closed stage has everything closed that it read from, and a program     *)
(* that has ended leaves no child, no watch and no file of a save behind     *)
(* (stream_close, runtime_release).                                          *)
THEOREM NothingIsLeftOpen == Spec => []NothingStaysOpen
<1>1. IInv => NothingStaysOpen  BY IInvClosesAll
<1> QED  BY <1>1, IInvAlways, PTL

-----------------------------------------------------------------------------
(* The windows of a watch.                                                   *)

(* What a step does to the watch.                                            *)
WatchMoves ==
    \/ UNCHANGED watchVars
    \/ step' = "closed"
    \/ WatchWorks \/ GiveEvent \/ Change

(* A close closes the watch or leaves it alone.                              *)
LEMMA CloseMoves ==
    ASSUME NEW closing, WatchClosed(closing)
    PROVE  WatchMoves
BY DEF WatchClosed, WatchMoves

(* So does what a source does.                                              *)
LEMMA SourceMoves ==
    ASSUME NEW i, Refuse(i) \/ SourceStep(i) \/ WatchBreaks(i)
    PROVE  WatchMoves
<1>1. ASSUME NEW S, Close(S) PROVE WatchMoves
  BY <1>1, CloseMoves DEF Close
<1>2. ASSUME UNCHANGED watchVars PROVE WatchMoves
  BY <1>2 DEF WatchMoves
<1>3. CASE Refuse(i)  BY <1>2, <1>3 DEF Refuse, KeepStreams
<1>4. CASE NextInMemory(i) \/ NextInDatabase(i) \/ TimerCancelled(i) \/ NextInFile(i)
  BY <1>1, <1>2, <1>4 DEF NextInMemory, NextInDatabase, TimerCancelled, NextInFile, Finish, FailClosed
<1>5. CASE NextWatch(i) \/ WatchBreaks(i)
  BY <1>1, <1>5 DEF NextWatch, WatchBreaks, FailClosed, WatchMoves
<1> QED  BY <1>3, <1>4, <1>5 DEF SourceStep

(* So does what a stage does, most often by a close.                         *)
LEMMA StageMoves ==
    ASSUME NEW i, ItemStep(i) \/ RowStep(i) \/ BarrierStep(i) \/ InnerStep(i) \/ ParallelStep(i)
    PROVE  WatchMoves
<1>1. ASSUME NEW S, Close(S) PROVE WatchMoves
  BY <1>1, CloseMoves DEF Close
<1>2. ASSUME UNCHANGED watchVars PROVE WatchMoves
  BY <1>2 DEF WatchMoves
<1>3. ASSUME Finish(i) \/ FailClosed(i) \/ FailOpen(i) \/ KeepStreams PROVE WatchMoves
  BY <1>1, <1>2, <1>3 DEF Finish, FailClosed, FailOpen, KeepStreams
<1>4. CASE ItemStep(i)
  BY <1>2, <1>3, <1>4 DEF ItemStep, AskSource, PassItem, DropItem, FailItem, SourceEnded
<1>5. CASE RowStep(i)  BY <1>2, <1>3, <1>5 DEF RowStep, AskRow, EncodeRow
<1>6. CASE NextSorted(i) \/ Load(i)  BY <1>1, <1>2, <1>3, <1>6 DEF NextSorted, Load
<1>7. CASE Loaded(i)  BY <1>7, CloseMoves DEF Loaded
<1>8. CASE InnerStep(i)
  BY <1>2, <1>3, <1>8
     DEF InnerStep, AskInner, FlatMapOuter, FlatMapInner, OnErrorSource, OnErrorInner
<1>9. CASE NextParallel(i) \/ ParallelSourceEnded(i)
  BY <1>1, <1>2, <1>3, <1>9 DEF NextParallel, ParallelSourceEnded
<1>10. CASE Launch(i) \/ LaunchFails(i) \/ Collect(i) \/ CollectFails(i)
  BY <1>2, <1>3, <1>10 DEF Launch, LaunchFails, Collect, CollectFails
<1> QED  BY <1>4, <1>5, <1>6, <1>7, <1>8, <1>9, <1>10 DEF BarrierStep, ParallelStep

(* And every step.                                                           *)
LEMMA StepMoves ==
    ASSUME [Next]_vars
    PROVE  WatchMoves
<1>1. ASSUME UNCHANGED watchVars PROVE WatchMoves
  BY <1>1 DEF WatchMoves
<1>2. CASE RuntimeStep
  <2>1. CASE Begin
    <3>1. ASSUME Close(Closing(LastStage)) PROVE WatchMoves
      BY <3>1, CloseMoves DEF Close
    <3> QED  BY <1>1, <2>1, <3>1 DEF Begin
  <2>2. CASE ReadOn  BY <1>1, <2>2 DEF ReadOn
  <2>3. CASE Stop  BY <2>3, CloseMoves DEF Stop
  <2>4. CASE Release  BY <2>4, CloseMoves DEF Release
  <2> QED  BY <1>2, <2>1, <2>2, <2>3, <2>4, SourceMoves, StageMoves DEF RuntimeStep
<1>3. CASE Mishap  BY <1>1, <1>3, SourceMoves DEF Mishap, OutOfMemory, CollectOutOfMemory
<1>4. CASE \E i \in Main : Worker(i)
  BY <1>1, <1>4 DEF Worker, WorkerEnds, WorkerOverMemory, ChangeJobs
<1>5. CASE Interrupt /\ UNCHANGED <<watchVars, pipeVars>>  BY <1>1, <1>5
<1>6. CASE Change  BY <1>6 DEF WatchMoves
<1>7. CASE UNCHANGED vars  BY <1>1, <1>7 DEF vars
<1> QED  BY <1>2, <1>3, <1>4, <1>5, <1>6, <1>7 DEF Next

(* A scan that is out of date was made so before the first registration,     *)
(* which is a window, or is followed by an event the kernel keeps until the  *)
(* next registration throws it away.                                         *)
Windows ==
    /\ step = "scanned" /\ seen # tree => missed
    /\ step \in {"waiting", "stale"} /\ seen # tree => wake \/ missed

(* A change that nobody sees coming has to be within a window.               *)
LEMMA WindowsKept ==
    ASSUME IInv, Windows, WatchMoves
    PROVE  Windows'
<1>1. armed => step \in {"waiting", "woken", "stale"}
  BY DEF IInv, Holding, WatchOpen
<1>2. CASE UNCHANGED watchVars  BY <1>2 DEF Windows, watchVars
<1>3. CASE step' = "closed"  BY <1>3 DEF Windows
<1>4. CASE FirstScan \/ Open  BY <1>4 DEF Windows, FirstScan, Open
<1>5. CASE Wake \/ Rescan  BY <1>5 DEF Windows, Wake, Rescan
<1>6. CASE Rebuild  BY <1>6 DEF Windows, Rebuild
<1>7. CASE GiveEvent  BY <1>7 DEF Windows, GiveEvent
<1>8. CASE Change  
  <2>1. /\ wake' = (wake \/ armed) /\ missed' = (missed \/ ~armed) /\ seen' = seen /\ step' = step
    BY <1>8 DEF Change
  <2>2. CASE armed
    <3>1. wake' /\ step' # "scanned"  BY <1>1, <2>1, <2>2
    <3> QED  BY <3>1 DEF Windows
  <2>3. CASE ~armed
    <3>1. missed'  BY <2>1, <2>3
    <3> QED  BY <3>1 DEF Windows
  <2> QED  BY <2>2, <2>3
<1> QED  BY <1>2, <1>3, <1>4, <1>5, <1>6, <1>7, <1>8 DEF WatchMoves, WatchWorks

(* A watch with an outdated scan and no event to wake it has missed the      *)
(* change in one of its two windows, before it first registered or between a *)
(* scan and the registration after it (watch_scan, register_paths).          *)
THEOREM WatchMissesOnlyInWindows == Spec => []StaleOnlyByWindow
<1>1. Init => Windows
  BY DEF Init, Windows, WatchInit, NoWatch
<1>2. IInv /\ Windows /\ [Next]_vars => Windows'
  BY StepMoves, WindowsKept
<1>3. Windows => StaleOnlyByWindow
  BY DEF Windows, StaleOnlyByWindow
<1> QED  BY <1>1, <1>2, <1>3, IInvAlways, PTL DEF Spec

-----------------------------------------------------------------------------
(* Where the items are.                                                      *)

(* The items a stream has.                                                   *)
Has(x) == {x.held} \cup Range(x.buffer) \cup {x.jobs[n].item : n \in DOMAIN x.jobs}

(* A stream inside that has its item still to give.                          *)
Unasked(j) == kind[Inner(j)] # "none" /\ st[Inner(j)].left > 0

Present(v) ==
    \/ v \in Range(output) \/ v \in dropped \/ v = answer.item
    \/ \E j \in Ids : v \in Has(st[j])
    \/ \E j \in Main : Unasked(j) /\ v = st[Inner(j)].tag

(* What the source gave is somewhere.                                        *)
AllPresent == \A v \in 1..(Items - st[1].left) : Present(v)

(* Only these stages have items, and a closed one has none.                  *)
Keeps(q, x, d) ==
    /\ q \notin Barriers => x.buffer = <<>>
    /\ q \notin {"parse_csv", "encode_csv", "parallel"} => x.held = End
    /\ q = "parse_csv" => x.held \in {End} \cup d
    /\ q = "parallel" => IF x.busy = "refill" THEN x.held \in Item ELSE x.held = End
    /\ q # "none" /\ x.closed => x.buffer = <<>> /\ x.held \in {End} \cup d

KeepsByKind == \A i \in Ids : Keeps(kind[i], st[i], dropped)

(* A stage that has all of its source has it closed.                         *)
ReadToTheEnd ==
    \A i \in Main :
        /\ kind[i] = "parallel" /\ st[i].done => st[i - 1].closed
        /\ kind[i] \in Barriers /\ st[i].started /\ ~st[i - 1].closed =>
              \E m \in 1..Len(calls) : calls[m] = i /\ Pending(calls, answer.from, m)
        /\ kind[i] = "encode_csv" /\ st[i].held # End =>
              \A m \in 1..Len(calls) : calls[m] = i => ~Pending(calls, answer.from, m)

(* Without an error, who gives no item is closed.                            *)
EndIsClosed == answer.item = End /\ answer.from # 0 => st[answer.from].closed

(* An inner stream is one of flat_map, who has called it, and asks it once   *)
(* it is there.                                                              *)
InnerIsCalled ==
    /\ \A j \in Main : kind[j] # "flat_map" => st[j].inner = 0
    /\ \A m \in 1..Len(calls) : calls[m] \notin Main => m > 1 /\ calls[m - 1] = calls[m] - Stages
    /\ answer.from \notin Main \cup {0} =>
          /\ calls # <<>> /\ calls[Len(calls)] = answer.from - Stages
          /\ st[answer.from - Stages].inner # 0
    /\ \A j \in Main : Unasked(j) =>
          /\ calls # <<>> /\ calls[Len(calls)] = Inner(j) /\ answer = NoAnswer
          /\ st[Inner(j)].left = 1 /\ ~st[Inner(j)].closed

LastIsAsked ==
    /\ calls # <<>> => calls[1] = LastStage
    /\ phase = "start" => calls # <<>>
    /\ phase = "pulling" /\ calls = <<>> => answer.from = LastStage
    /\ phase \in {"ended", "released"} => calls = <<>> /\ st[LastStage].closed

Flows ==
    /\ ~failed /\ AllPresent /\ KeepsByKind /\ ReadToTheEnd /\ EndIsClosed /\ InnerIsCalled
    /\ LastIsAsked

Watched == ~erred /\ ~CutShort /\ (phase \in {"start", "pulling"} \/ answer.item = End)

Flow == Watched => Flows

SaveKnows == target = "new" => phase \in {"ended", "released"} /\ answer.item = End /\ ~failed

-----------------------------------------------------------------------------
(* A stream that a step leaves as it is, except that it may close one that   *)
(* has nothing.                                                              *)
Rests(x, y, d) ==
    /\ y.left = x.left /\ y.tag = x.tag /\ y.inner = x.inner /\ y.buffer = x.buffer
    /\ y.jobs = x.jobs /\ y.held = x.held
    /\ y.started = x.started /\ y.done = x.done /\ y.busy = x.busy
    /\ x.closed => y.closed
    /\ y.closed /\ ~x.closed => x.buffer = <<>> /\ x.held \in {End} \cup d

(* What the stage i on top does to the stack.                                *)
Talks(i) ==
    \/ \E item \in Item \cup {End} : Give(i, item) /\ (item = End => st'[i].closed)
    \/ \E j \in Ids : Ask(j) /\ i \in Main /\ (j \in Main \/ j = Inner(i))
    \/ i \in Main /\ UNCHANGED calls /\ answer' = NoAnswer

(* It keeps what it has and was given, passes it on, or leaves it out.       *)
Passes(i) ==
    \A v \in Has(st[i]) \cup {answer.item} :
        v \in Has(st'[i]) \/ v = answer'.item \/ v \in dropped' \/ v = End

(* A source gives the next item, an inner stream its only one.               *)
Yields(i) ==
    /\ i = 1 => \/ st'[1].left = st[1].left
                \/ st'[1].left = st[1].left - 1 /\ answer'.item = Items - st'[1].left
    /\ i \notin Main => st'[i].left = 0 /\ (st[i].left > 0 => answer'.item = st[i].tag)

(* Who has read its source to the end knows it.                              *)
Knows(i) ==
    /\ i \in Main /\ kind[i] # "flat_map" => st'[i].inner = 0
    /\ kind[i] = "parallel" /\ st'[i].done => st'[i - 1].closed
    /\ kind[i] \in Barriers /\ st'[i].started /\ ~st'[i - 1].closed =>
          calls' = Append(calls, i - 1) \/ st[i - 1].closed
    /\ kind[i] = "encode_csv" /\ st'[i].held # End => calls' = Front(calls)

(* A step of the stage on top that goes well.                                *)
Moves(i) ==
    /\ UNCHANGED <<kind, output, phase, failed>> /\ dropped \subseteq dropped'
    /\ st' \in [Ids -> Stream] /\ \A j \in Ids : j # i => Rests(st[j], st'[j], dropped)
    /\ (st[i].closed => st'[i].closed) /\ Keeps(kind[i], st'[i], dropped')
    /\ Talks(i) /\ Passes(i) /\ Yields(i) /\ Knows(i)

-----------------------------------------------------------------------------
(* What is left of the stack.                                                *)
LEMMA StackAfter ==
    ASSUME calls \in Seq(Ids), calls # <<>>, NEW i, i \in Ids, calls[Len(calls)] = i, Talks(i)
    PROVE  /\ Len(calls) \in Nat /\ Len(calls) >= 1 /\ calls' \in Seq(Ids)
           /\ Len(Front(calls)) = Len(calls) - 1
           /\ \/ /\ calls' = Front(calls) /\ Len(calls') = Len(calls) - 1
                 /\ answer'.from = i /\ (answer'.item = End => st'[i].closed)
              \/ /\ i \in Main /\ answer' = NoAnswer
                 /\ \E j \in Ids : /\ calls' = Append(calls, j) /\ (j \in Main \/ j = Inner(i))
                                   /\ Len(calls') = Len(calls) + 1 /\ calls'[Len(calls) + 1] = j
              \/ i \in Main /\ answer' = NoAnswer /\ calls' = calls
           /\ \A m \in 1..Len(calls) : m < Len(calls) => 
                  m \in 1..Len(calls') /\ calls'[m] = calls[m]
           /\ calls' # Front(calls) => calls'[Len(calls)] = i
<1>1. /\ Len(calls) \in Nat /\ Len(calls) >= 1 /\ i \in Ids
      /\ Len(Front(calls)) = Len(calls) - 1
  BY FrontFacts
<1>2. ASSUME NEW item, Give(i, item), item = End => st'[i].closed
      PROVE  /\ calls' = Front(calls) /\ calls' \in Seq(Ids) /\ Len(calls') = Len(calls) - 1
             /\ answer'.from = i /\ (answer'.item = End => st'[i].closed)
             /\ \A m \in 1..Len(calls) : m < Len(calls) => m \in 1..Len(calls') /\ calls'[m] = calls[m]
  <2>1. calls' = Front(calls) /\ answer' = [from |-> i, item |-> item]  BY <1>2 DEF Give
  <2>2. /\ Front(calls) \in Seq(Ids) /\ Len(Front(calls)) = Len(calls) - 1
        /\ \A m \in 1..Len(calls) - 1 : Front(calls)[m] = calls[m]
    BY FrontFacts
  <2>3. ASSUME NEW m \in 1..Len(calls), m < Len(calls)
        PROVE  m \in 1..Len(calls') /\ calls'[m] = calls[m]
    <3>1. m \in 1..Len(calls) - 1  BY <1>1, <2>3
    <3> QED  BY <2>1, <2>2, <3>1
  <2> QED  BY <1>2, <2>1, <2>2, <2>3
<1>3. ASSUME NEW j \in Ids, Ask(j)
      PROVE  /\ calls' = Append(calls, j) /\ calls' \in Seq(Ids) /\ Len(calls') = Len(calls) + 1
             /\ calls'[Len(calls) + 1] = j /\ answer' = NoAnswer
             /\ \A m \in 1..Len(calls) : m \in 1..Len(calls') /\ calls'[m] = calls[m]
  BY <1>1, <1>3, AppendFacts DEF Ask
<1>4. CASE \E item \in Item \cup {End} : Give(i, item) /\ (item = End => st'[i].closed)
  BY <1>1, <1>2, <1>4
<1>5. CASE \E j \in Ids : Ask(j) /\ i \in Main /\ (j \in Main \/ j = Inner(i))
  BY <1>1, <1>3, <1>5
<1>6. CASE i \in Main /\ UNCHANGED calls /\ answer' = NoAnswer  BY <1>1, <1>6
<1> QED  BY <1>4, <1>5, <1>6 DEF Talks

(* The stack and the answer of a state, and their types.                     *)
LEMMA MoveFacts ==
    ASSUME IInv, NEW i, OnTop(i), Moves(i)
    PROVE  /\ i \in Ids /\ kind[i] # "none" /\ i # 0 /\ kind' = kind
           /\ calls \in Seq(Ids) /\ calls # <<>> /\ calls[Len(calls)] = i
           /\ kind \in [Ids -> AnyKind] /\ st \in [Ids -> Stream]
           /\ \A j \in Ids : j # i => Rests(st[j], st'[j], dropped)
           /\ \A j \in Ids : st[j].closed => st'[j].closed
<1>1. Holding /\ Talking  BY DEF IInv
<1>2. /\ i \in Ids /\ kind[i] # "none" /\ i # 0
      /\ calls \in Seq(Ids) /\ calls # <<>> /\ calls[Len(calls)] = i
      /\ kind \in [Ids -> AnyKind] /\ st \in [Ids -> Stream]
  BY <1>1, TopFacts
<1>3. kind' = kind /\ \A j \in Ids : j # i => Rests(st[j], st'[j], dropped)  BY DEF Moves
<1>4. \A j \in Ids : st[j].closed => st'[j].closed
  BY <1>3 DEF Moves, Rests
<1> QED  BY <1>2, <1>3, <1>4

(* Every stage keeps what its kind keeps.                                    *)
LEMMA MoveKeeps ==
    ASSUME IInv, KeepsByKind, NEW i, OnTop(i), Moves(i)
    PROVE  KeepsByKind'
<1>1. ASSUME NEW j \in Ids PROVE Keeps(kind'[j], st'[j], dropped')
  <2>1. kind' = kind /\ dropped \subseteq dropped'  BY DEF Moves
  <2>2. CASE j = i  BY <2>1, <2>2 DEF Moves
  <2>3. CASE j # i
    <3>1. Rests(st[j], st'[j], dropped) /\ Keeps(kind[j], st[j], dropped)
      BY <2>3 DEF Moves, KeepsByKind
    <3> QED  BY <2>1, <3>1 DEF Rests, Keeps
  <2> QED  BY <2>2, <2>3
<1> QED  BY <1>1 DEF KeepsByKind

LEMMA MoveReads ==
    ASSUME IInv, ReadToTheEnd, NEW i, OnTop(i), Moves(i)
    PROVE  ReadToTheEnd'
<1>1. /\ i \in Ids /\ kind[i] # "none" /\ i # 0 /\ kind' = kind
      /\ calls \in Seq(Ids) /\ calls # <<>> /\ calls[Len(calls)] = i
      /\ \A j \in Ids : j # i => Rests(st[j], st'[j], dropped)
      /\ \A j \in Ids : st[j].closed => st'[j].closed
  BY MoveFacts
<1>2. Talks(i) /\ Knows(i) /\ Holding /\ Talking  BY DEF Moves, IInv
<1>3. /\ Len(calls) \in Nat /\ Len(calls) >= 1 /\ calls' \in Seq(Ids)
      /\ Len(Front(calls)) = Len(calls) - 1
      /\ \/ calls' = Front(calls) /\ Len(calls') = Len(calls) - 1 /\ answer'.from = i
         \/ /\ answer' = NoAnswer
            /\ \E j \in Ids : calls' = Append(calls, j) /\ Len(calls') = Len(calls) + 1
                              /\ calls'[Len(calls) + 1] = j
         \/ answer' = NoAnswer /\ calls' = calls
      /\ \A m \in 1..Len(calls) : m < Len(calls) => m \in 1..Len(calls') /\ calls'[m] = calls[m]
      /\ calls' # Front(calls) => calls'[Len(calls)] = i
  BY <1>1, <1>2, StackAfter
<1>4. Fit(kind, st) /\ st \in [Ids -> Stream]  BY <1>2, BookFacts
<1>5. ASSUME NEW m \in 1..Len(calls), m < Len(calls)
      PROVE  m \in 1..Len(calls') /\ calls'[m] = calls[m] /\ Pending(calls', answer'.from, m)
             /\ Pending(calls, answer.from, m)
  <2>1. m \in 1..Len(calls') /\ calls'[m] = calls[m]  BY <1>3, <1>5
  <2>2. m < Len(calls') \/ answer'.from = i  BY <1>3, <1>5
  <2> QED  BY <1>1, <1>5, <2>1, <2>2 DEF Pending
<1>6. ASSUME NEW m \in 1..Len(calls'), Pending(calls', answer'.from, m)
      PROVE  \/ m \in 1..Len(calls) /\ m < Len(calls) /\ calls'[m] = calls[m]
             \/ m = Len(calls) /\ calls'[m] = i /\ calls' # Front(calls)
  <2>1. CASE calls' = Front(calls) /\ Len(calls') = Len(calls) - 1
    <3>1. m \in 1..Len(calls) /\ m < Len(calls)  BY <1>3, <2>1
    <3> QED  BY <1>5, <3>1
  <2>2. CASE calls' # Front(calls) /\ answer' = NoAnswer
    <3>1. m < Len(calls')  BY <1>6, <2>2 DEF Pending, NoAnswer
    <3>2. m \in 1..Len(calls)  BY <1>3, <2>2, <3>1
    <3>3. CASE m < Len(calls)  BY <1>5, <3>2, <3>3
    <3>4. CASE m = Len(calls)  BY <1>3, <2>2, <3>4
    <3> QED  BY <1>3, <3>2, <3>3, <3>4
  <2>3. \/ calls' = Front(calls) /\ Len(calls') = Len(calls) - 1
        \/ calls' # Front(calls) /\ answer' = NoAnswer
    BY <1>3
  <2> QED  BY <2>1, <2>2, <2>3
<1>7. ASSUME NEW j \in Main, j # i
      PROVE  /\ j \in Ids /\ st'[j].done = st[j].done /\ st'[j].started = st[j].started
             /\ st'[j].held = st[j].held
  <2>1. j \in Ids  BY IdFacts
  <2> QED  BY <1>1, <1>7, <2>1 DEF Rests
<1>8. ASSUME NEW j \in Main, kind[j] \in StageKinds
      PROVE  j - 1 \in Main /\ j - 1 \in Ids /\ j \in Ids
  BY <1>4, <1>8, StageFacts, IdFacts
<1>9. ASSUME NEW j \in Main, kind'[j] = "parallel", st'[j].done
      PROVE  st'[j - 1].closed
  <2>1. kind[j] \in StageKinds /\ j - 1 \in Ids  BY <1>1, <1>8, <1>9 DEF StageKinds
  <2>2. CASE j = i  BY <1>1, <1>2, <1>9, <2>2 DEF Knows
  <2>3. CASE j # i
    <3>1. st[j - 1].closed  BY <1>1, <1>7, <1>9, <2>3 DEF ReadToTheEnd
    <3> QED  BY <1>1, <2>1, <3>1
  <2> QED  BY <2>2, <2>3
<1>10. ASSUME NEW j \in Main, kind'[j] \in Barriers, st'[j].started, ~st'[j - 1].closed
       PROVE  \E m \in 1..Len(calls') : calls'[m] = j /\ Pending(calls', answer'.from, m)
  <2>1. kind[j] \in StageKinds /\ j - 1 \in Ids  BY <1>1, <1>8, <1>10 DEF StageKinds, Barriers
  <2>2. ~st[j - 1].closed  BY <1>1, <1>10, <2>1
  <2>3. CASE j = i
    <3>1. calls' = Append(calls, j - 1)  BY <1>1, <1>2, <1>10, <2>2, <2>3 DEF Knows
    <3>2. /\ Len(calls) \in 1..Len(calls') /\ calls'[Len(calls)] = j
          /\ Pending(calls', answer'.from, Len(calls))
      BY <1>1, <1>3, <2>1, <2>3, <3>1, AppendFacts DEF Pending
    <3> QED  BY <3>2
  <2>4. CASE j # i
    <3>1. PICK m \in 1..Len(calls) : calls[m] = j /\ Pending(calls, answer.from, m)
      BY <1>1, <1>7, <1>10, <2>2, <2>4 DEF ReadToTheEnd
    <3>2. m < Len(calls)  BY <1>1, <1>3, <2>4, <3>1
    <3> QED  BY <1>5, <3>1, <3>2
  <2> QED  BY <2>3, <2>4
<1>11. ASSUME NEW j \in Main, kind'[j] = "encode_csv", st'[j].held # End,
              NEW m \in 1..Len(calls'), calls'[m] = j
       PROVE  ~Pending(calls', answer'.from, m)
  <2>1. SUFFICES ASSUME Pending(calls', answer'.from, m) PROVE FALSE  OBVIOUS
  <2>2. CASE m = Len(calls) /\ calls'[m] = i /\ calls' # Front(calls)
    BY <1>1, <1>2, <1>11, <2>2 DEF Knows
  <2>3. CASE m \in 1..Len(calls) /\ m < Len(calls) /\ calls'[m] = calls[m]
    <3>1. Pending(calls, answer.from, m)  BY <1>5, <2>3
    <3>2. CASE j = i
      <4>1. calls[m] = i /\ calls[Len(calls)] = i /\ i \in Main  BY <1>1, <1>11, <2>3, <3>2
      <4>2. Descends(kind, st, calls)  BY <1>2 DEF Talking, CallsFit
      <4>3. i < i \/ (i \notin Main /\ i <= Inner(i))
        BY <1>1, <1>3, <2>3, <4>1, <4>2 DEF Descends
      <4> QED  BY <1>1, <4>1, <4>3, IdFacts
    <3>3. CASE j # i
      BY <1>1, <1>7, <1>11, <2>3, <3>1, <3>3 DEF ReadToTheEnd
    <3> QED  BY <3>2, <3>3
  <2> QED  BY <1>6, <2>1, <2>2, <2>3
<1> QED  BY <1>9, <1>10, <1>11 DEF ReadToTheEnd

LEMMA MoveEnds ==
    ASSUME IInv, NEW i, OnTop(i), Moves(i)
    PROVE  EndIsClosed'
<1>1. /\ i \in Ids /\ calls \in Seq(Ids) /\ calls # <<>> /\ calls[Len(calls)] = i
  BY MoveFacts
<1>2. \/ answer'.from = i /\ (answer'.item = End => st'[i].closed)
      \/ answer' = NoAnswer
  BY <1>1, StackAfter DEF Moves
<1> QED  BY <1>2 DEF EndIsClosed, NoAnswer

LEMMA MoveInner ==
    ASSUME IInv, InnerIsCalled, NEW i, OnTop(i), Moves(i)
    PROVE  InnerIsCalled'
<1>1. /\ i \in Ids /\ kind[i] # "none" /\ i # 0 /\ kind' = kind
      /\ calls \in Seq(Ids) /\ calls # <<>> /\ calls[Len(calls)] = i
      /\ \A j \in Ids : j # i => Rests(st[j], st'[j], dropped)
  BY MoveFacts
<1>2. Talks(i) /\ Knows(i) /\ Yields(i)  BY DEF Moves
<1>3. /\ Len(calls) \in Nat /\ Len(calls) >= 1 /\ calls' \in Seq(Ids)
      /\ Len(Front(calls)) = Len(calls) - 1
      /\ \/ calls' = Front(calls) /\ Len(calls') = Len(calls) - 1 /\ answer'.from = i
         \/ /\ i \in Main /\ answer' = NoAnswer
            /\ \E j \in Ids : calls' = Append(calls, j) /\ Len(calls') = Len(calls) + 1
                              /\ calls'[Len(calls) + 1] = j /\ (j \in Main \/ j = Inner(i))
         \/ answer' = NoAnswer /\ calls' = calls
      /\ \A m \in 1..Len(calls) : m < Len(calls) => m \in 1..Len(calls') /\ calls'[m] = calls[m]
      /\ calls' # Front(calls) => calls'[Len(calls)] = i
  BY <1>1, <1>2, StackAfter
<1>4. ASSUME NEW j \in Main, kind'[j] # "flat_map" PROVE st'[j].inner = 0
  <2>1. CASE j = i  BY <1>1, <1>2, <1>4, <2>1 DEF Knows
  <2>2. CASE j # i
    <3>1. Rests(st[j], st'[j], dropped)  BY <1>1, <2>2, IdFacts
    <3>2. st[j].inner = 0  BY <1>1, <1>4 DEF InnerIsCalled
    <3> QED  BY <3>1, <3>2 DEF Rests
  <2> QED  BY <2>1, <2>2
<1>5. ASSUME NEW m \in 1..Len(calls), calls[m] \notin Main
      PROVE  m > 1 /\ calls[m - 1] = calls[m] - Stages
  BY <1>5 DEF InnerIsCalled
<1>6. ASSUME NEW m \in 1..Len(calls'), calls'[m] \notin Main
      PROVE  m > 1 /\ calls'[m - 1] = calls'[m] - Stages
  <2>1. CASE m < Len(calls)
    <3>1. m \in 1..Len(calls) /\ calls'[m] = calls[m]  BY <1>3, <2>1
    <3>2. m > 1 /\ calls[m - 1] = calls[m] - Stages  BY <1>5, <1>6, <3>1
    <3>3. m - 1 \in 1..Len(calls) /\ m - 1 < Len(calls)  BY <1>3, <2>1, <3>2
    <3> QED  BY <1>3, <3>1, <3>2, <3>3
  <2>2. CASE m = Len(calls)
    <3>1. calls' # Front(calls)
      <4>1. Len(calls') >= Len(calls)  BY <1>3, <1>6, <2>2
      <4> QED  BY <1>3, <4>1
    <3>2. calls'[m] = calls[m] /\ m \in 1..Len(calls)  BY <1>1, <1>3, <2>2, <3>1
    <3>3. m > 1 /\ calls[m - 1] = calls[m] - Stages  BY <1>5, <1>6, <3>2
    <3>4. m - 1 \in 1..Len(calls) /\ m - 1 < Len(calls)  BY <1>3, <2>2, <3>3
    <3> QED  BY <1>3, <3>2, <3>3, <3>4
  <2>3. CASE m > Len(calls)
    <3>1. PICK j \in Ids : /\ i \in Main /\ Len(calls') = Len(calls) + 1 /\ calls'[Len(calls) + 1] = j
                           /\ (j \in Main \/ j = Inner(i))
      BY <1>3, <2>3
    <3>2. m = Len(calls) + 1 /\ m - 1 = Len(calls)  BY <1>3, <2>3, <3>1
    <3>3. calls'[m] = Inner(i) /\ Inner(i) - Stages = i  BY <1>6, <3>1, <3>2, IdFacts
    <3>4. calls'[Len(calls)] = i
      <4>1. calls' # Front(calls)  BY <1>3, <3>1
      <4> QED  BY <1>3, <4>1
    <3>5. m > 1  BY <1>3, <3>2
    <3> QED  BY <3>2, <3>3, <3>4, <3>5
  <2> QED  BY <1>3, <2>1, <2>2, <2>3
<1>7. ASSUME answer'.from \notin Main \cup {0}
      PROVE  /\ calls' # <<>> /\ calls'[Len(calls')] = answer'.from - Stages
             /\ st'[answer'.from - Stages].inner # 0
  <2>1. answer' # NoAnswer  BY <1>7 DEF NoAnswer
  <2>2. calls' = Front(calls) /\ Len(calls') = Len(calls) - 1 /\ answer'.from = i  BY <1>3, <2>1
  <2>3. i \notin Main /\ Len(calls) \in 1..Len(calls)  BY <1>3, <1>7, <2>2
  <2>4. Len(calls) > 1 /\ calls[Len(calls) - 1] = i - Stages  BY <1>1, <1>5, <2>3
  <2>5. Len(calls) - 1 \in 1..Len(calls) /\ Len(calls) - 1 < Len(calls)  BY <1>3, <2>4
  <2>6. i - Stages \in Ids /\ i - Stages # i /\ st[i - Stages].inner # 0
    <3>1. Holding /\ Talking  BY DEF IInv
    <3>2. i - Stages \in Main /\ st[i - Stages].inner # 0  BY <2>3, <3>1, TopFacts
    <3> QED  BY <2>3, <3>2, IdFacts
  <2>7. st'[i - Stages].inner # 0  BY <1>1, <2>6 DEF Rests
  <2> QED  BY <1>3, <2>2, <2>4, <2>5, <2>7
<1>8. ASSUME NEW j \in Main PROVE ~Unasked(j)'
  <2>1. SUFFICES ASSUME kind[Inner(j)] # "none", st'[Inner(j)].left > 0 PROVE FALSE
    BY <1>1 DEF Unasked
  <2>2. Inner(j) \in Ids /\ Inner(j) \notin Main  BY IdFacts
  <2>3. CASE Inner(j) = i  
    <3>1. st'[i].left = 0  BY <1>2, <2>2, <2>3 DEF Yields
    <3> QED  BY <2>1, <2>3, <3>1
  <2>4. CASE Inner(j) # i
    <3>1. st'[Inner(j)].left = st[Inner(j)].left  BY <1>1, <2>2, <2>4 DEF Rests
    <3>2. Unasked(j)  BY <2>1, <3>1 DEF Unasked
    <3> QED  BY <1>1, <2>4, <3>2 DEF InnerIsCalled
  <2> QED  BY <2>3, <2>4
<1> QED  BY <1>4, <1>6, <1>7, <1>8 DEF InnerIsCalled

(* The last stage stays the last.                                            *)
LEMMA SameLast ==
    ASSUME \A j \in Main : kind'[j] = kind[j]
    PROVE  LastStage' = LastStage /\ CutShort' = CutShort
<1>1. {j \in Main : kind'[j] # "none"} = {j \in Main : kind[j] # "none"}  OBVIOUS
<1> QED  BY <1>1 DEF LastStage, CutShort

LEMMA MoveLast ==
    ASSUME IInv, LastIsAsked, NEW i, OnTop(i), Moves(i)
    PROVE  LastIsAsked'
<1>1. /\ i \in Ids /\ i # 0 /\ kind' = kind
      /\ calls \in Seq(Ids) /\ calls # <<>> /\ calls[Len(calls)] = i
  BY MoveFacts
<1>2. phase' = phase /\ phase = "pulling" /\ LastStage' = LastStage
  BY <1>1, SameLast DEF Moves, OnTop
<1>3. /\ Len(calls) \in Nat /\ Len(calls) >= 1 /\ calls' \in Seq(Ids)
      /\ Len(Front(calls)) = Len(calls) - 1
      /\ \/ calls' = Front(calls) /\ Len(calls') = Len(calls) - 1 /\ answer'.from = i
         \/ /\ answer' = NoAnswer
            /\ \E j \in Ids : calls' = Append(calls, j) /\ Len(calls') = Len(calls) + 1
         \/ answer' = NoAnswer /\ calls' = calls
      /\ \A m \in 1..Len(calls) : m < Len(calls) => m \in 1..Len(calls') /\ calls'[m] = calls[m]
      /\ calls' # Front(calls) => calls'[Len(calls)] = i
  BY <1>1, StackAfter DEF Moves
<1>4. calls[1] = LastStage  BY <1>1 DEF LastIsAsked
<1>5. CASE Len(calls) > 1
  <2>1. calls'[1] = calls[1] /\ 1 \in 1..Len(calls')  BY <1>3, <1>5
  <2>2. calls' # <<>>  BY <2>1
  <2> QED  BY <1>2, <1>4, <2>1, <2>2 DEF LastIsAsked
<1>6. CASE Len(calls) = 1
  <2>1. i = LastStage  BY <1>1, <1>4, <1>6
  <2>2. calls' # Front(calls) => calls'[1] = LastStage /\ calls' # <<>>
    BY <1>1, <1>3, <1>6, <2>1
  <2>3. calls' = Front(calls) => calls' = <<>>
    BY <1>1, <1>6, FrontFacts
  <2>4. calls' = Front(calls) => answer'.from = i
    BY <1>1, <1>3, <1>6, FrontFacts
  <2> QED  BY <1>2, <2>1, <2>2, <2>3, <2>4 DEF LastIsAsked
<1>7. Len(calls) > 1 \/ Len(calls) = 1
  <2>1. \A n \in Nat : n >= 1 => n > 1 \/ n = 1  OBVIOUS
  <2>2. Len(calls) \in Nat /\ Len(calls) >= 1  BY <1>3
  <2> QED  BY ONLY <2>1, <2>2
<1> QED  BY <1>5, <1>6, <1>7

LEMMA MovePresent ==
    ASSUME IInv, AllPresent, InnerIsCalled, NEW i, OnTop(i), Moves(i)
    PROVE  AllPresent'
<1>1. /\ i \in Ids /\ kind' = kind /\ st \in [Ids -> Stream]
      /\ \A j \in Ids : j # i => Rests(st[j], st'[j], dropped)
      /\ calls[Len(calls)] = i
  BY MoveFacts
<1>2. Passes(i) /\ Yields(i) /\ output' = output /\ dropped \subseteq dropped'  BY DEF Moves
<1>3. ASSUME NEW v \in 1..Items, Present(v)
      PROVE  Present(v)'
  <2>1. v # End  BY IdFacts DEF End
  <2>2. CASE v \in Range(output) \/ v \in dropped
    BY <1>2, <2>2 DEF Present
  <2>3. CASE v = answer.item \/ v \in Has(st[i])
    <3>1. v \in Has(st'[i]) \/ v = answer'.item \/ v \in dropped'  BY <1>2, <2>1, <2>3 DEF Passes
    <3> QED  BY <1>1, <3>1 DEF Present
  <2>4. ASSUME NEW j \in Ids, j # i, v \in Has(st[j]) PROVE Present(v)'
    <3>1. Has(st'[j]) = Has(st[j])  BY <1>1, <2>4 DEF Rests, Has
    <3> QED  BY <2>4, <3>1 DEF Present
  <2>5. ASSUME NEW j \in Main, Unasked(j), v = st[Inner(j)].tag PROVE Present(v)'
    <3>1. Inner(j) = i /\ i \notin Main  BY <1>1, <2>5, IdFacts DEF InnerIsCalled
    <3>2. st[i].left > 0  BY <2>5, <3>1 DEF Unasked
    <3>3. v = answer'.item  BY <1>2, <2>5, <3>1, <3>2 DEF Yields
    <3> QED  BY <3>3 DEF Present
  <2> QED  BY <1>3, <2>2, <2>3, <2>4, <2>5 DEF Present
<1>4. ASSUME NEW v \in 1..(Items - st'[1].left)
      PROVE  Present(v)'
  <2>1. st[1] \in Stream /\ st[1].left \in 0..Items /\ Items \in Nat
    BY <1>1, SourceIsId, IdFacts DEF Stream
  <2>2. st'[1].left = st[1].left \/ (st'[1].left = st[1].left - 1 /\ answer'.item = Items - st'[1].left)
    BY <1>1, <1>2, SourceIsId DEF Yields, Rests
  <2>3. CASE v \in 1..(Items - st[1].left)
    <3>1. v \in 1..Items  BY <2>1, <2>3
    <3> QED  BY <1>3, <2>3, <3>1 DEF AllPresent
  <2>4. CASE v \notin 1..(Items - st[1].left)
    <3>1. v = answer'.item  BY <1>4, <2>1, <2>2, <2>4
    <3> QED  BY <3>1 DEF Present
  <2> QED  BY <2>3, <2>4
<1> QED  BY <1>4 DEF AllPresent

(* A step of the stage on top that goes well keeps all of it.                *)
LEMMA MoveFlows ==
    ASSUME IInv, Flows, NEW i, OnTop(i), Moves(i)
    PROVE  Flows'
<1>1. ~failed' BY DEF Moves, Flows
<1> QED
  BY <1>1, MoveKeeps, MoveReads, MoveEnds, MoveInner, MoveLast, MovePresent DEF Flows

-----------------------------------------------------------------------------
(* Steps that go well.                                                       *)

Well == IInv /\ IInv' /\ Flows /\ ~erred' /\ ~CutShort

HoldingKinds == {"parallel", "sort", "group", "encode_csv"}

(* A stage that holds no items.                                              *)
Void(x, d) == x.jobs = <<>> /\ x.buffer = <<>> /\ x.held \in {End} \cup d

LEMMA WellFacts ==
    ASSUME Well
    PROVE  /\ Holding /\ Talking /\ RestType /\ Fit(kind, st) /\ Fit(kind', st')
           /\ kind \in [Ids -> AnyKind] /\ st \in [Ids -> Stream] /\ st' \in [Ids -> Stream]
           /\ ~failed /\ KeepsByKind /\ ReadToTheEnd /\ EndIsClosed /\ InnerIsCalled
           /\ ~Error
<1>1. Holding /\ Talking /\ RestType /\ Holding'  BY DEF Well, IInv
<1>2. Fit(kind, st) /\ kind \in [Ids -> AnyKind] /\ st \in [Ids -> Stream]  BY <1>1, BookFacts
<1>3. Fit(kind', st') /\ st' \in [Ids -> Stream]  BY <1>1 DEF Holding, HoldType
<1>4. ~Error  BY DEF Well, Error
<1> QED  BY <1>1, <1>2, <1>3, <1>4 DEF Well, Flows

(* Most kinds have nothing, whatever their stage has done.                   *)
LEMMA MostAreVoid ==
    ASSUME Well, NEW j \in Ids, kind[j] \notin HoldingKinds
    PROVE  Void(st[j], dropped)
<1>1. HoldsAsOne(kind[j], st[j]) /\ Keeps(kind[j], st[j], dropped)
  BY WellFacts DEF Fit, HoldsByKind, KeepsByKind
<1> QED  BY <1>1 DEF HoldingKinds, HoldsAsOne, Keeps, Void, Barriers

LEMMA VoidHas ==
    ASSUME NEW j \in Ids, Void(st[j], dropped)
    PROVE  \A v \in Has(st[j]) : v \in dropped \/ v = End
<1>1. Range(st[j].buffer) = {} /\ {st[j].jobs[n].item : n \in DOMAIN st[j].jobs} = {}
  BY DEF Void, Range
<1> QED  BY <1>1 DEF Has, Void

LEMMA InnerKind ==
    ASSUME Well, NEW j \in Ids, j \notin Main
    PROVE  kind[j] \in {"none", "list", "lines"}
<1>1. j - Stages \in Main /\ Inner(j - Stages) = j  BY IdFacts
<1> QED  BY <1>1, WellFacts DEF Fit, KindsFit

(* Only the source and the inner streams are of a source's kind.             *)
LEMMA SourcePlace ==
    ASSUME Well, NEW j \in Ids, kind[j] \in SourceKinds
    PROVE  /\ j = 1 \/ j \notin Main
           /\ kind[j] \notin HoldingKinds /\ kind[j] \notin {"parse_csv"} /\ kind[j] # "none"
<1>1. j = 1 \/ j \notin Main  BY WellFacts DEF Fit, KindsFit, SourceKinds, StageKinds
<1> QED  BY <1>1 DEF SourceKinds, HoldingKinds

(* An inner stream that is not to be asked any more has nothing left.        *)
LEMMA NothingLeft ==
    ASSUME Well, NEW j \in Ids, j \notin Main, kind[j] # "none", st[j].closed
    PROVE  st[j].left = 0
<1>1. j - Stages \in Main /\ Inner(j - Stages) = j  BY IdFacts
<1>2. ~(st[j].left > 0)  BY <1>1, WellFacts DEF InnerIsCalled, Unasked
<1>3. st[j].left \in Nat  BY WellFacts, IdFacts DEF Stream
<1> QED  BY <1>2, <1>3

LEMMA SameRests ==
    ASSUME NEW x, NEW d
    PROVE  Rests(x, x, d)
BY DEF Rests

(* A stage that leaves all streams as they are.                              *)
LEMMA StillMoves ==
    ASSUME Well, NEW i \in Ids, OnTop(i), UNCHANGED st, UNCHANGED <<dropped, kind, output, phase>>,
           NoError, Talks(i), answer.item \in {End, answer'.item},
           i \notin Main => st[i].left = 0,
           kind[i] \in Barriers => st[i].closed,
           kind[i] = "encode_csv" => st[i].held = End \/ calls' = Front(calls)
    PROVE  Moves(i)
<1>1. /\ Fit(kind, st) /\ st' \in [Ids -> Stream] /\ KeepsByKind /\ ReadToTheEnd /\ InnerIsCalled
  BY WellFacts
<1>2. \A j \in Ids : Rests(st[j], st'[j], dropped)  BY SameRests
<1>3. Keeps(kind[i], st'[i], dropped')  BY <1>1 DEF KeepsByKind
<1>4. Passes(i)  BY DEF Passes
<1>5. Yields(i)
  <2>1. ~(st[i].left > 0) \/ i \in Main  BY WellFacts, IdFacts
  <2> QED  BY <2>1 DEF Yields
<1>6. Knows(i)
  <2>1. kind[i] = "parallel" \/ kind[i] \in Barriers => i \in Main /\ i - 1 \in Ids /\ i - 1 \in 1..i
    <3>1. kind[i] = "parallel" \/ kind[i] \in Barriers => i \in Main /\ i - 1 \in Main
      BY <1>1, StageFacts DEF Barriers, StageKinds
    <3> QED  BY <3>1, IdFacts DEF Main
  <2>2. kind[i] = "parallel" /\ st[i].done => st[i - 1].closed  BY <1>1, <2>1 DEF ReadToTheEnd
  <2>3. kind[i] \in Barriers => st[i - 1].closed
    BY <1>1, <2>1 DEF Fit, ClosedBelow
  <2>4. i \in Main /\ kind[i] # "flat_map" => st[i].inner = 0  BY <1>1 DEF InnerIsCalled
  <2> QED  BY <2>2, <2>3, <2>4 DEF Knows
<1> QED  BY <1>1, <1>2, <1>3, <1>4, <1>5, <1>6 DEF Moves, NoError

(* What a close that begins here reaches beside the stage.                   *)
LEMMA ReachesBelow ==
    ASSUME Well, NEW i \in Ids, kind[i] # "none", NEW j \in Closing(i), j # i
    PROVE  /\ j \in Ids /\ i \in Main
           /\ \/ j \notin Main /\ (j = Inner(i) \/ (i # 1 /\ ~st[i - 1].closed))
              \/ j \in Main /\ j < i /\ i # 1 /\ ~st[i - 1].closed
<1> DEFINE down == IF i \in Main THEN {m \in 1..i : \A k \in m..i : ~st[k].closed}
                   ELSE {m \in {i} : ~st[m].closed}
           inside == {Inner(m) : m \in {k \in down : st[k].inner # 0 /\ ~st[Inner(k)].closed}}
<1>1. Closing(i) = down \cup inside  BY DEF Closing
<1>2. Closing(i) = ClosingIn(st, i) /\ Fit(kind, st) /\ kind \in [Ids -> AnyKind] /\ st \in [Ids -> Stream]
  BY WellFacts, SameNames
<1>3. Closing(i) \subseteq Ids /\ (i \notin Main => Closing(i) \subseteq {i})
  BY ONLY <1>2, kind[i] # "none", i \in Ids, ClosingReaches
<1>4. i \in Main /\ j \in Ids  BY <1>3
<1>5. ASSUME NEW m \in down, m # i
      PROVE  m \in Main /\ m < i /\ i # 1 /\ ~st[i - 1].closed
  <2>1. m \in 1..i /\ m \in Main /\ i \in Int  BY <1>4, <1>5, IdFacts
  <2>2. m < i /\ i - 1 \in m..i  BY <1>5, <2>1
  <2>3. ~st[i - 1].closed  BY <1>4, <1>5, <2>2
  <2> QED  BY <2>1, <2>2, <2>3
<1>6. ASSUME j \in inside
      PROVE  j \notin Main /\ (j = Inner(i) \/ (i # 1 /\ ~st[i - 1].closed))
  <2>1. PICK m \in down : j = Inner(m)  BY <1>6
  <2>2. m \in Main  BY <1>4, <1>5, <2>1
  <2> QED  BY <1>5, <2>1, <2>2, IdFacts
<1> HIDE DEF down, inside
<1> QED  BY <1>1, <1>4, <1>5, <1>6

(* A stage that has nothing any more closes, and gives nothing else up.      *)
LEMMA FinishMoves ==
    ASSUME Well, NEW i \in Ids, OnTop(i), Finish(i), KeepRest, Void(st[i], dropped),
           answer.item = End,
           \/ i \notin Main /\ st[i].left = 0
           \/ i = 1
           \/ i \in Main /\ i # 1 /\ (kind[i] = "take" \/ st[i - 1].closed)
    PROVE  Moves(i)
<1>1. /\ Fit(kind, st) /\ Fit(kind', st') /\ st' \in [Ids -> Stream] /\ st \in [Ids -> Stream]
      /\ KeepsByKind /\ InnerIsCalled /\ Holding /\ Talking /\ kind \in [Ids -> AnyKind]
  BY WellFacts
<1>2. kind[i] # "none"  BY <1>1, TopFacts
<1>3. /\ st' = Shut(Closing(i)) /\ Give(i, End) /\ UNCHANGED dropped /\ NoError
  BY DEF Finish, Close
<1>4. ASSUME NEW j \in Closing(i), j # i
      PROVE  Void(st[j], dropped)
  <2>1. /\ j \in Ids /\ i \in Main
        /\ \/ j \notin Main /\ (j = Inner(i) \/ (i # 1 /\ ~st[i - 1].closed))
           \/ j \in Main /\ j < i /\ i # 1 /\ ~st[i - 1].closed
    BY ONLY <1>2, <1>4, Well, i \in Ids, ReachesBelow
  <2>2. CASE j \notin Main
    <3>1. kind[j] \notin HoldingKinds  BY <2>1, <2>2, InnerKind DEF HoldingKinds
    <3> QED  BY <2>1, <3>1, MostAreVoid
  <2>3. CASE j \in Main
    <3>1. kind[i] = "take" /\ j < i /\ i \in Main  BY <2>1, <2>3
    <3>2. kind[j] \notin HoldingKinds  BY <2>3, <3>1 DEF Well, CutShort, HoldingKinds
    <3> QED  BY <2>1, <3>2, MostAreVoid
  <2> QED  BY <2>2, <2>3
<1>5. \A j \in Ids : st'[j] = IF j \in Closing(i) THEN Emptied(st[j]) ELSE st[j]
  BY <1>3 DEF Shut
<1>6. ASSUME NEW j \in Ids, j \in Closing(i)
      PROVE  /\ st'[j].closed /\ st'[j].jobs = <<>>
             /\ st'[j].left = st[j].left /\ st'[j].tag = st[j].tag /\ st'[j].inner = st[j].inner
             /\ st'[j].buffer = st[j].buffer /\ st'[j].held = st[j].held
             /\ st'[j].started = st[j].started /\ st'[j].done = st[j].done /\ st'[j].busy = st[j].busy
  <2>1. st'[j] = Emptied(st[j]) /\ st[j] \in Stream  BY <1>1, <1>5, <1>6
  <2> QED  BY <2>1 DEF Emptied, Stream
<1>7. ASSUME NEW j \in Ids, j # i PROVE Rests(st[j], st'[j], dropped)
  <2>1. CASE j \in Closing(i)
    <3>1. Void(st[j], dropped)  BY <1>4, <1>7, <2>1
    <3> QED  BY <1>6, <2>1, <3>1 DEF Rests, Void
  <2>2. CASE j \notin Closing(i)  BY <1>5, <2>2, SameRests
  <2> QED  BY <2>1, <2>2
<1>8. /\ st'[i].closed
      /\ st'[i].left = st[i].left /\ st'[i].tag = st[i].tag /\ st'[i].inner = st[i].inner
      /\ st'[i].buffer = st[i].buffer /\ st'[i].held = st[i].held /\ st'[i].busy = st[i].busy
  <2>1. CASE i \in Closing(i)  BY <1>6, <2>1
  <2>2. CASE i \notin Closing(i)
    <3>1. Closing(i) = ClosingIn(st, i)  BY SameNames
    <3>2. st[i].closed  BY ONLY <1>1, <1>2, <2>2, <3>1, i \in Ids, ClosingReaches
    <3> QED  BY <1>5, <2>2, <3>2
  <2> QED  BY <2>1, <2>2
<1>9. Keeps(kind[i], st'[i], dropped')
  <2>1. Keeps(kind[i], st[i], dropped)  BY <1>1 DEF KeepsByKind
  <2> QED  BY <1>3, <1>8, <2>1 DEF Keeps, Void
<1>10. Talks(i)  BY <1>3, <1>8 DEF Talks
<1>11. Passes(i)
  <2>1. \A v \in Has(st[i]) : v \in dropped \/ v = End  BY VoidHas
  <2> QED  BY <1>3, <2>1 DEF Passes
<1>12. Yields(i)
  <2>1. i \notin Main => st[i].left = 0  BY SourceIsId
  <2> QED  BY <1>8, <2>1 DEF Yields
<1>13. Knows(i)
  <2>1. i \in Main /\ kind[i] # "flat_map" => st'[i].inner = 0  BY <1>1, <1>8 DEF InnerIsCalled
  <2>2. kind[i] \in StageKinds => st'[i - 1].closed
    <3>1. SUFFICES ASSUME kind[i] \in StageKinds PROVE st'[i - 1].closed  OBVIOUS
    <3>2. i \in Main /\ i - 1 \in Main  BY <1>1, <3>1, StageFacts
    <3>3. i - 1 \in 1..i  BY <3>2, IdFacts DEF Main
    <3> QED  BY <1>1, <1>8, <3>2, <3>3 DEF Fit, ClosedBelow
  <2>3. calls' = Front(calls)  BY <1>3 DEF Give
  <2> QED  BY <2>1, <2>2, <2>3 DEF Knows, Barriers, StageKinds
<1>14. dropped \subseteq dropped' /\ UNCHANGED <<kind, output, phase, failed>>
  BY <1>3 DEF KeepRest, NoError
<1> QED  BY <1>1, <1>7, <1>8, <1>9, <1>10, <1>11, <1>12, <1>13, <1>14 DEF Moves

(* A source that is at its end is closed.                                    *)
LEMMA EndClosed ==
    ASSUME Well, NEW i \in Ids, Told(i, i - 1), kind[i] \in StageKinds, answer.item = End
    PROVE  st[i - 1].closed /\ i \in Main /\ i # 1
<1>1. /\ Fit(kind, st) /\ EndIsClosed /\ InnerIsCalled  BY WellFacts
<1>2. i \in Main /\ i # 1 /\ i - 1 \in Main /\ i - 1 \in Ids  BY <1>1, StageFacts
<1>3. answer.from = i - 1
  <2>1. SUFFICES ASSUME answer.from = Inner(i - 1) PROVE FALSE  BY DEF Told
  <2>2. answer.from \notin Main \cup {0} /\ answer.from - Stages = i - 1  BY <1>2, <2>1, IdFacts
  <2>3. calls[Len(calls)] = i - 1  BY <1>1, <2>2 DEF InnerIsCalled
  <2> QED  BY <2>3, IdFacts DEF Told
<1> QED  BY <1>1, <1>2, <1>3, IdFacts DEF EndIsClosed

(* A stage that changes itself only.                                         *)
LEMMA OwnMoves ==
    ASSUME Well, NEW i \in Ids, \A j \in Ids : j # i => st'[j] = st[j],
           UNCHANGED <<kind, output, phase>>, NoError, dropped \subseteq dropped',
           st[i].closed => st'[i].closed, Keeps(kind[i], st'[i], dropped'),
           Talks(i), Passes(i), Yields(i), Knows(i)
    PROVE  Moves(i)
<1>1. \A j \in Ids : j # i => Rests(st[j], st'[j], dropped)  BY SameRests
<1> QED  BY <1>1, WellFacts DEF Moves, NoError

(* A source, or an inner stream, gives its next item.                        *)
LEMMA SourceGives ==
    ASSUME Well, NEW i \in Ids, OnTop(i), kind[i] \in SourceKinds, answer = NoAnswer,
           st[i].left > 0, \A j \in Ids : j # i => st'[j] = st[j], st'[i].left = st[i].left - 1,
           st'[i].closed = st[i].closed, st'[i].inner = st[i].inner, st'[i].buffer = st[i].buffer,
           st'[i].held = st[i].held, Give(i, ItemOf(i)), NoError, KeepRest, UNCHANGED dropped
    PROVE  Moves(i)
<1>1. /\ i = 1 \/ i \notin Main
      /\ kind[i] \notin HoldingKinds /\ kind[i] \notin {"parse_csv"} /\ kind[i] # "none"
  BY SourcePlace
<1>2. Void(st[i], dropped) /\ Keeps(kind[i], st[i], dropped) /\ st[i] \in Stream
  BY <1>1, MostAreVoid, WellFacts DEF KeepsByKind
<1>3. UNCHANGED <<kind, output, phase>> /\ answer'.item = ItemOf(i)  BY DEF KeepRest, Give
<1>4. ItemOf(i) \in Item /\ ItemOf(i) # End
  <2>1. ItemOf(i) \in Item  BY WellFacts, ItemOfType
  <2> QED  BY <2>1, IdFacts DEF Item, End
<1>5. Keeps(kind[i], st'[i], dropped')
  BY <1>1, <1>2 DEF Keeps, HoldingKinds, Void, Barriers
<1>6. Talks(i)  BY <1>4 DEF Talks
<1>7. Passes(i)
  <2>1. \A v \in Has(st[i]) : v \in dropped \/ v = End  BY <1>2, VoidHas
  <2> QED  BY <2>1 DEF Passes, NoAnswer
<1>8. Yields(i)
  <2>1. CASE i = 1
    <3>1. ItemOf(i) = Items + 1 - st[1].left  BY <2>1, SourceIsId DEF ItemOf
    <3>2. st[1].left \in Nat /\ Items \in Nat  BY <1>2, <2>1, IdFacts DEF Stream
    <3>3. ItemOf(i) = Items - st'[1].left  BY <2>1, <3>1, <3>2
    <3> QED  BY <1>3, <2>1, <3>3, SourceIsId DEF Yields
  <2>2. CASE i \notin Main
    <3>1. i - Stages \in Main /\ Inner(i - Stages) = i  BY <2>2, IdFacts
    <3>2. Unasked(i - Stages)  BY <1>1, <3>1 DEF Unasked
    <3>3. st[i].left = 1  BY <3>1, <3>2, WellFacts DEF InnerIsCalled
    <3>4. ItemOf(i) = st[i].tag  BY <2>2 DEF ItemOf
    <3>5. i # 1  BY <2>2, SourceIsId
    <3> QED  BY <1>3, <3>3, <3>4, <3>5 DEF Yields
  <2> QED  BY <1>1, <2>1, <2>2
<1>9. Knows(i)
  <2>1. i \in Main /\ kind[i] # "flat_map" => st'[i].inner = 0  BY WellFacts DEF InnerIsCalled
  <2> QED  BY <1>1, <2>1 DEF Knows, HoldingKinds, Barriers
<1> QED  BY <1>3, <1>5, <1>6, <1>7, <1>8, <1>9, OwnMoves

(* A source that has nothing more.                                           *)
LEMMA SourceEnds ==
    ASSUME Well, NEW i \in Ids, OnTop(i), kind[i] \in SourceKinds, answer = NoAnswer,
           i \notin Main => st[i].left = 0, Finish(i), KeepRest
    PROVE  Moves(i)
<1>1. i = 1 \/ i \notin Main  BY SourcePlace
<1>2. Void(st[i], dropped)  BY SourcePlace, MostAreVoid
<1>3. answer.item = End  BY DEF NoAnswer
<1> QED  BY <1>1, <1>2, <1>3, FinishMoves

LEMMA RefuseFlows ==
    ASSUME Well, NEW i \in Ids, Refuse(i)
    PROVE  OnTop(i) /\ Moves(i)
<1>1. /\ OnTop(i) /\ KeepStreams /\ Give(i, End) /\ UNCHANGED dropped /\ KeepRest /\ answer = NoAnswer
      /\ kind[i] # "none"
  BY DEF Refuse, Asked, OnTop, Step
<1>2. NoError /\ st[i].closed  BY WellFacts DEF Refuse
<1>3. UNCHANGED st /\ UNCHANGED <<dropped, kind, output, phase>>  BY <1>1 DEF KeepStreams, KeepRest
<1>4. Talks(i)  BY <1>1, <1>2, <1>3 DEF Talks
<1>5. answer.item = End /\ calls' = Front(calls)  BY <1>1 DEF NoAnswer, Give
<1>6. i \notin Main => st[i].left = 0  BY <1>1, <1>2, NothingLeft
<1> QED  BY <1>1, <1>2, <1>3, <1>4, <1>5, <1>6, StillMoves

LEMMA InMemoryFlows ==
    ASSUME Well, NEW i \in Ids, NextInMemory(i)
    PROVE  OnTop(i) /\ Moves(i)
<1>1. Entered(i) /\ kind[i] \in SourceKinds  BY DEF NextInMemory, SourceKinds
<1>2. OnTop(i) /\ answer = NoAnswer /\ ~st[i].closed /\ KeepRest /\ st[i] \in Stream
      /\ st \in [Ids -> Stream]
  BY <1>1, EnterFacts DEF Well
<1>3. CASE /\ st[i].left > 0
           /\ st' = [st EXCEPT ![i].left = @ - 1]
           /\ Give(i, ItemOf(i)) /\ NoError
           /\ UNCHANGED <<files, procs, watchVars, dropped>>
  <2>1. st'[i] = [st[i] EXCEPT !.left = st[i].left - 1] /\ \A j \in Ids : j # i => st'[j] = st[j]
    BY <1>2, <1>3
  <2>2. /\ st'[i].left = st[i].left - 1
        /\ st'[i].closed = st[i].closed /\ st'[i].inner = st[i].inner /\ st'[i].buffer = st[i].buffer
        /\ st'[i].held = st[i].held
    BY <1>2, <2>1 DEF Stream
  <2> QED  BY <1>1, <1>2, <1>3, <2>1, <2>2, SourceGives
<1>4. CASE st[i].left = 0 /\ Finish(i)  BY <1>1, <1>2, <1>4, SourceEnds
<1>5. ~FailClosed(i)  BY WellFacts DEF FailClosed
<1> QED  BY <1>2, <1>3, <1>4, <1>5 DEF NextInMemory

LEMMA InDatabaseFlows ==
    ASSUME Well, NEW i \in Ids, NextInDatabase(i)
    PROVE  OnTop(i) /\ Moves(i)
<1>1. Entered(i) /\ kind[i] \in SourceKinds  BY DEF NextInDatabase, SourceKinds
<1>2. OnTop(i) /\ answer = NoAnswer /\ ~st[i].closed /\ KeepRest /\ st[i] \in Stream
      /\ st \in [Ids -> Stream]
  BY <1>1, EnterFacts DEF Well
<1>3. CASE /\ st[i].left > 0
           /\ st' = [st EXCEPT ![i].left = @ - 1, ![i].cursor = TRUE]
           /\ Give(i, ItemOf(i)) /\ NoError
           /\ UNCHANGED <<files, procs, watchVars, dropped>>
  <2>1. st'[i] = [st[i] EXCEPT !.left = st[i].left - 1, !.cursor = TRUE]
        /\ \A j \in Ids : j # i => st'[j] = st[j]
    BY <1>2, <1>3
  <2>2. /\ st'[i].left = st[i].left - 1
        /\ st'[i].closed = st[i].closed /\ st'[i].inner = st[i].inner /\ st'[i].buffer = st[i].buffer
        /\ st'[i].held = st[i].held
    BY <1>2, <2>1 DEF Stream
  <2> QED  BY <1>1, <1>2, <1>3, <2>1, <2>2, SourceGives
<1>4. CASE st[i].left = 0 /\ Finish(i)  BY <1>1, <1>2, <1>4, SourceEnds
<1>5. ~FailClosed(i)  BY WellFacts DEF FailClosed
<1> QED  BY <1>2, <1>3, <1>4, <1>5 DEF NextInDatabase

LEMMA InFileFlows ==
    ASSUME Well, NEW i \in Ids, NextInFile(i)
    PROVE  OnTop(i) /\ Moves(i)
<1>1. Entered(i) /\ kind[i] \in SourceKinds  BY DEF NextInFile, SourceKinds, WithFile
<1>2. OnTop(i) /\ answer = NoAnswer /\ ~st[i].closed /\ KeepRest /\ st[i] \in Stream
      /\ st \in [Ids -> Stream]
  BY <1>1, EnterFacts DEF Well
<1>3. CASE /\ st[i].left > 0
           /\ st' = [st EXCEPT ![i].file = TRUE, ![i].left = @ - 1]
           /\ UNCHANGED <<procs, watchVars, dropped>>
           /\ Give(i, ItemOf(i)) /\ NoError
  <2>1. st'[i] = [st[i] EXCEPT !.file = TRUE, !.left = st[i].left - 1]
        /\ \A j \in Ids : j # i => st'[j] = st[j]
    BY <1>2, <1>3
  <2>2. /\ st'[i].left = st[i].left - 1
        /\ st'[i].closed = st[i].closed /\ st'[i].inner = st[i].inner /\ st'[i].buffer = st[i].buffer
        /\ st'[i].held = st[i].held
    BY <1>2, <2>1 DEF Stream
  <2> QED  BY <1>1, <1>2, <1>3, <2>1, <2>2, SourceGives
<1>4. CASE st[i].left = 0 /\ Finish(i)  BY <1>1, <1>2, <1>4, SourceEnds
<1>5. ~FailClosed(i) /\ ~Error  BY WellFacts DEF FailClosed
<1> QED  BY <1>2, <1>3, <1>4, <1>5 DEF NextInFile

LEMMA WatchFlows ==
    ASSUME Well, NEW i \in Ids, NextWatch(i)
    PROVE  OnTop(i) /\ Moves(i)
<1>1. Asked(i) /\ kind[i] = "watch" /\ kind[i] \in SourceKinds /\ KeepRest
  BY DEF NextWatch, Step, SourceKinds
<1>2. /\ OnTop(i) /\ answer = NoAnswer /\ st[i] \in Stream /\ st \in [Ids -> Stream]
      /\ i = 1 /\ i \in Main /\ HoldsAsOne(kind[i], st[i]) 
  <2>1. st \in [Ids -> Stream] /\ Fit(kind, st)  BY WellFacts
  <2>2. i = 1  BY <1>1, <2>1, WatchIsFirst
  <2> QED  BY <1>1, <2>1, <2>2, SourceIsId DEF Asked, OnTop, Fit, HoldsByKind
<1>3. CASE /\ st[i].left > 0
           /\ st' = [st EXCEPT ![i].left = @ - 1, ![i].busy = "no"]
           /\ Give(i, ItemOf(i)) /\ NoError
           /\ UNCHANGED <<files, procs, dropped>>
  <2>1. st'[i] = [st[i] EXCEPT !.left = st[i].left - 1, !.busy = "no"]
        /\ \A j \in Ids : j # i => st'[j] = st[j]
    BY <1>2, <1>3
  <2>2. /\ st'[i].left = st[i].left - 1
        /\ st'[i].closed = st[i].closed /\ st'[i].inner = st[i].inner /\ st'[i].buffer = st[i].buffer
        /\ st'[i].held = st[i].held
    BY <1>2, <2>1 DEF Stream
  <2> QED  BY <1>1, <1>2, <1>3, <2>1, <2>2, SourceGives
<1>4. CASE /\ WatchWorks
           /\ st' = [st EXCEPT ![i].busy = "wait"]
           /\ UNCHANGED <<procs, calls, answer, dropped, erred>>
  <2>1. st'[i] = [st[i] EXCEPT !.busy = "wait"]
        /\ \A j \in Ids : j # i => st'[j] = st[j]
    BY <1>2, <1>4
  <2>2. /\ st'[i].left = st[i].left
        /\ st'[i].closed = st[i].closed /\ st'[i].inner = st[i].inner /\ st'[i].buffer = st[i].buffer
        /\ st'[i].held = st[i].held
    BY <1>2, <2>1 DEF Stream
  <2>3. UNCHANGED failed  BY <1>4 DEF WatchWorks, FirstScan, Open, Wake, Rescan, Rebuild, runtimeVars
  <2>4. Void(st[i], dropped) /\ Keeps(kind[i], st[i], dropped)
    BY SourcePlace, <1>1, MostAreVoid, WellFacts DEF KeepsByKind
  <2>5. Keeps(kind[i], st'[i], dropped')
    BY <1>1, <1>4, <2>2, <2>4 DEF Keeps, Void, Barriers
  <2>6. Talks(i)  BY <1>2, <1>4 DEF Talks
  <2>7. Passes(i)
    <3>1. \A v \in Has(st[i]) : v \in dropped \/ v = End  BY <2>4, VoidHas
    <3> QED  BY <1>2, <1>4, <3>1 DEF Passes, NoAnswer
  <2>8. Yields(i)  BY <1>2, <2>2 DEF Yields
  <2>9. Knows(i)
    <3>1. i \in Main /\ kind[i] # "flat_map" => st'[i].inner = 0  BY <2>2, WellFacts DEF InnerIsCalled
    <3> QED  BY <1>1, <3>1 DEF Knows, Barriers
  <2>10. UNCHANGED <<kind, output, phase>> /\ NoError /\ dropped \subseteq dropped'
    BY <1>1, <1>4, <2>3 DEF KeepRest, NoError
  <2> QED  BY <1>2, <2>1, <2>2, <2>5, <2>6, <2>7, <2>8, <2>9, <2>10, OwnMoves
<1>5. ~FailClosed(i)  BY WellFacts DEF FailClosed
<1> QED  BY <1>2, <1>3, <1>4, <1>5 DEF NextWatch

LEMMA SourceStepFlows ==
    ASSUME Well, NEW i \in Ids, Refuse(i) \/ SourceStep(i)
    PROVE  OnTop(i) /\ Moves(i)
<1>1. ~TimerCancelled(i)  BY WellFacts DEF TimerCancelled, FailClosed
<1> QED
  BY <1>1, RefuseFlows, InMemoryFlows, InDatabaseFlows, InFileFlows, WatchFlows DEF SourceStep

(* What an entered, and a told, stage is while all goes well.                *)
LEMMA EnterWell ==
    ASSUME Well, NEW i \in Main, Entered(i), kind[i] \in StageKinds
    PROVE  /\ i \in Ids /\ OnTop(i) /\ KeepRest /\ answer = NoAnswer /\ answer.item = End
           /\ ~st[i].closed /\ st[i].busy = "no" /\ st[i] \in Stream
           /\ i # 1 /\ i - 1 \in Main /\ i - 1 \in Ids /\ kind[i] # "none"
           /\ HoldsAsOne(kind[i], st[i]) /\ Keeps(kind[i], st[i], dropped)
           /\ st \in [Ids -> Stream]
<1>1. i \in Ids  BY IdFacts
<1>2. /\ OnTop(i) /\ KeepRest /\ answer = NoAnswer
      /\ ~st[i].closed /\ st[i].busy = "no" /\ st[i] \in Stream
      /\ HoldsAsOne(kind[i], st[i]) /\ Fit(kind, st) /\ kind[i] # "none"
  BY <1>1, EnterFacts DEF Well
<1>3. i # 1 /\ i - 1 \in Main /\ i - 1 \in Ids  BY <1>1, <1>2, StageFacts
<1>4. Keeps(kind[i], st[i], dropped) /\ st \in [Ids -> Stream]  BY <1>1, WellFacts DEF KeepsByKind
<1> QED  BY <1>1, <1>2, <1>3, <1>4 DEF NoAnswer

LEMMA ToldWell ==
    ASSUME Well, NEW i \in Main, Told(i, i - 1), kind[i] \in StageKinds
    PROVE  /\ i \in Ids /\ OnTop(i) /\ answer.item \in Item \cup {End}
           /\ ~st[i].closed /\ st[i] \in Stream /\ st[i].inner = 0
           /\ i # 1 /\ i - 1 \in Main /\ i - 1 \in Ids /\ kind[i] # "none"
           /\ HoldsAsOne(kind[i], st[i]) /\ Keeps(kind[i], st[i], dropped)
           /\ answer.from # 0 /\ st \in [Ids -> Stream]
<1>1. i \in Ids  BY IdFacts
<1>2. /\ OnTop(i) /\ answer.item \in Item \cup {End}
      /\ ~st[i].closed /\ st[i] \in Stream /\ st[i].inner = 0
      /\ i # 1 /\ i - 1 \in Main /\ i - 1 \in Ids /\ kind[i] # "none"
      /\ HoldsAsOne(kind[i], st[i])
  BY <1>1, ToldFacts DEF Well
<1>3. Keeps(kind[i], st[i], dropped) /\ st \in [Ids -> Stream]  BY <1>1, WellFacts DEF KeepsByKind
<1>4. answer.from # 0  BY <1>2, IdFacts DEF Told
<1> QED  BY <1>1, <1>2, <1>3, <1>4

(* A stage over a source changes itself only.                                *)
LEMMA StageGoesOn ==
    ASSUME Well, NEW i \in Main, i # 1, kind[i] # "none", \A j \in Ids : j # i => st'[j] = st[j], KeepRest, NoError,
           dropped \subseteq dropped', st'[i].closed = st[i].closed,
           st'[i].inner = st[i].inner, Keeps(kind[i], st'[i], dropped'),
           Talks(i), Passes(i),
           kind[i] = "parallel" /\ st'[i].done => st[i].done \/ st[i - 1].closed,
           kind[i] \in Barriers => calls' = Append(calls, i - 1) \/ st[i - 1].closed,
           kind[i] = "encode_csv" /\ st'[i].held # End => calls' = Front(calls)
    PROVE  Moves(i)
<1>1. i \in Ids /\ i - 1 \in Ids /\ i - 1 # i /\ UNCHANGED <<kind, output, phase>>
  <2>1. i \in Ids /\ i \in Int /\ i >= 1 /\ i <= Stages  BY IdFacts DEF Main
  <2>2. i - 1 \in Ids /\ i - 1 # i  BY <2>1, IdFacts DEF Ids
  <2> QED  BY <2>1, <2>2 DEF KeepRest
<1>2. Yields(i)  BY DEF Yields
<1>3. Knows(i)
  <2>1. kind[i] # "flat_map" => st'[i].inner = 0  BY WellFacts DEF InnerIsCalled
  <2>2. kind[i] = "parallel" /\ st[i].done => st[i - 1].closed  BY WellFacts DEF ReadToTheEnd
  <2>3. st'[i - 1] = st[i - 1]  BY <1>1
  <2> QED  BY <2>1, <2>2, <2>3 DEF Knows
<1> QED  BY <1>1, <1>2, <1>3, OwnMoves

(* It asks its source, or its inner stream, or answers with an item.         *)
LEMMA AskTalks ==
    ASSUME NEW i \in Main, NEW j \in Ids, Ask(j), j \in Main \/ j = Inner(i)
    PROVE  Talks(i)
BY DEF Talks

LEMMA GiveTalks ==
    ASSUME NEW i, NEW item \in Item, Give(i, item)
    PROVE  Talks(i) /\ calls' = Front(calls) /\ answer'.item = item
<1>1. item # End  BY IdFacts DEF Item, End
<1> QED  BY <1>1 DEF Talks, Give

-----------------------------------------------------------------------------
(* Stages that ask for one item after the other.                             *)

PerItemKind == \A q \in PerItem : q \in StageKinds /\ q \notin HoldingKinds /\ q \notin Barriers

LEMMA PerItemFacts == PerItemKind
BY DEF PerItemKind, PerItem, StageKinds, HoldingKinds, Barriers

LEMMA AskSourceFlows ==
    ASSUME Well, NEW i \in Main, AskSource(i)
    PROVE  OnTop(i) /\ Moves(i)
<1>1. Entered(i) /\ kind[i] \in PerItem /\ kind[i] \in StageKinds /\ kind[i] \notin HoldingKinds
      /\ kind[i] \notin Barriers
  BY PerItemFacts DEF AskSource, PerItemKind
<1>2. /\ i \in Ids /\ OnTop(i) /\ KeepRest /\ answer.item = End /\ i # 1 /\ i - 1 \in Main /\ i - 1 \in Ids
  BY <1>1, EnterWell
<1>3. Void(st[i], dropped)  BY <1>1, <1>2, MostAreVoid
<1>4. CASE kind[i] = "take" /\ Finish(i)  BY <1>2, <1>3, <1>4, FinishMoves
<1>5. CASE Ask(i - 1) /\ KeepStreams /\ NoError /\ UNCHANGED dropped
  <2>1. Talks(i)  BY <1>2, <1>5, AskTalks
  <2>2. UNCHANGED st /\ UNCHANGED <<dropped, kind, output, phase>>  BY <1>2, <1>5 DEF KeepStreams, KeepRest
  <2>3. kind[i] # "encode_csv"  BY <1>1 DEF HoldingKinds
  <2> QED  BY <1>1, <1>2, <1>5, <2>1, <2>2, <2>3, StillMoves
<1> QED  BY <1>2, <1>4, <1>5 DEF AskSource

LEMMA PassItemFlows ==
    ASSUME Well, NEW i \in Main, PassItem(i)
    PROVE  OnTop(i) /\ Moves(i)
<1>1. /\ Told(i, i - 1) /\ kind[i] \in PerItem /\ kind[i] \in StageKinds /\ kind[i] \notin HoldingKinds
      /\ kind[i] \notin Barriers
      /\ KeepRest /\ answer.item # End /\ Give(i, answer.item)
      /\ NoError /\ UNCHANGED <<files, procs, watchVars, dropped>>
      /\ st' = [st EXCEPT ![i].left = IF kind[i] = "take" THEN @ - 1 ELSE @,
                          ![i].started = TRUE, ![i].held = End]
  BY PerItemFacts DEF PassItem, PerItemKind, Step
<1>2. /\ i \in Ids /\ OnTop(i) /\ answer.item \in Item \cup {End} /\ st[i] \in Stream /\ i # 1
      /\ kind[i] # "none" /\ Keeps(kind[i], st[i], dropped) /\ st \in [Ids -> Stream]
  BY <1>1, ToldWell
<1>3. Void(st[i], dropped)  BY <1>1, <1>2, MostAreVoid
<1> DEFINE left == IF kind[i] = "take" THEN st[i].left - 1 ELSE st[i].left
<1>4. /\ \A j \in Ids : j # i => st'[j] = st[j]
      /\ st'[i] = [st[i] EXCEPT !.left = left, !.started = TRUE, !.held = End]
  BY <1>1, <1>2
<1>5. /\ st'[i].closed = st[i].closed /\ st'[i].inner = st[i].inner /\ st'[i].buffer = st[i].buffer
      /\ st'[i].jobs = st[i].jobs /\ st'[i].held = End
  BY <1>2, <1>4 DEF Stream
<1>6. Keeps(kind[i], st'[i], dropped')
  BY <1>1, <1>3, <1>5 DEF Keeps, Void, HoldingKinds
<1>7. Talks(i) /\ answer'.item = answer.item  BY <1>1, <1>2, GiveTalks
<1>8. Passes(i)
  <2>1. \A v \in Has(st[i]) : v \in dropped \/ v = End  BY <1>2, <1>3, VoidHas
  <2> QED  BY <1>1, <1>7, <2>1 DEF Passes
<1>9. dropped \subseteq dropped' /\ kind[i] # "parallel" /\ kind[i] # "encode_csv"
  BY <1>1 DEF HoldingKinds
<1> QED  BY <1>1, <1>2, <1>4, <1>5, <1>6, <1>7, <1>8, <1>9, StageGoesOn

LEMMA DropItemFlows ==
    ASSUME Well, NEW i \in Main, DropItem(i)
    PROVE  OnTop(i) /\ Moves(i)
<1>1. /\ Told(i, i - 1) /\ kind[i] \in PerItem
      /\ KeepRest /\ answer.item # End /\ Ask(i - 1) /\ NoError
      /\ dropped' = dropped \cup {answer.item}
      /\ st' = [st EXCEPT ![i].left = IF kind[i] = "skip" THEN @ - 1 ELSE @,
                        ![i].held = IF kind[i] = "parse_csv" /\ st[i].started
                                      THEN answer.item ELSE End,
                        ![i].started = TRUE]
  BY DEF DropItem, PerItem, Step, Drop
<1>2. kind[i] \in StageKinds /\ kind[i] \notin HoldingKinds /\ kind[i] \notin Barriers
  BY <1>1, PerItemFacts DEF PerItemKind
<1>3. /\ i \in Ids /\ OnTop(i) /\ st[i] \in Stream /\ i # 1
      /\ i - 1 \in Main /\ i - 1 \in Ids
      /\ kind[i] # "none" /\ Keeps(kind[i], st[i], dropped) /\ st \in [Ids -> Stream]
  BY <1>1, <1>2, ToldWell
<1>4. Void(st[i], dropped)  BY <1>2, <1>3, MostAreVoid
<1> DEFINE left == IF kind[i] = "skip" THEN st[i].left - 1 ELSE st[i].left
           held == IF kind[i] = "parse_csv" /\ st[i].started THEN answer.item ELSE End
<1>5. /\ \A j \in Ids : j # i => st'[j] = st[j]
      /\ st'[i] = [st[i] EXCEPT !.left = left, !.held = held, !.started = TRUE]
  BY <1>1, <1>3
<1>6. /\ st'[i].closed = st[i].closed /\ st'[i].inner = st[i].inner /\ st'[i].buffer = st[i].buffer
      /\ st'[i].jobs = st[i].jobs /\ st'[i].held = held
  BY <1>3, <1>5 DEF Stream
<1>7. Keeps(kind[i], st'[i], dropped')
  <2>1. st'[i].buffer = <<>> /\ st'[i].held \in {End} \cup dropped'  BY <1>1, <1>4, <1>6 DEF Void
  <2>2. kind[i] # "parse_csv" => st'[i].held = End  BY <1>6
  <2> QED  BY <1>2, <2>1, <2>2 DEF Keeps, HoldingKinds
<1>8. Talks(i)  BY <1>1, <1>3, AskTalks
<1>9. Passes(i)
  <2>1. \A v \in Has(st[i]) : v \in dropped \/ v = End  BY <1>3, <1>4, VoidHas
  <2> QED  BY <1>1, <2>1 DEF Passes
<1>10. dropped \subseteq dropped' /\ kind[i] # "parallel" /\ kind[i] # "encode_csv"
  BY <1>1, <1>2 DEF HoldingKinds
<1> QED  BY <1>1, <1>2, <1>3, <1>5, <1>6, <1>7, <1>8, <1>9, <1>10, StageGoesOn

LEMMA ItemStepFlows ==
    ASSUME Well, NEW i \in Main, ItemStep(i)
    PROVE  OnTop(i) /\ Moves(i)
<1>1. ~FailItem(i)  BY WellFacts DEF FailItem, FailOpen, FailClosed
<1>2. CASE SourceEnded(i)
  <2>1. /\ Told(i, i - 1) /\ answer.item = End /\ kind[i] \in PerItem /\ KeepRest
        /\ kind[i] \in StageKinds /\ kind[i] \notin HoldingKinds
    BY <1>2, PerItemFacts DEF SourceEnded, PerItemKind, Step
  <2>2. Finish(i)  BY <1>2, WellFacts DEF SourceEnded, FailClosed
  <2>3. i \in Ids /\ OnTop(i)  BY <2>1, ToldWell
  <2>4. st[i - 1].closed /\ i # 1  BY <2>1, <2>3, EndClosed
  <2>5. Void(st[i], dropped)  BY <2>1, <2>3, MostAreVoid
  <2> QED  BY <2>1, <2>2, <2>3, <2>4, <2>5, FinishMoves
<1> QED  BY <1>1, <1>2, AskSourceFlows, PassItemFlows, DropItemFlows DEF ItemStep

-----------------------------------------------------------------------------
(* encode_csv.                                                               *)

LEMMA AskRowFlows ==
    ASSUME Well, NEW i \in Main, AskRow(i)
    PROVE  OnTop(i) /\ Moves(i)
<1>1. Entered(i) /\ kind[i] = "encode_csv" /\ kind[i] \in StageKinds /\ kind[i] \notin Barriers
  BY DEF AskRow, StageKinds, Barriers
<1>2. /\ i \in Ids /\ OnTop(i) /\ KeepRest /\ answer.item = End /\ i # 1 /\ i - 1 \in Main /\ i - 1 \in Ids
      /\ HoldsAsOne(kind[i], st[i]) /\ Keeps(kind[i], st[i], dropped)
      /\ st \in [Ids -> Stream] /\ st[i] \in Stream /\ kind[i] # "none"
  BY <1>1, EnterWell
<1>3. CASE /\ st[i].held # End
           /\ Give(i, st[i].held)
           /\ st' = [st EXCEPT ![i].held = End]
           /\ UNCHANGED <<files, procs, watchVars, dropped>> /\ NoError
  <2>1. st[i].held \in Item  BY <1>2, <1>3 DEF Stream
  <2>2. /\ \A j \in Ids : j # i => st'[j] = st[j]
        /\ st'[i] = [st[i] EXCEPT !.held = End]
    BY <1>2, <1>3
  <2>3. /\ st'[i].closed = st[i].closed /\ st'[i].inner = st[i].inner /\ st'[i].buffer = st[i].buffer
        /\ st'[i].held = End
    BY <1>2, <2>2 DEF Stream
  <2>4. st[i].buffer = <<>> /\ st[i].jobs = <<>>  BY <1>1, <1>2 DEF Keeps, HoldsAsOne
  <2>5. Keeps(kind[i], st'[i], dropped')  BY <1>1, <2>3, <2>4 DEF Keeps
  <2>6. Talks(i) /\ answer'.item = st[i].held  BY <1>3, <2>1, GiveTalks
  <2>7. Passes(i)
    <3>1. \A v \in Has(st[i]) : v = st[i].held  BY <2>4 DEF Has, Range
    <3> QED  BY <1>2, <2>6, <3>1 DEF Passes
  <2>8. dropped \subseteq dropped'  BY <1>3
  <2> QED  BY <1>1, <1>2, <1>3, <2>2, <2>3, <2>5, <2>6, <2>7, <2>8, StageGoesOn
<1>4. ~FailOpen(i)  BY WellFacts DEF FailOpen
<1>5. CASE st[i].held = End /\ Ask(i - 1) /\ KeepStreams /\ NoError /\ UNCHANGED dropped
  <2>1. Talks(i)  BY <1>2, <1>5, AskTalks
  <2>2. UNCHANGED st /\ UNCHANGED <<dropped, kind, output, phase>>  BY <1>2, <1>5 DEF KeepStreams, KeepRest
  <2> QED  BY <1>1, <1>2, <1>5, <2>1, <2>2, StillMoves
<1> QED  BY <1>2, <1>3, <1>4, <1>5 DEF AskRow

LEMMA EncodeRowFlows ==
    ASSUME Well, NEW i \in Main, EncodeRow(i)
    PROVE  OnTop(i) /\ Moves(i)
<1>1. /\ Told(i, i - 1) /\ kind[i] = "encode_csv" /\ kind[i] \in StageKinds /\ kind[i] \notin Barriers
      /\ KeepRest
  BY DEF EncodeRow, StageKinds, Barriers, Step
<1>2. /\ i \in Ids /\ OnTop(i) /\ answer.item \in Item \cup {End} /\ i # 1 /\ answer.from # 0
      /\ HoldsAsOne(kind[i], st[i]) /\ Keeps(kind[i], st[i], dropped) /\ ~st[i].closed
      /\ st \in [Ids -> Stream] /\ st[i] \in Stream /\ kind[i] # "none"
  BY <1>1, ToldWell
<1>3. st[i].held = End
  <2>1. SUFFICES ASSUME st[i].held # End PROVE FALSE  OBVIOUS
  <2>2. \A m \in 1..Len(calls) : calls[m] = i => ~Pending(calls, answer.from, m)
    BY <1>1, <2>1, WellFacts DEF ReadToTheEnd
  <2>3. calls \in Seq(Ids) /\ calls # <<>> /\ calls[Len(calls)] = i
    BY <1>2, WellFacts, TopFacts
  <2>4. Len(calls) \in 1..Len(calls)  BY <2>3, FrontFacts
  <2> QED  BY <1>2, <2>2, <2>3, <2>4 DEF Pending
<1>4. st[i].buffer = <<>> /\ st[i].jobs = <<>> /\ Void(st[i], dropped)
  BY <1>1, <1>2, <1>3 DEF Keeps, HoldsAsOne, Void
<1>5. CASE answer.item = End
  <2>1. Finish(i)  BY <1>5 DEF EncodeRow
  <2>2. st[i - 1].closed  BY <1>1, <1>2, <1>5, EndClosed
  <2> QED  BY <1>1, <1>2, <1>4, <1>5, <2>1, <2>2, FinishMoves
<1>6. CASE answer.item # End
  <2> DEFINE held == IF st[i].held = End /\ ~st[i].started THEN answer.item ELSE End
             item == IF st[i].started THEN answer.item ELSE Header
  <2>1. /\ Give(i, item)
        /\ st' = [st EXCEPT ![i].started = TRUE,
                            ![i].held = IF @ = End /\ ~st[i].started THEN answer.item ELSE End]
        /\ NoError /\ UNCHANGED <<files, procs, watchVars, dropped>>
    BY <1>6, WellFacts DEF EncodeRow, FailOpen, FailClosed
  <2>2. item \in Item  BY <1>2, <1>6, IdFacts DEF Item, Header
  <2>3. /\ \A j \in Ids : j # i => st'[j] = st[j]
        /\ st'[i] = [st[i] EXCEPT !.started = TRUE, !.held = held]
    BY <1>2, <2>1
  <2>4. /\ st'[i].closed = st[i].closed /\ st'[i].inner = st[i].inner /\ st'[i].buffer = st[i].buffer
        /\ st'[i].held = held
    BY <1>2, <2>3 DEF Stream
  <2>5. Keeps(kind[i], st'[i], dropped')  BY <1>1, <1>2, <2>4, <1>4 DEF Keeps
  <2>6. Talks(i) /\ answer'.item = item /\ calls' = Front(calls)
    <3> HIDE DEF item
    <3> QED  BY <2>1, <2>2, GiveTalks
  <2>7. Passes(i)
    <3>1. \A v \in Has(st[i]) : v \in dropped \/ v = End  BY <1>2, <1>4, VoidHas
    <3>2. st'[i].held \in Has(st'[i])  BY DEF Has
    <3>3. CASE st[i].started  BY <2>1, <2>6, <3>1, <3>3 DEF Passes
    <3>4. CASE ~st[i].started
      <4>1. st'[i].held = answer.item  BY <1>3, <2>4, <3>4
      <4> QED  BY <2>1, <3>1, <3>2, <4>1 DEF Passes
    <3> QED  BY <3>3, <3>4
  <2>8. dropped \subseteq dropped'  BY <2>1
  <2> HIDE DEF item, held
  <2> QED  BY <1>1, <1>2, <2>1, <2>3, <2>4, <2>5, <2>6, <2>7, <2>8, StageGoesOn
<1> QED  BY <1>2, <1>5, <1>6

-----------------------------------------------------------------------------
(* sort_by and group_by.                                                     *)

(* The items of a sequence are its first one and the rest.                   *)
LEMMA PartsOf ==
    ASSUME NEW s \in Seq(Item), s # <<>>
    PROVE  Range(s) \subseteq {Head(s)} \cup Range(Tail(s))
<1>1. Len(s) \in Nat /\ Len(s) >= 1 /\ Tail(s) \in Seq(Item) /\ Len(Tail(s)) = Len(s) - 1
      /\ Head(s) = s[1] /\ \A m \in 1..Len(s) - 1 : Tail(s)[m] = s[m + 1]
  OBVIOUS
<1>2. ASSUME NEW m \in 1..Len(s), m # 1 PROVE s[m] \in Range(Tail(s))
  <2>1. m - 1 \in 1..Len(s) - 1 /\ m - 1 + 1 = m  BY <1>1, <1>2
  <2>2. Tail(s)[m - 1] = s[m]  BY <1>1, <2>1
  <2>3. m - 1 \in DOMAIN Tail(s)  BY <1>1, <2>1
  <2> QED  BY <2>2, <2>3 DEF Range
<1>3. DOMAIN s = 1..Len(s)  OBVIOUS
<1> QED  BY <1>1, <1>2, <1>3 DEF Range

LEMMA AppendedOf ==
    ASSUME NEW s \in Seq(Item), NEW v
    PROVE  Range(s) \cup {v} \subseteq Range(Append(s, v))
<1>1. /\ Len(s) \in Nat /\ DOMAIN s = 1..Len(s) /\ DOMAIN Append(s, v) = 1..(Len(s) + 1)
      /\ Append(s, v)[Len(s) + 1] = v
      /\ \A m \in 1..Len(s) : Append(s, v)[m] = s[m] /\ m \in 1..(Len(s) + 1)
  OBVIOUS
<1>2. Len(s) + 1 \in 1..(Len(s) + 1)  BY <1>1
<1> QED  BY <1>1, <1>2 DEF Range

(* The stage on top is not below itself.                                     *)
LEMMA OnceCalled ==
    ASSUME Well, NEW i \in Main, OnTop(i), NEW m \in 1..Len(calls), calls[m] = i, m < Len(calls)
    PROVE  FALSE
<1>1. calls \in Seq(Ids) /\ calls # <<>> /\ calls[Len(calls)] = i /\ CallsFit(kind, st, calls, answer.from)
  BY WellFacts, TopFacts
<1>2. Len(calls) \in 1..Len(calls)  BY <1>1, FrontFacts
<1>3. i < i \/ (i \notin Main /\ i <= Inner(i))  BY <1>1, <1>2 DEF CallsFit, Descends
<1> QED  BY <1>3, IdFacts

(* A barrier that is asked has read all of its source, or nothing yet.       *)
LEMMA BarrierHasRead ==
    ASSUME Well, NEW i \in Main, OnTop(i), kind[i] \in Barriers, st[i].started, answer.from = 0
    PROVE  st[i - 1].closed
<1>1. SUFFICES ASSUME ~st[i - 1].closed PROVE FALSE  OBVIOUS
<1>2. PICK m \in 1..Len(calls) : calls[m] = i /\ Pending(calls, answer.from, m)
  BY <1>1, WellFacts DEF ReadToTheEnd
<1> QED  BY <1>2, OnceCalled DEF Pending

(* A close of a closed stream does nothing.                                  *)
LEMMA ClosedIsClosed ==
    ASSUME Well, NEW j \in Ids, st[j].closed
    PROVE  Closing(j) = {} /\ Shut({}) = st
<1> DEFINE down == IF j \in Main THEN {m \in 1..j : \A k \in m..j : ~st[k].closed}
                   ELSE {m \in {j} : ~st[m].closed}
<1>1. down = {}
  <2>1. CASE j \in Main
    <3>1. \A m \in 1..j : j \in m..j  BY <2>1, IdFacts
    <3> QED  BY <2>1, <3>1
  <2>2. CASE j \notin Main  BY <2>2
  <2> QED  BY <2>1, <2>2
<1>2. Closing(j) = down \cup {Inner(m) : m \in {k \in down : st[k].inner # 0 /\ ~st[Inner(k)].closed}}
  BY DEF Closing
<1>3. Shut({}) = st  BY WellFacts DEF Shut
<1> HIDE DEF down
<1> QED  BY <1>1, <1>2, <1>3

LEMMA NextSortedFlows ==
    ASSUME Well, NEW i \in Main, NextSorted(i)
    PROVE  OnTop(i) /\ Moves(i)
<1>1. Entered(i) /\ kind[i] \in Barriers /\ kind[i] \in StageKinds
      /\ kind[i] \notin {"parallel", "encode_csv", "parse_csv", "none"}
  BY DEF NextSorted, StageKinds, Barriers
<1>2. /\ i \in Ids /\ OnTop(i) /\ KeepRest /\ answer.item = End /\ answer = NoAnswer
      /\ i # 1 /\ i - 1 \in Main /\ i - 1 \in Ids
      /\ HoldsAsOne(kind[i], st[i]) /\ Keeps(kind[i], st[i], dropped) /\ ~st[i].closed
      /\ st \in [Ids -> Stream] /\ st[i] \in Stream /\ kind[i] # "none"
  BY <1>1, EnterWell
<1>3. st[i].held = End /\ st[i].jobs = <<>>  BY <1>1, <1>2 DEF Keeps, HoldsAsOne
<1>4. CASE /\ st' = [st EXCEPT ![i].started = TRUE]
           /\ Ask(i - 1)
           /\ UNCHANGED <<files, procs, watchVars, dropped>> /\ NoError
  <2>1. /\ \A j \in Ids : j # i => st'[j] = st[j]
        /\ st'[i] = [st[i] EXCEPT !.started = TRUE]
    BY <1>2, <1>4
  <2>2. /\ st'[i].closed = st[i].closed /\ st'[i].inner = st[i].inner /\ st'[i].buffer = st[i].buffer
        /\ st'[i].held = st[i].held /\ st'[i].jobs = st[i].jobs
    BY <1>2, <2>1 DEF Stream
  <2>3. Keeps(kind[i], st'[i], dropped')  BY <1>1, <1>2, <1>3, <2>2 DEF Keeps
  <2>4. Talks(i)  BY <1>2, <1>4, AskTalks
  <2>5. Passes(i)
    <3>1. Has(st'[i]) = Has(st[i])  BY <2>2 DEF Has
    <3> QED  BY <1>2, <3>1 DEF Passes
  <2>6. dropped \subseteq dropped' /\ calls' = Append(calls, i - 1)  BY <1>4 DEF Ask
  <2> QED  BY <1>1, <1>2, <1>4, <2>1, <2>2, <2>3, <2>4, <2>5, <2>6, StageGoesOn
<1>5. CASE st[i].started /\ st[i].buffer = <<>> /\ Finish(i)
  <2>1. st[i - 1].closed  BY <1>1, <1>2, <1>5, BarrierHasRead DEF NoAnswer
  <2>2. Void(st[i], dropped)  BY <1>3, <1>5 DEF Void
  <2> QED  BY <1>2, <1>5, <2>1, <2>2, FinishMoves
<1>6. CASE /\ st[i].started /\ st[i].buffer # <<>>
           /\ Give(i, Head(st[i].buffer))
           /\ st' = [st EXCEPT ![i].buffer = Tail(@)]
           /\ UNCHANGED <<files, procs, watchVars, dropped>> /\ NoError
  <2>1. st[i - 1].closed  BY <1>1, <1>2, <1>6, BarrierHasRead DEF NoAnswer
  <2>2. st[i].buffer \in Seq(Item)  BY <1>2 DEF Stream
  <2>3. Head(st[i].buffer) \in Item  BY <1>6, <2>2
  <2>4. /\ \A j \in Ids : j # i => st'[j] = st[j]
        /\ st'[i] = [st[i] EXCEPT !.buffer = Tail(st[i].buffer)]
    BY <1>2, <1>6
  <2>5. /\ st'[i].closed = st[i].closed /\ st'[i].inner = st[i].inner /\ st'[i].buffer = Tail(st[i].buffer)
        /\ st'[i].held = st[i].held /\ st'[i].jobs = st[i].jobs
    BY <1>2, <2>4 DEF Stream
  <2>6. Keeps(kind[i], st'[i], dropped')  BY <1>1, <1>2, <1>3, <2>5 DEF Keeps
  <2>7. Talks(i) /\ answer'.item = Head(st[i].buffer)  BY <1>6, <2>3, GiveTalks
  <2>8. Passes(i)
    <3>1. Range(st[i].buffer) \subseteq {Head(st[i].buffer)} \cup Range(Tail(st[i].buffer))
      BY <1>6, <2>2, PartsOf
    <3>2. \A v \in Has(st[i]) : v \in Has(st'[i]) \/ v = Head(st[i].buffer)
      BY <2>5, <3>1 DEF Has
    <3> QED  BY <1>2, <2>7, <3>2 DEF Passes
  <2>9. dropped \subseteq dropped'  BY <1>6
  <2> QED  BY <1>1, <1>2, <1>6, <2>1, <2>4, <2>5, <2>6, <2>7, <2>8, <2>9, StageGoesOn
<1> QED  BY <1>2, <1>4, <1>5, <1>6 DEF NextSorted

LEMMA LoadFlows ==
    ASSUME Well, NEW i \in Main, Load(i)
    PROVE  OnTop(i) /\ Moves(i)
<1>1. /\ Told(i, i - 1) /\ answer.item # End /\ kind[i] \in Barriers /\ kind[i] \in StageKinds /\ KeepRest
      /\ kind[i] \notin {"parallel", "encode_csv", "parse_csv", "none"}
      /\ st' = [st EXCEPT ![i].buffer = Append(@, answer.item)]
      /\ Ask(i - 1) /\ UNCHANGED dropped /\ NoError
  BY WellFacts DEF Load, StageKinds, Barriers, Step
<1>2. /\ i \in Ids /\ OnTop(i) /\ answer.item \in Item \cup {End} /\ i # 1
      /\ i - 1 \in Main /\ i - 1 \in Ids
      /\ Keeps(kind[i], st[i], dropped) /\ ~st[i].closed
      /\ st \in [Ids -> Stream] /\ st[i] \in Stream
  BY <1>1, ToldWell
<1>3. /\ \A j \in Ids : j # i => st'[j] = st[j]
      /\ st'[i] = [st[i] EXCEPT !.buffer = Append(st[i].buffer, answer.item)]
  BY <1>1, <1>2
<1>4. /\ st'[i].closed = st[i].closed /\ st'[i].inner = st[i].inner
      /\ st'[i].buffer = Append(st[i].buffer, answer.item)
      /\ st'[i].held = st[i].held /\ st'[i].jobs = st[i].jobs
  BY <1>2, <1>3 DEF Stream
<1>5. Keeps(kind[i], st'[i], dropped')  BY <1>1, <1>2, <1>4 DEF Keeps
<1>6. Talks(i)  BY <1>1, <1>2, AskTalks
<1>7. Passes(i)
  <2>1. st[i].buffer \in Seq(Item)  BY <1>2 DEF Stream
  <2>2. Range(st[i].buffer) \cup {answer.item} \subseteq Range(st'[i].buffer)
    BY <1>4, <2>1, AppendedOf
  <2>3. \A v \in Has(st[i]) \cup {answer.item} : v \in Has(st'[i])  BY <1>4, <2>2 DEF Has
  <2> QED  BY <2>3 DEF Passes
<1>8. dropped \subseteq dropped' /\ calls' = Append(calls, i - 1)  BY <1>1 DEF Ask
<1> QED  BY <1>1, <1>2, <1>3, <1>4, <1>5, <1>6, <1>7, <1>8, StageGoesOn

LEMMA LoadedFlows ==
    ASSUME Well, NEW i \in Main, Loaded(i)
    PROVE  OnTop(i) /\ Moves(i)
<1> DEFINE items == st[i].buffer
           ordered == CASE items = <<>> -> {<<>>}
                        [] kind[i] = "sort" -> {Reverse(items)}
                        [] OTHER -> {items, <<Head(items)>>}
<1>1. /\ Told(i, i - 1) /\ answer.item = End /\ kind[i] \in Barriers /\ kind[i] \in StageKinds /\ KeepRest
      /\ kind[i] \notin {"parallel", "encode_csv", "parse_csv", "none"} /\ NoError
  BY DEF Loaded, StageKinds, Barriers, Step
<1>2. /\ i \in Ids /\ OnTop(i) /\ i # 1 /\ i - 1 \in Ids
      /\ Keeps(kind[i], st[i], dropped) /\ ~st[i].closed /\ HoldsAsOne(kind[i], st[i])
      /\ st \in [Ids -> Stream] /\ st[i] \in Stream
  BY <1>1, ToldWell
<1>3. st[i - 1].closed  BY <1>1, <1>2, EndClosed
<1>4. Shut(Closing(i - 1)) = st  BY <1>2, <1>3, ClosedIsClosed
<1>5. PICK o \in ordered :
          /\ dropped' = dropped \cup (Range(items) \ Range(o))
          /\ IF o = <<>>
               THEN /\ st' = [st EXCEPT ![i].closed = TRUE, ![i].buffer = o]
                    /\ Give(i, End)
               ELSE /\ st' = [st EXCEPT ![i].buffer = Tail(o)]
                    /\ Give(i, Head(o))
  BY <1>4, WellFacts DEF Loaded
<1>6. items \in Seq(Item)  BY <1>2 DEF Stream
<1>7. o \in Seq(Item)
  <2>1. CASE items = <<>>
    <3>1. <<>> \in Seq(Item) /\ Reverse(items) \in Seq(Item)  BY <1>6, ReverseType
    <3>2. ordered = {<<>>} \/ ordered = {Reverse(items)}  BY <2>1
    <3> QED  BY <3>1, <3>2
  <2>2. CASE items # <<>> /\ kind[i] = "sort"
    <3>1. Reverse(items) \in Seq(Item)  BY <1>6, ReverseType
    <3> QED  BY <2>2, <3>1
  <2>3. CASE items # <<>> /\ kind[i] # "sort"
    <3>1. Head(items) \in Item  BY <1>6, <2>3
    <3>2. <<Head(items)>> \in Seq(Item)  BY <3>1
    <3> QED  BY <1>6, <2>3, <3>2
  <2> QED  BY <2>1, <2>2, <2>3
<1> HIDE DEF ordered
<1>8. dropped \subseteq dropped'  BY <1>5
<1>9. Has(st[i]) = {End} \cup Range(items)  BY <1>1, <1>2 DEF Has, HoldsAsOne, Keeps
<1>10. CASE o = <<>>
  <2>1. /\ \A j \in Ids : j # i => st'[j] = st[j]
        /\ st'[i] = [st[i] EXCEPT !.closed = TRUE, !.buffer = o]
        /\ Give(i, End)
    BY <1>2, <1>5, <1>10
  <2>2. /\ st'[i].closed /\ st'[i].inner = st[i].inner /\ st'[i].buffer = <<>> /\ st'[i].held = st[i].held
    BY <1>2, <1>10, <2>1 DEF Stream
  <2>3. Keeps(kind[i], st'[i], dropped')  BY <1>1, <1>2, <2>2 DEF Keeps
  <2>4. Talks(i)  BY <2>1, <2>2 DEF Talks
  <2>5. Passes(i)
    <3>1. Range(o) = {}  BY <1>10 DEF Range
    <3>2. \A v \in Has(st[i]) : v \in dropped' \/ v = End  BY <1>5, <1>9, <3>1
    <3> QED  BY <1>1, <3>2 DEF Passes
  <2>6. Yields(i)  BY <1>2 DEF Yields
  <2>7. Knows(i)
    <3>1. kind[i] # "flat_map" => st'[i].inner = 0  BY <2>2, WellFacts DEF InnerIsCalled
    <3> QED  BY <1>1, <1>3, <3>1 DEF Knows
  <2>8. UNCHANGED <<kind, output, phase>>  BY <1>1 DEF KeepRest
  <2> QED  BY <1>1, <1>2, <1>8, <2>1, <2>2, <2>3, <2>4, <2>5, <2>6, <2>7, <2>8, OwnMoves
<1>11. CASE o # <<>>
  <2>1. /\ \A j \in Ids : j # i => st'[j] = st[j]
        /\ st'[i] = [st[i] EXCEPT !.buffer = Tail(o)]
        /\ Give(i, Head(o))
    BY <1>2, <1>5, <1>11
  <2>2. /\ st'[i].closed = st[i].closed /\ st'[i].inner = st[i].inner /\ st'[i].buffer = Tail(o)
        /\ st'[i].held = st[i].held
    BY <1>2, <2>1 DEF Stream
  <2>3. Keeps(kind[i], st'[i], dropped')  BY <1>1, <1>2, <2>2 DEF Keeps
  <2>4. Head(o) \in Item  BY <1>7, <1>11
  <2>5. Talks(i) /\ answer'.item = Head(o)  BY <2>1, <2>4, GiveTalks
  <2>6. Passes(i)
    <3>1. Range(o) \subseteq {Head(o)} \cup Range(Tail(o))  BY <1>7, <1>11, PartsOf
    <3>2. Range(Tail(o)) \subseteq Has(st'[i])  BY <2>2 DEF Has
    <3>3. \A v \in Has(st[i]) : v \in dropped' \/ v = End \/ v \in Range(o)  BY <1>5, <1>9
    <3> QED  BY <1>1, <2>5, <3>1, <3>2, <3>3 DEF Passes
  <2> QED  BY <1>1, <1>2, <1>3, <1>8, <2>1, <2>2, <2>3, <2>5, <2>6, StageGoesOn
<1> QED  BY <1>2, <1>10, <1>11

LEMMA RowAndBarrierFlow ==
    ASSUME Well, NEW i \in Main, RowStep(i) \/ BarrierStep(i)
    PROVE  OnTop(i) /\ Moves(i)
BY AskRowFlows, EncodeRowFlows, NextSortedFlows, LoadFlows, LoadedFlows DEF RowStep, BarrierStep

-----------------------------------------------------------------------------
(* flat_map and on_error.                                                    *)

(* The new inner stream of flat_map has the item it was made for.            *)
LEMMA AttachedFlows ==
    ASSUME Well, NEW i \in Main, Told(i, i - 1), kind[i] = "flat_map", answer.item # End,
           Attach(i, answer.item), Ask(Inner(i)), NoError, UNCHANGED <<phase, output>>
    PROVE  Flows'
<1> DEFINE x == answer.item
           n == Inner(i)
<1>1. /\ i \in Ids /\ OnTop(i) /\ x \in Item /\ i # 1 /\ i - 1 \in Main /\ st[i] \in Stream
      /\ st[i].inner = 0 /\ st \in [Ids -> Stream]
  BY ToldWell DEF StageKinds
<1>2. /\ n \in Ids /\ n \notin Main /\ n - Stages = i /\ n # i /\ kind \in [Ids -> AnyKind]
      /\ i \in Main
  BY IdFacts, WellFacts
<1>3. PICK q \in {"list", "lines"}, left \in 0..1 :
        /\ kind' = [kind EXCEPT ![n] = q]
        /\ st' = [st EXCEPT ![i].inner = n, ![n] = Fresh(left, x)]
        /\ dropped' = IF left = 0 THEN dropped \cup {x} ELSE dropped
  BY DEF Attach
<1>4. /\ \A j \in Ids : j # n => kind'[j] = kind[j]
      /\ kind'[n] = q /\ st'[n] = Fresh(left, x)
      /\ st'[i] = [st[i] EXCEPT !.inner = n]
      /\ \A j \in Ids : j \notin {i, n} => st'[j] = st[j]
  BY <1>1, <1>2, <1>3
<1>5. /\ st'[i].left = st[i].left /\ st'[i].closed = st[i].closed /\ st'[i].buffer = st[i].buffer
      /\ st'[i].jobs = st[i].jobs /\ st'[i].held = st[i].held /\ st'[i].busy = st[i].busy
      /\ st'[i].started = st[i].started /\ st'[i].done = st[i].done /\ st'[i].tag = st[i].tag
  BY <1>1, <1>4 DEF Stream
<1>6. /\ st'[n].left = left /\ ~st'[n].closed /\ st'[n].tag = x /\ st'[n].buffer = <<>>
      /\ st'[n].held = End /\ st'[n].busy = "no"
  BY <1>4 DEF Fresh
<1>7. /\ calls \in Seq(Ids) /\ calls # <<>> /\ calls[Len(calls)] = i /\ phase = "pulling"
  BY <1>1, WellFacts, TopFacts
<1>8. /\ calls' = Append(calls, n) /\ answer' = NoAnswer /\ answer'.from = 0
      /\ Len(calls) \in Nat /\ Len(calls) >= 1
      /\ Len(calls') = Len(calls) + 1 /\ calls'[Len(calls) + 1] = n
      /\ \A m \in 1..Len(calls) : calls'[m] = calls[m] /\ m < Len(calls')
  BY <1>2, <1>7, AppendFacts, FrontFacts DEF Ask, NoAnswer
<1>9. \A j \in Main : j \in Ids /\ j # n /\ kind'[j] = kind[j]  BY <1>2, <1>4, IdFacts
<1>10. \A j \in Main : ~Unasked(j)
  <2>1. ASSUME NEW j \in Main, Unasked(j) PROVE FALSE
    BY <1>2, <1>7, <2>1, WellFacts, IdFacts DEF InnerIsCalled
  <2> QED  BY <2>1
<1>11. dropped \subseteq dropped'  BY <1>3
<1> HIDE DEF x, n
<1>12. AllPresent'
  <2>1. st'[1].left = st[1].left  BY <1>1, <1>2, <1>4, SourceIsId
  <2>2. ASSUME NEW v \in 1..(Items - st[1].left) PROVE Present(v)'
    <3>1. Present(v)  BY DEF Well, Flows, AllPresent
    <3>2. v # End
      <4>1. v >= 1  OBVIOUS
      <4> QED  BY <4>1 DEF End
    <3>3. CASE v \in Range(output) \/ v \in dropped  BY <1>11, <3>3 DEF Present
    <3>4. CASE v = x
      <4>1. CASE left = 0  BY <1>3, <3>4, <4>1 DEF Present
      <4>2. CASE left # 0
        <5>1. left > 0 /\ q # "none"  BY <1>3, <4>2
        <5>2. Unasked(i)'  BY <1>4, <1>6, <5>1 DEF Unasked, n
        <5> QED  BY <1>2, <1>6, <3>4, <5>2 DEF Present, n
      <4> QED  BY <4>1, <4>2
    <3>5. ASSUME NEW j \in Ids, v \in Has(st[j]) PROVE Present(v)'
      <4>1. CASE j = n
        <5>1. kind[n] \notin HoldingKinds  BY <1>2, InnerKind DEF HoldingKinds
        <5>2. v \in dropped  BY <1>2, <3>2, <3>5, <4>1, <5>1, MostAreVoid, VoidHas
        <5> QED  BY <1>11, <5>2 DEF Present
      <4>2. CASE j # n
        <5>1. Has(st'[j]) = Has(st[j])
          <6>1. CASE j = i  BY <1>5, <6>1 DEF Has
          <6>2. CASE j # i  BY <1>4, <4>2, <6>2
          <6> QED  BY <6>1, <6>2
        <5> QED  BY <3>5, <5>1 DEF Present
      <4> QED  BY <4>1, <4>2
    <3> QED  BY <1>10, <3>1, <3>3, <3>4, <3>5 DEF Present, x
  <2> QED  BY <2>1, <2>2 DEF AllPresent
<1>13. KeepsByKind'
  <2>1. ASSUME NEW j \in Ids PROVE Keeps(kind'[j], st'[j], dropped')
    <3>1. Keeps(kind[j], st[j], dropped)  BY WellFacts DEF KeepsByKind
    <3>2. CASE j = n
      <4>1. kind'[j] \in {"list", "lines"}  BY <1>4, <3>2
      <4> QED  BY <1>6, <3>2, <4>1 DEF Keeps, Barriers
    <3>3. CASE j # n
      <4>1. /\ kind'[j] = kind[j] /\ st'[j].buffer = st[j].buffer /\ st'[j].held = st[j].held
            /\ st'[j].busy = st[j].busy /\ st'[j].closed = st[j].closed
        BY <1>4, <1>5, <3>3
      <4> QED  BY <1>11, <3>1, <4>1 DEF Keeps
    <3> QED  BY <3>2, <3>3
  <2> QED  BY <2>1 DEF KeepsByKind
<1>14. ReadToTheEnd'
  <2>1. ASSUME NEW j \in Main
        PROVE  /\ st'[j].done = st[j].done /\ st'[j].started = st[j].started /\ st'[j].held = st[j].held
               /\ st'[j].closed = st[j].closed
    BY <1>4, <1>5, <1>9
  <2>2. ASSUME NEW j \in Main, kind[j] \in StageKinds PROVE j - 1 \in Main
    BY <1>9, <2>2, WellFacts, StageFacts
  <2>3. ASSUME NEW j \in Main, kind'[j] = "parallel", st'[j].done PROVE st'[j - 1].closed
    <3>1. j - 1 \in Main  BY <1>9, <2>2, <2>3 DEF StageKinds
    <3> QED  BY <1>9, <2>1, <2>3, <3>1, WellFacts DEF ReadToTheEnd
  <2>4. ASSUME NEW j \in Main, kind'[j] \in Barriers, st'[j].started, ~st'[j - 1].closed
        PROVE  \E m \in 1..Len(calls') : calls'[m] = j /\ Pending(calls', answer'.from, m)
    <3>1. j - 1 \in Main  BY <1>9, <2>2, <2>4 DEF StageKinds, Barriers
    <3>2. PICK m \in 1..Len(calls) : calls[m] = j
      BY <1>9, <2>1, <2>4, <3>1, WellFacts DEF ReadToTheEnd
    <3>3. m \in 1..Len(calls') /\ m < Len(calls') /\ calls'[m] = j  BY <1>8, <3>2
    <3> QED  BY <3>3 DEF Pending
  <2>5. ASSUME NEW j \in Main, kind'[j] = "encode_csv", st'[j].held # End,
               NEW m \in 1..Len(calls'), calls'[m] = j
        PROVE  ~Pending(calls', answer'.from, m)
    <3>1. m # Len(calls) + 1  BY <1>8, <1>9, <2>5
    <3>2. m \in 1..Len(calls) /\ calls[m] = j  BY <1>8, <2>5, <3>1
    <3>3. j # i  BY <1>9, <2>5
    <3>4. m # Len(calls)  BY <1>7, <3>2, <3>3
    <3>5. m < Len(calls)  BY <1>8, <3>2, <3>4
    <3>6. ~Pending(calls, answer.from, m)
      BY <1>9, <2>1, <2>5, <3>2, WellFacts DEF ReadToTheEnd
    <3> QED  BY <3>5, <3>6 DEF Pending
  <2> QED  BY <2>3, <2>4, <2>5 DEF ReadToTheEnd
<1>15. EndIsClosed'  BY <1>8 DEF EndIsClosed
<1>16. InnerIsCalled'
  <2>1. ASSUME NEW j \in Main, kind'[j] # "flat_map" PROVE st'[j].inner = 0
    <3>1. j # i /\ st'[j] = st[j]  BY <1>4, <1>9, <2>1
    <3> QED  BY <1>9, <2>1, <3>1, WellFacts DEF InnerIsCalled
  <2>2. ASSUME NEW m \in 1..Len(calls'), calls'[m] \notin Main
        PROVE  m > 1 /\ calls'[m - 1] = calls'[m] - Stages
    <3>1. CASE m = Len(calls) + 1
      <4>1. m > 1 /\ m - 1 = Len(calls) /\ Len(calls) \in 1..Len(calls)  BY <1>8, <3>1
      <4>2. calls'[m - 1] = i /\ calls'[m] = n  BY <1>7, <1>8, <3>1, <4>1
      <4> QED  BY <1>2, <4>1, <4>2
    <3>2. CASE m # Len(calls) + 1
      <4>1. m \in 1..Len(calls) /\ calls'[m] = calls[m]  BY <1>8, <2>2, <3>2
      <4>2. m > 1 /\ calls[m - 1] = calls[m] - Stages
        BY <2>2, <4>1, WellFacts DEF InnerIsCalled
      <4>3. m - 1 \in 1..Len(calls)  BY <1>8, <4>1, <4>2
      <4> QED  BY <1>8, <4>1, <4>2, <4>3
    <3> QED  BY <3>1, <3>2
  <2>3. ASSUME NEW j \in Main, Unasked(j)'
        PROVE  /\ calls' # <<>> /\ calls'[Len(calls')] = Inner(j) /\ answer' = NoAnswer
               /\ st'[Inner(j)].left = 1 /\ ~st'[Inner(j)].closed
    <3>1. Inner(j) \in Ids /\ Inner(j) \notin Main  BY IdFacts
    <3>2. CASE Inner(j) = n
      <4>1. left > 0  BY <1>6, <2>3, <3>2 DEF Unasked
      <4>2. left = 1  BY <4>1
      <4> QED  BY <1>6, <1>7, <1>8, <3>2, <4>2
    <3>3. CASE Inner(j) # n
      <4>1. st'[Inner(j)] = st[Inner(j)] /\ kind'[Inner(j)] = kind[Inner(j)]
        BY <1>4, <3>1, <3>3
      <4> QED  BY <1>10, <2>3, <4>1 DEF Unasked
    <3> QED  BY <3>2, <3>3
  <2> QED  BY <1>8, <2>1, <2>2, <2>3 DEF InnerIsCalled
<1>17. LastIsAsked'
  <2>1. LastStage' = LastStage  BY <1>9, SameLast
  <2>2. calls[1] = LastStage  BY <1>7 DEF Well, Flows, LastIsAsked
  <2>3. calls'[1] = calls[1] /\ calls' # <<>>  BY <1>7, <1>8
  <2> QED  BY <1>7, <2>1, <2>2, <2>3 DEF LastIsAsked
<1>18. ~failed'  BY WellFacts DEF NoError
<1> QED  BY <1>12, <1>13, <1>14, <1>15, <1>16, <1>17, <1>18 DEF Flows

LEMMA AskInnerFlows ==
    ASSUME Well, NEW i \in Main, AskInner(i)
    PROVE  OnTop(i) /\ Moves(i)
<1>1. Entered(i) /\ kind[i] \in {"flat_map", "on_error"} /\ kind[i] \in StageKinds
  BY DEF AskInner, StageKinds
<1>2. /\ i \in Ids /\ OnTop(i) /\ KeepRest /\ answer.item = End /\ i - 1 \in Main /\ i - 1 \in Ids
  BY <1>1, EnterWell
<1>3. KeepStreams /\ NoError /\ UNCHANGED dropped /\ Ask(IF st[i].inner # 0 THEN Inner(i) ELSE i - 1)
  BY DEF AskInner
<1>4. Talks(i)
  <2>1. Inner(i) \in Ids  BY IdFacts
  <2>2. CASE st[i].inner # 0  BY <1>3, <2>1, <2>2, AskTalks
  <2>3. CASE st[i].inner = 0  BY <1>2, <1>3, <2>3, AskTalks
  <2> QED  BY <2>2, <2>3
<1>5. UNCHANGED st /\ UNCHANGED <<dropped, kind, output, phase>>  BY <1>2, <1>3 DEF KeepStreams, KeepRest
<1> QED  BY <1>1, <1>2, <1>3, <1>4, <1>5, StillMoves DEF Barriers

LEMMA FlatMapOuterFlows ==
    ASSUME Well, NEW i \in Main, FlatMapOuter(i)
    PROVE  (OnTop(i) /\ Moves(i)) \/ Flows'
<1>1. Told(i, i - 1) /\ kind[i] = "flat_map" /\ kind[i] \in StageKinds /\ kind[i] \notin HoldingKinds
  BY DEF FlatMapOuter, StageKinds, HoldingKinds
<1>2. i \in Ids /\ OnTop(i)  BY <1>1, ToldWell
<1>3. CASE answer.item = End
  <2>1. Finish(i) /\ KeepRest  BY <1>3 DEF FlatMapOuter, Step
  <2>2. st[i - 1].closed /\ i # 1  BY <1>1, <1>2, <1>3, EndClosed
  <2>3. Void(st[i], dropped)  BY <1>1, <1>2, MostAreVoid
  <2> QED  BY <1>2, <1>3, <2>1, <2>2, <2>3, FinishMoves
<1>4. CASE answer.item # End
  <2>1. Attach(i, answer.item) /\ Ask(Inner(i)) /\ NoError /\ UNCHANGED <<phase, output>>
    BY <1>4, WellFacts DEF FlatMapOuter, FailClosed
  <2> QED  BY <1>1, <1>4, <2>1, AttachedFlows
<1> QED  BY <1>3, <1>4

LEMMA FlatMapInnerFlows ==
    ASSUME Well, NEW i \in Main, FlatMapInner(i)
    PROVE  OnTop(i) /\ Moves(i)
<1>1. /\ Told(i, Inner(i)) /\ kind[i] = "flat_map" /\ kind[i] \in StageKinds /\ kind[i] \notin HoldingKinds
      /\ KeepRest /\ kind[i] # "none" /\ kind[i] \notin Barriers /\ NoError /\ UNCHANGED dropped
      /\ kind[i] \notin {"parallel", "encode_csv"}
  BY DEF FlatMapInner, StageKinds, HoldingKinds, Step, Barriers
<1>2. OnTop(i) /\ i \in Ids /\ answer.item \in Item \cup {End} /\ st[i] \in Stream /\ ~st[i].closed
  BY <1>1, InnerFacts DEF Well
<1>3. i # 1 /\ i - 1 \in Main /\ i - 1 \in Ids  BY <1>1, <1>2, WellFacts, StageFacts
<1>4. CASE answer.item # End
  <2>1. Give(i, answer.item) /\ KeepStreams /\ answer.item \in Item  BY <1>2, <1>4 DEF FlatMapInner
  <2>2. Talks(i) /\ answer'.item = answer.item  BY <2>1, GiveTalks
  <2>3. UNCHANGED st /\ UNCHANGED <<dropped, kind, output, phase>>  BY <1>1, <2>1 DEF KeepStreams, KeepRest
  <2> QED  BY <1>1, <1>2, <2>2, <2>3, StillMoves
<1>5. CASE answer.item = End
  <2>1. st[Inner(i)].closed
    <3>1. answer.from = Inner(i) /\ Inner(i) # 0  BY <1>1, IdFacts DEF Told
    <3> QED  BY <1>5, <3>1, WellFacts DEF EndIsClosed
  <2>2. Shut(Closing(Inner(i))) = st  BY <2>1, IdFacts, ClosedIsClosed
  <2>3. st' = [st EXCEPT ![i].inner = 0] /\ Ask(i - 1)  BY <1>5, <2>2 DEF FlatMapInner
  <2>4. /\ \A j \in Ids : j # i => st'[j] = st[j]
        /\ st'[i] = [st[i] EXCEPT !.inner = 0]
    BY <1>2, <2>3, WellFacts
  <2>5. /\ st'[i].closed = st[i].closed /\ st'[i].inner = 0 /\ st'[i].buffer = st[i].buffer
        /\ st'[i].held = st[i].held /\ st'[i].jobs = st[i].jobs /\ st'[i].busy = st[i].busy
    BY <1>2, <2>4 DEF Stream
  <2>6. Keeps(kind[i], st'[i], dropped')
    <3>1. Keeps(kind[i], st[i], dropped)  BY <1>2, WellFacts DEF KeepsByKind
    <3> QED  BY <1>1, <2>5, <3>1 DEF Keeps
  <2>7. Talks(i)  BY <1>3, <2>3, AskTalks
  <2>8. Passes(i)
    <3>1. Has(st'[i]) = Has(st[i])  BY <2>5 DEF Has
    <3> QED  BY <1>5, <3>1 DEF Passes
  <2>9. Yields(i)  BY <1>3 DEF Yields
  <2>10. Knows(i)  BY <1>1, <2>5 DEF Knows
  <2>11. UNCHANGED <<kind, output, phase>> /\ dropped \subseteq dropped'  BY <1>1 DEF KeepRest
  <2> QED  BY <1>1, <1>2, <2>4, <2>5, <2>6, <2>7, <2>8, <2>9, <2>10, <2>11, OwnMoves
<1> QED  BY <1>4, <1>5

LEMMA OnErrorSourceFlows ==
    ASSUME Well, NEW i \in Main, OnErrorSource(i)
    PROVE  OnTop(i) /\ Moves(i)
<1>1. Told(i, i - 1) /\ kind[i] = "on_error" /\ kind[i] \in StageKinds /\ kind[i] \notin HoldingKinds
      /\ kind[i] \notin Barriers /\ kind[i] # "encode_csv"
  BY DEF OnErrorSource, StageKinds, HoldingKinds, Barriers
<1>2. i \in Ids /\ OnTop(i) /\ answer.item \in Item \cup {End}  BY <1>1, ToldWell
<1>3. CASE /\ answer.item # End /\ Give(i, answer.item)
           /\ KeepStreams /\ NoError /\ UNCHANGED dropped /\ Step(i)
  <2>1. Talks(i) /\ answer'.item = answer.item  BY <1>2, <1>3, GiveTalks
  <2>2. UNCHANGED st /\ UNCHANGED <<dropped, kind, output, phase>>
    BY <1>3 DEF KeepStreams, KeepRest, Step
  <2> QED  BY <1>1, <1>2, <1>3, <2>1, <2>2, StillMoves
<1>4. CASE answer.item = End /\ Finish(i) /\ Step(i)
  <2>1. st[i - 1].closed /\ i # 1  BY <1>1, <1>2, <1>4, EndClosed
  <2>2. Void(st[i], dropped)  BY <1>1, <1>2, MostAreVoid
  <2> QED  BY <1>2, <1>4, <2>1, <2>2, FinishMoves DEF Step
<1> QED  BY <1>2, <1>3, <1>4, WellFacts DEF OnErrorSource

LEMMA InnerStepFlows ==
    ASSUME Well, NEW i \in Main, InnerStep(i)
    PROVE  (OnTop(i) /\ Moves(i)) \/ Flows'
<1>1. ~OnErrorInner(i)
  <2>1. SUFFICES ASSUME OnErrorInner(i) PROVE FALSE  OBVIOUS
  <2>2. Told(i, Inner(i)) /\ kind[i] = "on_error"  BY <2>1 DEF OnErrorInner
  <2>3. answer.from = Inner(i) /\ Inner(i) \notin Main \cup {0} /\ Inner(i) - Stages = i
    BY <2>2, IdFacts DEF Told
  <2>4. st[i].inner # 0  BY <2>3, WellFacts DEF InnerIsCalled
  <2> QED  BY <2>2, <2>4, WellFacts DEF InnerIsCalled
<1> QED
  BY <1>1, AskInnerFlows, FlatMapOuterFlows, FlatMapInnerFlows, OnErrorSourceFlows DEF InnerStep

-----------------------------------------------------------------------------
(* parallel.                                                                 *)

(* The items its children work on.                                           *)
JobItems(s) == {s[n].item : n \in DOMAIN s}

(* A launch adds an item, a collected result takes the oldest away.          *)
LEMMA JobsAppended ==
    ASSUME NEW s \in Seq(Job), NEW v \in Item
    PROVE  LET t == Append(s, [item |-> v, state |-> "running"]) IN
           JobItems(s) \cup {v} \subseteq JobItems(t)
<1> DEFINE e == [item |-> v, state |-> "running"]
           t == Append(s, e)
<1>1. e \in Job /\ e.item = v  BY DEF Job
<1> HIDE DEF e
<1>2. /\ Len(s) \in Nat /\ DOMAIN s = 1..Len(s) /\ DOMAIN t = 1..(Len(s) + 1)
      /\ t[Len(s) + 1] = e
      /\ \A m \in 1..Len(s) : t[m] = s[m] /\ m \in 1..(Len(s) + 1)
  BY <1>1
<1>3. Len(s) + 1 \in 1..(Len(s) + 1)  BY <1>2
<1>4. v \in JobItems(t)  BY <1>1, <1>2, <1>3 DEF JobItems
<1>5. ASSUME NEW m \in DOMAIN s PROVE s[m].item \in JobItems(t)
  BY <1>2, <1>5 DEF JobItems
<1> QED  BY <1>4, <1>5 DEF JobItems, e

LEMMA JobsTaken ==
    ASSUME NEW s \in Seq(Job), s # <<>>
    PROVE  JobItems(s) \subseteq {s[1].item} \cup JobItems(Tail(s))
<1>1. Len(s) \in Nat /\ Len(s) >= 1 /\ Tail(s) \in Seq(Job) /\ Len(Tail(s)) = Len(s) - 1
      /\ DOMAIN s = 1..Len(s) /\ \A m \in 1..Len(s) - 1 : Tail(s)[m] = s[m + 1]
  OBVIOUS
<1>2. ASSUME NEW m \in 1..Len(s), m # 1 PROVE s[m].item \in JobItems(Tail(s))
  <2>1. m - 1 \in 1..Len(s) - 1 /\ m - 1 + 1 = m  BY <1>1, <1>2
  <2>2. Tail(s)[m - 1] = s[m]  BY <1>1, <2>1
  <2>3. m - 1 \in DOMAIN Tail(s)  BY <1>1, <2>1
  <2> QED  BY <2>2, <2>3 DEF JobItems
<1> QED  BY <1>1, <1>2 DEF JobItems

(* A step of parallel that goes well.                                        *)
LEMMA ParallelGoesOn ==
    ASSUME Well, NEW i \in Main, i # 1, kind[i] = "parallel", ~st[i].closed,
           NEW y \in Stream, st' = [st EXCEPT ![i] = y], KeepRest, NoError, UNCHANGED dropped,
           ~y.closed, y.inner = st[i].inner, y.buffer = st[i].buffer,
           IF y.busy = "refill" THEN y.held \in Item ELSE y.held = End,
           y.done => st[i].done \/ st[i - 1].closed,
           Talks(i), \A v \in Has(st[i]) \cup {answer.item} :
                         v \in Has(y) \/ v = answer'.item \/ v = End
    PROVE  Moves(i)
<1>1. i \in Ids /\ st \in [Ids -> Stream]  BY IdFacts, WellFacts
<1>2. st'[i] = y /\ \A j \in Ids : j # i => st'[j] = st[j]  BY <1>1
<1>3. Keeps(kind[i], st[i], dropped)  BY <1>1, WellFacts DEF KeepsByKind
<1>4. Keeps(kind[i], st'[i], dropped')  BY <1>2, <1>3 DEF Keeps, Barriers
<1>5. Passes(i)  BY <1>2 DEF Passes
<1>6. dropped \subseteq dropped' /\ st'[i].closed = st[i].closed
  <2>1. y.closed \in BOOLEAN /\ st[i].closed \in BOOLEAN  BY <1>1 DEF Stream
  <2> QED  BY <1>2, <2>1
<1>7. kind[i] \notin Barriers /\ kind[i] # "encode_csv" /\ kind[i] # "none"  BY DEF Barriers
<1> QED  BY <1>2, <1>4, <1>5, <1>6, <1>7, StageGoesOn

LEMMA NextParallelFlows ==
    ASSUME Well, NEW i \in Main, NextParallel(i)
    PROVE  OnTop(i) /\ Moves(i)
<1>1. /\ Entered(i) /\ kind[i] = "parallel" /\ kind[i] \in StageKinds /\ NoError /\ UNCHANGED dropped
  BY DEF NextParallel, StageKinds
<1>2. /\ i \in Ids /\ OnTop(i) /\ KeepRest /\ answer.item = End /\ answer = NoAnswer
      /\ i # 1 /\ i - 1 \in Main /\ i - 1 \in Ids
      /\ HoldsAsOne(kind[i], st[i]) /\ Keeps(kind[i], st[i], dropped) /\ ~st[i].closed
      /\ st \in [Ids -> Stream] /\ st[i] \in Stream /\ st[i].busy = "no"
  BY <1>1, EnterWell
<1>3. st[i].held = End /\ st[i].buffer = <<>>  BY <1>1, <1>2 DEF Keeps, Barriers
<1>4. ASSUME NEW b \in {"fill", "wait"}, st' = [st EXCEPT ![i].busy = b], Talks(i)
      PROVE  Moves(i)
  <2> DEFINE y == [st[i] EXCEPT !.busy = b]
  <2>1. /\ y \in Stream /\ y.busy = b /\ y.closed = st[i].closed /\ y.inner = st[i].inner
        /\ y.buffer = st[i].buffer /\ y.held = st[i].held /\ y.done = st[i].done /\ y.jobs = st[i].jobs
    BY <1>2 DEF Stream
  <2>2. st' = [st EXCEPT ![i] = y]  BY <1>4
  <2>3. Has(y) = Has(st[i])  BY <2>1 DEF Has
  <2>4. ~y.closed /\ (IF y.busy = "refill" THEN y.held \in Item ELSE y.held = End)
    BY <1>2, <1>3, <1>4, <2>1
  <2>5. \A v \in Has(st[i]) \cup {answer.item} : v \in Has(y) \/ v = answer'.item \/ v = End
    BY <1>2, <2>3
  <2> HIDE DEF y
  <2> QED  BY <1>1, <1>2, <1>4, <2>1, <2>2, <2>4, <2>5, ParallelGoesOn
<1>5. CASE st' = [st EXCEPT ![i].busy = "fill"] /\ Ask(i - 1)
  <2>1. Talks(i)  BY <1>2, <1>5, AskTalks
  <2> QED  BY <1>2, <1>4, <1>5, <2>1
<1>6. CASE ~Room(i) /\ Jobs(i) = <<>> /\ Close(Closing(i)) /\ Give(i, End)
  <2>1. Finish(i)  BY <1>1, <1>6 DEF Finish
  <2>2. Void(st[i], dropped)  BY <1>3, <1>6 DEF Void, Jobs
  <2>3. st[i].done
    <3>1. Len(Jobs(i)) = 0 /\ Width >= 1  BY <1>6, IdFacts
    <3> QED  BY <1>6, <3>1, IdFacts DEF Room
  <2>4. st[i - 1].closed  BY <1>1, <2>3, WellFacts DEF ReadToTheEnd
  <2> QED  BY <1>2, <2>1, <2>2, <2>4, FinishMoves
<1>7. CASE st' = [st EXCEPT ![i].busy = "wait"] /\ UNCHANGED <<calls, answer>>
  <2>1. Talks(i)  BY <1>2, <1>7 DEF Talks
  <2> QED  BY <1>2, <1>4, <1>7, <2>1
<1> QED  BY <1>2, <1>5, <1>6, <1>7 DEF NextParallel

LEMMA LaunchFlows ==
    ASSUME Well, NEW i \in Main, Launch(i)
    PROVE  OnTop(i) /\ Moves(i)
<1>1. /\ Told(i, i - 1) /\ answer.item # End /\ st[i].busy \in {"fill", "refill"} /\ KeepRest
      /\ NoError /\ UNCHANGED dropped
  BY DEF Launch, Step
<1>2. kind[i] = "parallel" /\ kind[i] \in StageKinds
  BY <1>1, FillerIsParallel DEF Told, Well
<1>3. /\ i \in Ids /\ OnTop(i) /\ answer.item \in Item \cup {End} /\ i # 1 /\ i - 1 \in Main
      /\ i - 1 \in Ids /\ Keeps(kind[i], st[i], dropped) /\ ~st[i].closed
      /\ st \in [Ids -> Stream] /\ st[i] \in Stream
  BY <1>1, <1>2, ToldWell
<1> DEFINE jobs == Append(st[i].jobs, [item |-> answer.item, state |-> "running"])
           more == [st[i] EXCEPT !.jobs = jobs]
<1>4. /\ jobs \in Seq(Job) /\ JobItems(st[i].jobs) \cup {answer.item} \subseteq JobItems(jobs)
      /\ st[i].buffer = <<>>
      /\ st[i].busy = "refill" => st[i].held \in Item
      /\ st[i].busy # "refill" => st[i].held = End
  <2>1. answer.item \in Item /\ st[i].jobs \in Seq(Job)  BY <1>1, <1>3 DEF Stream
  <2>2. [item |-> answer.item, state |-> "running"] \in Job  BY <2>1 DEF Job
  <2>3. JobItems(st[i].jobs) \cup {answer.item} \subseteq JobItems(jobs)  BY <2>1, JobsAppended
  <2>4. jobs \in Seq(Job)  BY <2>1, <2>2
  <2> QED  BY <1>2, <1>3, <2>3, <2>4 DEF Keeps, Barriers
<1> HIDE DEF jobs
<1>5. Launched(i) = [st EXCEPT ![i] = more]
  BY <1>3 DEF Launched, Stream, jobs
<1>6. ASSUME NEW y \in Stream, st' = [st EXCEPT ![i] = y], Talks(i), y.jobs = jobs,
             y.closed = st[i].closed, y.inner = st[i].inner, y.buffer = st[i].buffer,
             y.done = st[i].done, y.held = st[i].held \/ answer'.item = st[i].held,
             IF y.busy = "refill" THEN y.held \in Item ELSE y.held = End
      PROVE  Moves(i)
  <2>1. Has(y) = {y.held} \cup Range(y.buffer) \cup JobItems(jobs)  BY <1>6 DEF Has, JobItems
  <2>2. Has(st[i]) = {st[i].held} \cup Range(st[i].buffer) \cup JobItems(st[i].jobs)
    BY DEF Has, JobItems
  <2>3. \A v \in Has(st[i]) \cup {answer.item} : v \in Has(y) \/ v = answer'.item \/ v = End
    BY <1>4, <1>6, <2>1, <2>2
  <2> QED  BY <1>1, <1>2, <1>3, <1>6, <2>3, ParallelGoesOn
<1>7. CASE st' = Launched(i) /\ Ask(i - 1)
  <2>1. /\ more \in Stream /\ more.jobs = jobs /\ more.busy = st[i].busy /\ more.closed = st[i].closed
        /\ more.inner = st[i].inner /\ more.buffer = st[i].buffer /\ more.done = st[i].done
        /\ more.held = st[i].held
    BY <1>3, <1>4 DEF Stream
  <2>2. Talks(i)  BY <1>3, <1>7, AskTalks
  <2> HIDE DEF more
  <2> QED  BY <1>3, <1>4, <1>5, <1>6, <1>7, <2>1, <2>2
<1>8. CASE st[i].busy = "fill" /\ st' = [Launched(i) EXCEPT ![i].busy = "wait"]
           /\ answer' = NoAnswer /\ UNCHANGED calls
  <2> DEFINE y == [more EXCEPT !.busy = "wait"]
  <2>1. /\ y \in Stream /\ y.jobs = jobs /\ y.busy = "wait" /\ y.closed = st[i].closed
        /\ y.inner = st[i].inner /\ y.buffer = st[i].buffer /\ y.done = st[i].done
        /\ y.held = st[i].held
    BY <1>3, <1>4 DEF Stream
  <2>2. st' = [st EXCEPT ![i] = y]
    <3> HIDE DEF more
    <3> QED  BY <1>3, <1>5, <1>8
  <2>3. Talks(i)  BY <1>8 DEF Talks
  <2> HIDE DEF y
  <2> QED  BY <1>3, <1>4, <1>6, <1>8, <2>1, <2>2, <2>3
<1>9. CASE /\ st[i].busy # "fill"
           /\ st' = [Launched(i) EXCEPT ![i].busy = "no", ![i].held = End] /\ Give(i, st[i].held)
  <2> DEFINE y == [more EXCEPT !.busy = "no", !.held = End]
  <2>1. /\ y \in Stream /\ y.jobs = jobs /\ y.busy = "no" /\ y.closed = st[i].closed
        /\ y.inner = st[i].inner /\ y.buffer = st[i].buffer /\ y.done = st[i].done
        /\ y.held = End
    BY <1>3, <1>4 DEF Stream
  <2>2. st' = [st EXCEPT ![i] = y]
    <3> HIDE DEF more
    <3> QED  BY <1>3, <1>5, <1>9
  <2>3. Talks(i) /\ answer'.item = st[i].held
    <3>1. st[i].held \in Item  BY <1>1, <1>4, <1>9
    <3> QED  BY <1>9, <3>1, GiveTalks
  <2> HIDE DEF y
  <2> QED  BY <1>3, <1>4, <1>6, <1>9, <2>1, <2>2, <2>3
<1> QED  BY <1>3, <1>7, <1>8, <1>9 DEF Launch

LEMMA ParallelSourceEndedFlows ==
    ASSUME Well, NEW i \in Main, ParallelSourceEnded(i)
    PROVE  OnTop(i) /\ Moves(i)
<1>1. /\ Told(i, i - 1) /\ answer.item = End /\ kind[i] = "parallel" /\ kind[i] \in StageKinds
      /\ KeepRest /\ ~failed
  BY WellFacts DEF ParallelSourceEnded, Step, StageKinds
<1>2. /\ i \in Ids /\ OnTop(i) /\ i # 1 /\ i - 1 \in Main
      /\ i - 1 \in Ids /\ Keeps(kind[i], st[i], dropped) /\ ~st[i].closed
      /\ st \in [Ids -> Stream] /\ st[i] \in Stream
  BY <1>1, ToldWell
<1>3. st[i - 1].closed  BY <1>1, <1>2, EndClosed
<1>4. /\ NoError /\ UNCHANGED dropped /\ st[i].buffer = <<>>
      /\ st[i].busy = "refill" => st[i].held \in Item
      /\ st[i].busy # "refill" => st[i].held = End
  BY <1>1, <1>2 DEF ParallelSourceEnded, Keeps, Barriers
<1>5. ASSUME NEW y \in Stream, st' = [st EXCEPT ![i] = y], Talks(i), y.jobs = st[i].jobs,
             y.closed = st[i].closed, y.inner = st[i].inner, y.buffer = st[i].buffer,
             y.held = st[i].held \/ answer'.item = st[i].held,
             y.busy # "refill", y.held = End
      PROVE  Moves(i)
  <2>1. \A v \in Has(st[i]) : v \in Has(y) \/ v = answer'.item  BY <1>5 DEF Has
  <2> QED  BY <1>1, <1>2, <1>3, <1>4, <1>5, <2>1, ParallelGoesOn
<1>6. CASE /\ st[i].busy = "refill"
           /\ st' = [st EXCEPT ![i].done = TRUE, ![i].busy = "no", ![i].held = End]
           /\ Give(i, st[i].held)
  <2> DEFINE y == [st[i] EXCEPT !.done = TRUE, !.busy = "no", !.held = End]
  <2>1. /\ y \in Stream /\ y.jobs = st[i].jobs /\ y.busy = "no" /\ y.closed = st[i].closed
        /\ y.inner = st[i].inner /\ y.buffer = st[i].buffer /\ y.held = End
    BY <1>2 DEF Stream
  <2>2. st' = [st EXCEPT ![i] = y]  BY <1>2, <1>6
  <2>3. Talks(i) /\ answer'.item = st[i].held  BY <1>4, <1>6, GiveTalks
  <2> HIDE DEF y
  <2> QED  BY <1>2, <1>4, <1>5, <1>6, <2>1, <2>2, <2>3
<1>7. CASE st[i].busy # "refill" /\ Jobs(i) = <<>> /\ Close(Closing(i)) /\ Give(i, End)
  <2>1. Finish(i)  BY <1>4, <1>7 DEF Finish
  <2>2. Void(st[i], dropped)  BY <1>4, <1>7 DEF Void, Jobs
  <2> QED  BY <1>1, <1>2, <1>3, <2>1, <2>2, FinishMoves
<1>8. CASE /\ st[i].busy # "refill"
           /\ st' = [st EXCEPT ![i].done = TRUE, ![i].busy = "wait"]
           /\ answer' = NoAnswer /\ UNCHANGED calls
  <2> DEFINE y == [st[i] EXCEPT !.done = TRUE, !.busy = "wait"]
  <2>1. /\ y \in Stream /\ y.jobs = st[i].jobs /\ y.busy = "wait" /\ y.closed = st[i].closed
        /\ y.inner = st[i].inner /\ y.buffer = st[i].buffer /\ y.held = st[i].held
    BY <1>2 DEF Stream
  <2>2. st' = [st EXCEPT ![i] = y]  BY <1>2, <1>8
  <2>3. Talks(i)  BY <1>8 DEF Talks
  <2> HIDE DEF y
  <2> QED  BY <1>2, <1>4, <1>5, <1>8, <2>1, <2>2, <2>3
<1> QED  BY <1>1, <1>2, <1>6, <1>7, <1>8 DEF ParallelSourceEnded

LEMMA CollectFlows ==
    ASSUME Well, NEW i \in Main, Collect(i)
    PROVE  OnTop(i) /\ Moves(i)
<1>1. /\ Waiting(i) /\ KeepRest /\ NoError /\ UNCHANGED dropped
      /\ answer = NoAnswer /\ st[i].busy = "wait" /\ st[i].jobs # <<>>
  BY DEF Collect, Step, Waiting, Asked, Jobs
<1>2. /\ OnTop(i) /\ i \in Ids /\ kind[i] = "parallel"
      /\ ~st[i].closed /\ st[i] \in Stream /\ st \in [Ids -> Stream]
      /\ st[i].jobs \in Seq(Job) /\ Oldest(i).item \in Item /\ Tail(st[i].jobs) \in Seq(Job)
      /\ i - 1 \in Main /\ i - 1 \in Ids /\ i # 1
  <2>1. kind[i] = "parallel" /\ i - 1 \in Main  BY <1>1, WaitingFacts DEF Well
  <2>2. i # 1  BY <2>1, IdFacts DEF Main
  <2> QED  BY <1>1, <2>2, WaitingFacts DEF Well
<1> DEFINE jobs == Tail(st[i].jobs)
           fewer == [st[i] EXCEPT !.jobs = jobs]
           x == Oldest(i).item
<1>3. Collected(i) = [st EXCEPT ![i] = fewer]  BY <1>2 DEF Collected, Stream
<1>4. /\ JobItems(st[i].jobs) \subseteq {x} \cup JobItems(jobs) /\ x \in Item /\ jobs \in Seq(Job)
      /\ st[i].held = End /\ st[i].buffer = <<>>
  <2>1. JobItems(st[i].jobs) \subseteq {st[i].jobs[1].item} \cup JobItems(jobs)
    BY <1>1, <1>2, JobsTaken
  <2>2. Keeps(kind[i], st[i], dropped)  BY <1>2, WellFacts DEF KeepsByKind
  <2> QED  BY <1>1, <1>2, <2>1, <2>2 DEF Oldest, Jobs, Keeps, Barriers
<1> HIDE DEF jobs, x
<1>5. ASSUME NEW y \in Stream, st' = [st EXCEPT ![i] = y], Talks(i), y.jobs = jobs,
             y.closed = st[i].closed, y.inner = st[i].inner, y.buffer = st[i].buffer,
             y.done = st[i].done, y.held = x \/ answer'.item = x,
             IF y.busy = "refill" THEN y.held \in Item ELSE y.held = End
      PROVE  Moves(i)
  <2>1. Has(y) = {y.held} \cup Range(y.buffer) \cup JobItems(jobs)  BY <1>5 DEF Has, JobItems
  <2>2. Has(st[i]) = {End} \cup Range(st[i].buffer) \cup JobItems(st[i].jobs)
    BY <1>4 DEF Has, JobItems
  <2>3. \A v \in Has(st[i]) \cup {answer.item} : v \in Has(y) \/ v = answer'.item \/ v = End
    BY <1>1, <1>4, <1>5, <2>1, <2>2 DEF NoAnswer
  <2> QED  BY <1>1, <1>2, <1>5, <2>3, ParallelGoesOn
<1>6. CASE st' = [Collected(i) EXCEPT ![i].busy = "no"] /\ Give(i, x)
  <2> DEFINE y == [fewer EXCEPT !.busy = "no"]
  <2>1. /\ y \in Stream /\ y.jobs = jobs /\ y.busy = "no" /\ y.closed = st[i].closed
        /\ y.inner = st[i].inner /\ y.buffer = st[i].buffer /\ y.done = st[i].done
        /\ y.held = st[i].held
    BY <1>2, <1>4 DEF Stream
  <2>2. st' = [st EXCEPT ![i] = y]
    <3> HIDE DEF fewer
    <3> QED  BY <1>2, <1>3, <1>6
  <2>3. Talks(i) /\ answer'.item = x  BY <1>4, <1>6, GiveTalks
  <2> HIDE DEF y
  <2> QED  BY <1>2, <1>4, <1>5, <1>6, <2>1, <2>2, <2>3
<1>7. CASE /\ st' = [Collected(i) EXCEPT ![i].busy = "refill", ![i].held = x]
           /\ Ask(i - 1)
  <2> DEFINE y == [fewer EXCEPT !.busy = "refill", !.held = x]
  <2>1. /\ y \in Stream /\ y.jobs = jobs /\ y.busy = "refill" /\ y.closed = st[i].closed
        /\ y.inner = st[i].inner /\ y.buffer = st[i].buffer /\ y.done = st[i].done
        /\ y.held = x
    BY <1>2, <1>4 DEF Stream
  <2>2. st' = [st EXCEPT ![i] = y]
    <3> HIDE DEF fewer
    <3> QED  BY <1>2, <1>3, <1>7
  <2>3. Talks(i)  BY <1>2, <1>7, AskTalks
  <2> HIDE DEF y
  <2> QED  BY <1>2, <1>4, <1>5, <1>7, <2>1, <2>2, <2>3
<1> QED  BY <1>2, <1>6, <1>7 DEF Collect, x

LEMMA ParallelStepFlows ==
    ASSUME Well, NEW i \in Main, ParallelStep(i)
    PROVE  OnTop(i) /\ Moves(i)
<1>1. ~LaunchFails(i) /\ ~CollectFails(i)
  BY WellFacts DEF LaunchFails, CollectFails, FailClosed, FailOpen
<1> QED
  BY <1>1, NextParallelFlows, LaunchFlows, ParallelSourceEndedFlows, CollectFlows DEF ParallelStep

-----------------------------------------------------------------------------
(* What no step undoes.                                                      *)

(* A step of a stage: it is pulled, and no error is forgotten.               *)
Pulls ==
    /\ phase = "pulling" /\ phase' = phase /\ target' = target /\ (erred => erred')
    /\ \A j \in Main : kind'[j] = kind[j]

LEMMA ErrorIsKept ==
    ASSUME NoError \/ Error
    PROVE  erred => erred'
BY DEF NoError, Error

LEMMA RestPulls ==
    ASSUME KeepRest, phase = "pulling", erred => erred'
    PROVE  Pulls
BY DEF KeepRest, Pulls

LEMMA EndsPull ==
    ASSUME NEW i, Finish(i) \/ FailClosed(i) \/ FailOpen(i)
    PROVE  NoError \/ Error
BY DEF Finish, FailClosed, FailOpen

LEMMA SourcePulls ==
    ASSUME NEW i, Refuse(i) \/ SourceStep(i) \/ WatchBreaks(i)
    PROVE  Pulls
<1>1. CASE Refuse(i)
  BY <1>1, ErrorIsKept, RestPulls DEF Refuse, Asked, Step
<1>2. CASE NextInMemory(i)
  BY <1>2, ErrorIsKept, EndsPull, RestPulls DEF NextInMemory, Entered, Asked, Step
<1>3. CASE NextInDatabase(i)
  BY <1>3, ErrorIsKept, EndsPull, RestPulls DEF NextInDatabase, Entered, Asked, Step
<1>4. CASE TimerCancelled(i) \/ WatchBreaks(i)
  BY <1>4, ErrorIsKept, EndsPull, RestPulls DEF TimerCancelled, WatchBreaks, Asked, Step
<1>5. CASE NextInFile(i)
  BY <1>5, ErrorIsKept, EndsPull, RestPulls DEF NextInFile, Entered, Asked, Step
<1>6. CASE NextWatch(i)
  BY <1>6, ErrorIsKept, EndsPull, RestPulls DEF NextWatch, Asked, Step
<1> QED  BY <1>1, <1>2, <1>3, <1>4, <1>5, <1>6 DEF SourceStep

LEMMA AttachPulls ==
    ASSUME IInv, NEW i \in Main, NEW tag, Attach(i, tag)
    PROVE  \A j \in Main : kind'[j] = kind[j]
<1>1. PICK q : kind' = [kind EXCEPT ![Inner(i)] = q]  BY DEF Attach
<1>2. kind \in [Ids -> AnyKind]  BY DEF IInv, Holding, HoldType
<1>3. \A j \in Main : j \in Ids /\ j # Inner(i)  BY IdFacts
<1> QED  BY <1>1, <1>2, <1>3

LEMMA StagePulls ==
    ASSUME IInv, NEW i \in Main,
           ItemStep(i) \/ RowStep(i) \/ BarrierStep(i) \/ InnerStep(i) \/ ParallelStep(i)
    PROVE  Pulls
<1>1. CASE ItemStep(i)
  <2>1. /\ phase = "pulling" /\ KeepRest
        /\ Finish(i) \/ FailClosed(i) \/ FailOpen(i) \/ NoError
    BY <1>1 DEF ItemStep, AskSource, PassItem, DropItem, FailItem, SourceEnded, Told, Entered, Asked, Step
  <2> QED  BY <2>1, ErrorIsKept, EndsPull, RestPulls
<1>2. CASE RowStep(i)
  <2>1. /\ phase = "pulling" /\ KeepRest
        /\ Finish(i) \/ FailClosed(i) \/ FailOpen(i) \/ NoError
    BY <1>2 DEF RowStep, AskRow, EncodeRow, Told, Entered, Asked, Step
  <2> QED  BY <2>1, ErrorIsKept, EndsPull, RestPulls
<1>3. CASE BarrierStep(i)
  <2>1. CASE NextSorted(i) \/ Load(i)
    <3>1. /\ phase = "pulling" /\ KeepRest /\ (Finish(i) \/ NoError \/ Error)
      BY <2>1 DEF NextSorted, Load, Told, Entered, Asked, Step
    <3> QED  BY <3>1, ErrorIsKept, EndsPull, RestPulls
  <2>2. CASE Loaded(i)
    <3>1. phase = "pulling" /\ KeepRest /\ NoError  BY <2>2 DEF Loaded, Told, Step
    <3> QED  BY <3>1, ErrorIsKept, RestPulls
  <2> QED  BY <1>3, <2>1, <2>2 DEF BarrierStep
<1>4. CASE InnerStep(i)
  <2>1. CASE AskInner(i) \/ FlatMapInner(i) \/ OnErrorInner(i)
    <3>1. phase = "pulling" /\ KeepRest /\ (Finish(i) \/ NoError)
      BY <2>1 DEF AskInner, FlatMapInner, OnErrorInner, Told, Entered, Asked, Step
    <3> QED  BY <3>1, ErrorIsKept, EndsPull, RestPulls
  <2>2. CASE FlatMapOuter(i)
    <3>1. CASE Step(i) /\ (Finish(i) \/ FailClosed(i))
      <4>1. phase = "pulling" /\ KeepRest  BY <2>2, <3>1 DEF FlatMapOuter, Told, Step
      <4> QED  BY <3>1, <4>1, ErrorIsKept, EndsPull, RestPulls
    <3>2. CASE /\ Attach(i, answer.item) /\ NoError
               /\ UNCHANGED <<phase, target>>
      <4>1. phase = "pulling" /\ (erred => erred')  BY <2>2, <3>2 DEF FlatMapOuter, Told, NoError
      <4>2. \A j \in Main : kind'[j] = kind[j]  BY <3>2, AttachPulls
      <4> QED  BY <3>2, <4>1, <4>2 DEF Pulls
    <3> QED  BY <2>2, <3>1, <3>2 DEF FlatMapOuter
  <2>3. CASE OnErrorSource(i)
    <3>1. CASE Step(i) /\ (Finish(i) \/ FailClosed(i) \/ NoError)
      <4>1. phase = "pulling" /\ KeepRest  BY <2>3, <3>1 DEF OnErrorSource, Told, Step
      <4> QED  BY <3>1, <4>1, ErrorIsKept, EndsPull, RestPulls
    <3>2. CASE /\ Attach(i, Items + 1)
               /\ UNCHANGED <<phase, target, erred>>
      <4>1. phase = "pulling"  BY <2>3 DEF OnErrorSource, Told
      <4>2. \A j \in Main : kind'[j] = kind[j]  BY <3>2, AttachPulls
      <4> QED  BY <3>2, <4>1, <4>2 DEF Pulls
    <3> QED  BY <2>3, <3>1, <3>2 DEF OnErrorSource
  <2> QED  BY <1>4, <2>1, <2>2, <2>3 DEF InnerStep
<1>5. CASE ParallelStep(i)
  <2>1. /\ phase = "pulling" /\ KeepRest
        /\ Finish(i) \/ FailClosed(i) \/ FailOpen(i) \/ NoError
    BY <1>5 DEF ParallelStep, NextParallel, Launch, LaunchFails, ParallelSourceEnded, Collect,
                CollectFails, Waiting, Told, Entered, Asked, Step
  <2> QED  BY <2>1, ErrorIsKept, EndsPull, RestPulls
<1> QED  BY <1>1, <1>2, <1>3, <1>4, <1>5

(* A step of a stage that goes well.                                         *)
LEMMA StageFlow ==
    ASSUME IInv, IInv', Flow, Watched',
           \/ \E i \in Ids : Refuse(i) \/ SourceStep(i)
           \/ \E i \in Main : ItemStep(i) \/ RowStep(i) \/ BarrierStep(i) \/ InnerStep(i) \/ ParallelStep(i)
    PROVE  Flows'
<1>1. Pulls  BY SourcePulls, StagePulls
<1>2. CutShort' = CutShort  BY <1>1, SameLast DEF Pulls
<1>3. Flows /\ Well  BY <1>1, <1>2 DEF Flow, Watched, Pulls, Well
<1>4. ASSUME NEW i \in Ids, Refuse(i) \/ SourceStep(i) PROVE Flows'
  BY <1>3, <1>4, SourceStepFlows, MoveFlows
<1>5. ASSUME NEW i \in Main,
             ItemStep(i) \/ RowStep(i) \/ BarrierStep(i) \/ InnerStep(i) \/ ParallelStep(i)
      PROVE  Flows'
  <2>1. (OnTop(i) /\ Moves(i)) \/ Flows'
    BY <1>3, <1>5, ItemStepFlows, RowAndBarrierFlow, InnerStepFlows, ParallelStepFlows
  <2> QED  BY <1>3, <2>1, MoveFlows
<1> QED  BY <1>4, <1>5

-----------------------------------------------------------------------------
(* The other steps.                                                          *)

(* A stream that is as it was, but for the states of its children, or that   *)
(* has nothing and is closed.                                                *)
Stays(x, y, d) ==
    /\ y.left = x.left /\ y.tag = x.tag /\ y.inner = x.inner /\ y.buffer = x.buffer
    /\ y.held = x.held /\ y.started = x.started /\ y.done = x.done /\ y.busy = x.busy
    /\ Has(y) = Has(x)
    /\ x.closed => y.closed
    /\ y.closed /\ ~x.closed => x.buffer = <<>> /\ x.held \in {End} \cup d

LEMMA RestFlows ==
    ASSUME IInv, Flows, \A j \in Ids : Stays(st[j], st'[j], dropped),
           \/ calls = <<>>
           \/ \A j \in Ids : st'[j].closed = st[j].closed,
           UNCHANGED <<kind, calls, answer, output, dropped, failed>>, LastIsAsked'
    PROVE  Flows'
<1>1. /\ ~failed /\ AllPresent /\ KeepsByKind /\ ReadToTheEnd /\ EndIsClosed /\ InnerIsCalled
  BY DEF Flows
<1>2. \A j \in Main : j \in Ids /\ Inner(j) \in Ids  BY IdFacts
<1>3. Fit(kind, st) /\ answer.from \in Ids \cup {0}
  BY BookFacts DEF IInv, Talking, TalkType
<1>4. \A j \in Main : Unasked(j)' <=> Unasked(j)  BY <1>2 DEF Unasked, Stays
<1>5. AllPresent'
  <2>1. st'[1].left = st[1].left  BY SourceIsId DEF Stays
  <2>2. ASSUME NEW v, Present(v) PROVE Present(v)'
    <3>1. CASE \E j \in Ids : v \in Has(st[j])  BY <3>1 DEF Present, Stays
    <3>2. CASE \E j \in Main : Unasked(j) /\ v = st[Inner(j)].tag
      BY <1>2, <1>4, <3>2 DEF Present, Stays
    <3> QED  BY <2>2, <3>1, <3>2 DEF Present
  <2> QED  BY <1>1, <2>1, <2>2 DEF AllPresent
<1>6. KeepsByKind'
  <2>1. ASSUME NEW j \in Ids PROVE Keeps(kind[j], st'[j], dropped)
    <3>1. Keeps(kind[j], st[j], dropped) /\ Stays(st[j], st'[j], dropped)  BY <1>1 DEF KeepsByKind
    <3> QED  BY <3>1 DEF Keeps, Stays
  <2> QED  BY <2>1 DEF KeepsByKind
<1>7. ReadToTheEnd'
  <2>1. ASSUME NEW j \in Main, kind[j] \in StageKinds PROVE j - 1 \in Ids
    BY <1>2, <1>3, <2>1, StageFacts
  <2>2. ASSUME NEW j \in Main, kind[j] = "parallel", st'[j].done PROVE st'[j - 1].closed
    <3>1. j - 1 \in Ids /\ j \in Ids  BY <1>2, <2>1, <2>2 DEF StageKinds
    <3> QED  BY <1>1, <2>2, <3>1 DEF ReadToTheEnd, Stays
  <2>3. ASSUME NEW j \in Main, kind[j] \in Barriers, st'[j].started, ~st'[j - 1].closed
        PROVE  \E m \in 1..Len(calls) : calls[m] = j /\ Pending(calls, answer.from, m)
    <3>1. j - 1 \in Ids /\ j \in Ids  BY <1>2, <2>1, <2>3 DEF StageKinds, Barriers
    <3> QED  BY <1>1, <2>3, <3>1 DEF ReadToTheEnd, Stays
  <2>4. ASSUME NEW j \in Main, kind[j] = "encode_csv", st'[j].held # End,
               NEW m \in 1..Len(calls), calls[m] = j
        PROVE  ~Pending(calls, answer.from, m)
    BY <1>1, <1>2, <2>4 DEF ReadToTheEnd, Stays
  <2> QED  BY <2>2, <2>3, <2>4 DEF ReadToTheEnd
<1>8. EndIsClosed'  BY <1>1, <1>3 DEF EndIsClosed, Stays
<1>9. InnerIsCalled'
  <2>1. \A j \in Main : kind'[j] # "flat_map" => st'[j].inner = 0
    BY <1>1, <1>2 DEF InnerIsCalled, Stays
  <2>2. answer'.from \notin Main \cup {0} =>
          /\ calls' # <<>> /\ calls'[Len(calls')] = answer'.from - Stages
          /\ st'[answer'.from - Stages].inner # 0
    <3>1. SUFFICES ASSUME answer.from \notin Main \cup {0}
                   PROVE  /\ calls # <<>> /\ calls[Len(calls)] = answer.from - Stages
                          /\ st'[answer.from - Stages].inner # 0
      OBVIOUS
    <3>2. answer.from - Stages \in Ids  BY <1>2, <1>3, <3>1, IdFacts
    <3> QED  BY <1>1, <3>1, <3>2 DEF InnerIsCalled, Stays
  <2>3. ASSUME NEW j \in Main, Unasked(j)'
        PROVE  /\ calls' # <<>> /\ calls'[Len(calls')] = Inner(j) /\ answer' = NoAnswer
               /\ st'[Inner(j)].left = 1 /\ ~st'[Inner(j)].closed
    <3>1. Unasked(j) /\ Inner(j) \in Ids  BY <1>2, <1>4, <2>3
    <3>2. /\ calls # <<>> /\ calls[Len(calls)] = Inner(j) /\ answer = NoAnswer
          /\ st[Inner(j)].left = 1 /\ ~st[Inner(j)].closed
      BY <1>1, <3>1 DEF InnerIsCalled
    <3> QED  BY <3>1, <3>2 DEF Stays
  <2> QED  BY <1>1, <2>1, <2>2, <2>3 DEF InnerIsCalled
<1> QED  BY <1>1, <1>5, <1>6, <1>7, <1>8, <1>9 DEF Flows

LEMMA SameStays ==
    ASSUME NEW x, NEW d
    PROVE  Stays(x, x, d)
BY DEF Stays

(* Nothing of the pipeline changes.                                          *)
LEMMA IdleFlows ==
    ASSUME IInv, Flows, UNCHANGED <<kind, st, calls, answer, output, dropped, failed, phase>>
    PROVE  Flows'
<1>1. \A j \in Ids : Stays(st[j], st'[j], dropped) /\ st'[j].closed = st[j].closed  BY SameStays
<1>2. LastStage' = LastStage  BY SameLast
<1>3. LastIsAsked'  BY <1>2 DEF Flows, LastIsAsked
<1> QED  BY <1>1, <1>3, RestFlows

LEMMA BeginFlows ==
    ASSUME IInv, Flow, Begin, Watched'
    PROVE  Flows'
<1>1. /\ phase = "start" /\ phase' = "pulling" /\ ~erred
      /\ UNCHANGED <<kind, st, calls, answer, output, dropped, failed>>
  BY DEF Begin, Watched, Error, runtimeVars
<1>2. LastStage' = LastStage /\ CutShort' = CutShort  BY <1>1, SameLast
<1>3. Flows  BY <1>1, <1>2 DEF Flow, Watched
<1>4. \A j \in Ids : Stays(st[j], st'[j], dropped) /\ st'[j].closed = st[j].closed
  BY <1>1, SameStays
<1>5. LastIsAsked'  BY <1>1, <1>2, <1>3 DEF Flows, LastIsAsked
<1> QED  BY <1>1, <1>3, <1>4, <1>5, RestFlows

LEMMA ReadOnFlows ==
    ASSUME IInv, Flow, ReadOn, Watched'
    PROVE  Flows'
<1>1. /\ phase = "pulling" /\ phase' = phase /\ calls = <<>> /\ answer.item # End
      /\ output' = Append(output, answer.item) /\ calls' = <<LastStage>> /\ answer' = NoAnswer
      /\ UNCHANGED <<kind, st, dropped, failed, erred>>
  BY DEF ReadOn, Answered, runtimeVars
<1>2. LastStage' = LastStage /\ CutShort' = CutShort  BY <1>1, SameLast
<1>3. Flows  BY <1>1, <1>2 DEF Flow, Watched
<1>4. /\ ~failed /\ AllPresent /\ KeepsByKind /\ ReadToTheEnd /\ InnerIsCalled
  BY <1>3 DEF Flows
<1> DEFINE last == LastStage
<1>5. last \in Main  BY LastIsStage DEF IInv
<1>6. calls' = <<last>> /\ answer' = NoAnswer /\ answer'.from = 0  BY <1>1 DEF NoAnswer
<1> HIDE DEF last
<1>7. Len(<<last>>) = 1 /\ \A m \in 1..1 : m = 1 /\ <<last>>[m] = last  OBVIOUS
<1>8. \A j \in Main : ~Unasked(j) /\ ~Unasked(j)'
  <2>1. \A j \in Main : Unasked(j)' <=> Unasked(j)  BY <1>1 DEF Unasked
  <2> QED  BY <1>1, <1>4, <2>1 DEF InnerIsCalled
<1>9. AllPresent'
  <2>1. answer.item \in Item /\ output \in Seq(Item)
    BY <1>1 DEF IInv, Talking, TalkType, RestType
  <2>2. Range(output) \cup {answer.item} \subseteq Range(output')  BY <1>1, <2>1, AppendedOf
  <2>3. ASSUME NEW v, Present(v) PROVE Present(v)'
    BY <1>1, <1>8, <2>2, <2>3 DEF Present
  <2> QED  BY <1>1, <1>4, <2>3 DEF AllPresent
<1>10. KeepsByKind'  BY <1>1, <1>4 DEF KeepsByKind
<1>11. ReadToTheEnd'
  <2>1. \A m \in 1..Len(<<last>>) : ~Pending(<<last>>, 0, m)  BY <1>7 DEF Pending
  <2>2. \A m \in 1..Len(calls) : FALSE
    <3>1. Len(<<>>) = 0  OBVIOUS
    <3> QED  BY <1>1, <3>1
  <2>3. \A j \in Main : kind[j] \in Barriers /\ st[j].started => st[j - 1].closed
    BY <1>4, <2>2 DEF ReadToTheEnd
  <2> QED  BY <1>1, <1>4, <1>6, <2>1, <2>3 DEF ReadToTheEnd
<1>12. EndIsClosed'  BY <1>6 DEF EndIsClosed
<1>13. InnerIsCalled'
  <2>1. \A m \in 1..Len(calls') : calls'[m] \in Main  BY <1>5, <1>6, <1>7
  <2> QED  BY <1>1, <1>4, <1>6, <1>8, <2>1 DEF InnerIsCalled
<1>14. LastIsAsked'
  <2>1. calls'[1] = LastStage' /\ calls' # <<>>  BY <1>1, <1>2
  <2> QED  BY <1>1, <2>1 DEF LastIsAsked
<1> QED  BY <1>1, <1>4, <1>9, <1>10, <1>11, <1>12, <1>13, <1>14 DEF Flows

(* The last stage is at its end: there is nothing to close.                  *)
LEMMA StopFlows ==
    ASSUME IInv, IInv', Flow, Stop, Watched'
    PROVE  Flows'
<1>1. /\ phase = "pulling" /\ phase' = "ended" /\ calls = <<>> /\ answer.item = End
      /\ LeaveStream /\ NoError /\ output' = output
      /\ UNCHANGED <<kind, calls, answer, dropped>>
  BY DEF Stop, Answered, Watched, Error
<1>2. LastStage' = LastStage /\ CutShort' = CutShort  BY <1>1, SameLast
<1>3. Flows /\ Well  BY <1>1, <1>2 DEF Flow, Watched, Well, NoError
<1>4. LastStage \in Main /\ LastStage \in Ids  BY LastIsStage DEF IInv
<1>5. st[LastStage].closed
  <2>1. answer.from = LastStage  BY <1>1, <1>3 DEF Flows, LastIsAsked
  <2>2. answer.from # 0  BY <1>4, <2>1, IdFacts
  <2> QED  BY <1>1, <1>3, <2>1, <2>2 DEF Flows, EndIsClosed
<1>6. UNCHANGED st  BY <1>1, <1>3, <1>4, <1>5, ClosedIsClosed DEF LeaveStream
<1>7. \A j \in Ids : Stays(st[j], st'[j], dropped)  BY <1>6, SameStays
<1>8. LastIsAsked'  BY <1>1, <1>2, <1>5, <1>6 DEF LastIsAsked
<1>9. UNCHANGED failed  BY <1>1 DEF NoError
<1> QED  BY <1>1, <1>3, <1>7, <1>8, <1>9, RestFlows

(* A pipeline whose last stage is closed is closed.                          *)
LEMMA AllClosed ==
    ASSUME IInv, st[LastStage].closed, NEW j \in Main, kind[j] # "none"
    PROVE  st[j].closed
<1> DEFINE T == {m \in Main : kind[m] # "none"}
<1>1. T \subseteq 1..Stages /\ j \in T /\ Stages \in Nat  BY IdFacts DEF Main
<1>2. LastStage = Max(T)  BY DEF LastStage
<1> HIDE DEF T
<1>3. Max(T) \in T /\ Max(T) >= j  BY <1>1, Greatest
<1>4. LastStage \in Main /\ ClosedBelow(st)  BY LastIsStage, BookFacts DEF IInv, Fit
<1>5. j \in 1..LastStage  BY <1>1, <1>2, <1>3
<1> QED  BY <1>4, <1>5 DEF ClosedBelow

(* What the release still has to close has nothing.                          *)
LEMMA ReleaseFlows ==
    ASSUME IInv, IInv', Flow, Release, Watched'
    PROVE  Flows'
<1> DEFINE open == {i \in Ids : kind[i] # "none" /\ ~st[i].closed}
<1>1. /\ phase = "ended" /\ phase' = "released" /\ st' = Shut(open)
      /\ UNCHANGED <<failed, kind, calls, answer, output, dropped, erred>>
  BY DEF Release
<1>2. LastStage' = LastStage /\ CutShort' = CutShort  BY <1>1, SameLast
<1>3. Flows /\ Well  BY <1>1, <1>2 DEF Flow, Watched, Well
<1>4. LastStage \in Main /\ LastStage \in Ids  BY LastIsStage DEF IInv
<1>5. calls = <<>> /\ st[LastStage].closed  BY <1>1, <1>3 DEF Flows, LastIsAsked
<1>6. ASSUME NEW j \in open
      PROVE  Void(st[j], dropped) /\ j \in Ids
  <2>1. j \in Ids /\ j \notin Main  BY <1>5, AllClosed
  <2>2. kind[j] \notin HoldingKinds  BY <1>3, <2>1, InnerKind DEF HoldingKinds
  <2> QED  BY <1>3, <2>1, <2>2, MostAreVoid
<1> HIDE DEF open
<1>7. ASSUME NEW j \in Ids
      PROVE  Stays(st[j], st'[j], dropped) /\ (st[j].closed => st'[j].closed)
  <2>1. CASE j \in open
    <3>1. st'[j] = Emptied(st[j]) /\ st[j] \in Stream /\ Void(st[j], dropped)
      BY <1>1, <1>3, <1>6, <2>1, WellFacts DEF Shut
    <3>2. /\ st'[j].closed /\ st'[j].jobs = <<>>
          /\ st'[j].left = st[j].left /\ st'[j].tag = st[j].tag /\ st'[j].inner = st[j].inner
          /\ st'[j].buffer = st[j].buffer /\ st'[j].held = st[j].held
          /\ st'[j].started = st[j].started /\ st'[j].done = st[j].done /\ st'[j].busy = st[j].busy
      BY <3>1 DEF Emptied, Stream
    <3>3. Has(st'[j]) = Has(st[j])  BY <3>1, <3>2 DEF Has, Void
    <3> QED  BY <3>1, <3>2, <3>3 DEF Stays, Void
  <2>2. CASE j \notin open
    <3>1. st'[j] = st[j]  BY <1>1, <2>2 DEF Shut
    <3> QED  BY <3>1, SameStays
  <2> QED  BY <2>1, <2>2
<1>8. LastIsAsked'  BY <1>1, <1>2, <1>4, <1>5, <1>7 DEF LastIsAsked
<1> QED  BY <1>1, <1>3, <1>5, <1>7, <1>8, RestFlows

(* A child changes its state, not its item.                                  *)
LEMMA JobsFlow ==
    ASSUME IInv, Flow, NEW i \in Main, NEW jobs \in Seq(Job), Len(jobs) = Len(st[i].jobs),
           \A m \in 1..Len(jobs) : jobs[m].item = st[i].jobs[m].item, ChangeJobs(i, jobs), Watched'
    PROVE  Flows'
<1>1. /\ st' = [st EXCEPT ![i].jobs = jobs]
      /\ UNCHANGED <<failed, kind, calls, answer, phase, output, dropped, erred>>
  BY DEF ChangeJobs, runtimeVars
<1>2. LastStage' = LastStage /\ CutShort' = CutShort  BY <1>1, SameLast
<1>3. Flows  BY <1>1, <1>2 DEF Flow, Watched
<1>4. st \in [Ids -> Stream] /\ i \in Ids  BY IdFacts DEF IInv, Holding, HoldType
<1>5. st[i] \in Stream /\ st[i].jobs \in Seq(Job)  BY <1>4 DEF Stream
<1>6. st'[i] = [st[i] EXCEPT !.jobs = jobs] /\ \A j \in Ids : j # i => st'[j] = st[j]
  BY <1>1, <1>4
<1>7. /\ st'[i].left = st[i].left /\ st'[i].tag = st[i].tag /\ st'[i].inner = st[i].inner
      /\ st'[i].buffer = st[i].buffer /\ st'[i].held = st[i].held /\ st'[i].closed = st[i].closed
      /\ st'[i].started = st[i].started /\ st'[i].done = st[i].done /\ st'[i].busy = st[i].busy
      /\ st'[i].jobs = jobs
  BY <1>5, <1>6 DEF Stream
<1>8. Has(st'[i]) = Has(st[i])
  <2>1. DOMAIN jobs = 1..Len(jobs) /\ DOMAIN st[i].jobs = 1..Len(jobs)  BY <1>5
  <2>2. {jobs[n].item : n \in DOMAIN jobs} = {st[i].jobs[n].item : n \in DOMAIN st[i].jobs}
    BY <2>1
  <2> QED  BY <1>7, <2>2 DEF Has
<1>9. ASSUME NEW j \in Ids PROVE Stays(st[j], st'[j], dropped) /\ st'[j].closed = st[j].closed
  <2>1. CASE j = i  BY <1>7, <1>8, <2>1 DEF Stays
  <2>2. CASE j # i  BY <1>6, <2>2, SameStays
  <2> QED  BY <2>1, <2>2
<1>10. LastIsAsked'
  <2>1. st'[LastStage].closed = st[LastStage].closed  BY <1>9, LastIsStage DEF IInv
  <2> QED  BY <1>1, <1>2, <1>3, <2>1 DEF Flows, LastIsAsked
<1> QED  BY <1>1, <1>3, <1>9, <1>10, RestFlows

LEMMA WorkerFlows ==
    ASSUME IInv, Flow, NEW i \in Main, Worker(i), Watched'
    PROVE  Flows'
<1>1. st[i].jobs \in Seq(Job)  BY IdFacts DEF IInv, Holding, HoldType, Stream
<1>2. ASSUME NEW jobs \in [1..Len(Jobs(i)) -> Job], ChangeJobs(i, jobs),
             \A m \in 1..Len(Jobs(i)) : jobs[m].item = Jobs(i)[m].item
      PROVE  Flows'
  <2>1. Len(Jobs(i)) \in Nat  BY <1>1 DEF Jobs
  <2>2. jobs \in Seq(Job) /\ Len(jobs) = Len(st[i].jobs)  BY <2>1 DEF Jobs
  <2> QED  BY <1>2, <2>2, JobsFlow DEF Jobs
<1>3. \A m \in 1..Len(Jobs(i)) : Jobs(i)[m] \in Job  BY <1>1 DEF Jobs
<1>4. ASSUME NEW x \in Job, NEW state \in {"running", "ok", "error", "bad"}
      PROVE  [x EXCEPT !.state = state] \in Job /\ [x EXCEPT !.state = state].item = x.item
  BY DEF Job
<1>5. CASE WorkerEnds(i)
  <2>1. PICK k \in 1..Len(Jobs(i)), state \in {"ok", "error", "bad"} :
          ChangeJobs(i, [Jobs(i) EXCEPT ![k].state = state])
    BY <1>5 DEF WorkerEnds
  <2> DEFINE jobs == [m \in 1..Len(Jobs(i)) |->
                        IF m = k THEN [Jobs(i)[m] EXCEPT !.state = state] ELSE Jobs(i)[m]]
  <2>2. [Jobs(i) EXCEPT ![k].state = state] = jobs
    <3>1. DOMAIN Jobs(i) = 1..Len(Jobs(i))  BY <1>1 DEF Jobs
    <3>2. Jobs(i) = [m \in 1..Len(Jobs(i)) |-> Jobs(i)[m]]  BY <1>1 DEF Jobs
    <3> QED  BY <3>1, <3>2
  <2>3. \A m \in 1..Len(Jobs(i)) : jobs[m] \in Job /\ jobs[m].item = Jobs(i)[m].item
    BY <1>3, <1>4, <2>1
  <2>4. jobs \in [1..Len(Jobs(i)) -> Job]  BY <2>3
  <2>5. ChangeJobs(i, jobs)  BY <2>1, <2>2
  <2> HIDE DEF jobs
  <2> QED  BY <1>2, <2>3, <2>4, <2>5
<1>6. CASE WorkerOverMemory(i)
  <2>1. PICK k \in 1..Len(Jobs(i)) : \E hit \in SUBSET (1..k - 1) :
          ChangeJobs(i, [j \in 1..Len(Jobs(i)) |->
                          IF j = k THEN [Jobs(i)[j] EXCEPT !.state = "bad"]
                          ELSE IF j \in hit THEN [Jobs(i)[j] EXCEPT !.state = "error"]
                          ELSE Jobs(i)[j]])
    BY <1>6 DEF WorkerOverMemory
  <2>2. PICK hit \in SUBSET (1..k - 1) :
          ChangeJobs(i, [j \in 1..Len(Jobs(i)) |->
                          IF j = k THEN [Jobs(i)[j] EXCEPT !.state = "bad"]
                          ELSE IF j \in hit THEN [Jobs(i)[j] EXCEPT !.state = "error"]
                          ELSE Jobs(i)[j]])
    BY <2>1
  <2> DEFINE jobs == [j \in 1..Len(Jobs(i)) |->
                        IF j = k THEN [Jobs(i)[j] EXCEPT !.state = "bad"]
                        ELSE IF j \in hit THEN [Jobs(i)[j] EXCEPT !.state = "error"]
                        ELSE Jobs(i)[j]]
  <2>3. \A m \in 1..Len(Jobs(i)) : jobs[m] \in Job /\ jobs[m].item = Jobs(i)[m].item
    BY <1>3, <1>4
  <2>4. jobs \in [1..Len(Jobs(i)) -> Job]  BY <2>3
  <2>5. ChangeJobs(i, jobs)  BY <2>2
  <2> HIDE DEF jobs
  <2> QED  BY <1>2, <2>3, <2>4, <2>5
<1> QED  BY <1>5, <1>6 DEF Worker

(* Without an error nothing is lost by any step.                             *)
LEMMA StepFlows ==
    ASSUME IInv, IInv', Flow, [Next]_vars
    PROVE  Flow'
<1>1. SUFFICES ASSUME Watched' PROVE Flows'  BY DEF Flow
<1>2. ASSUME UNCHANGED <<kind, st, calls, answer, output, dropped, failed, phase, erred>>
      PROVE  Flows'
  <2>1. CutShort' = CutShort  BY <1>2, SameLast
  <2>2. Flows  BY <1>1, <1>2, <2>1 DEF Flow, Watched
  <2> QED  BY <1>2, <2>2, IdleFlows
<1>3. CASE RuntimeStep
  BY <1>1, <1>3, StageFlow, BeginFlows, ReadOnFlows, StopFlows, ReleaseFlows DEF RuntimeStep
<1>4. ~Mishap
  <2>1. ~Error  BY <1>1 DEF Watched, Error
  <2> QED
    BY <2>1 DEF Mishap, OutOfMemory, CollectOutOfMemory, WatchBreaks, FailClosed
<1>5. CASE \E i \in Main : Worker(i)  BY <1>1, <1>5, WorkerFlows
<1>6. CASE Interrupt /\ UNCHANGED <<watchVars, pipeVars>>  BY <1>2, <1>6 DEF Interrupt, pipeVars
<1>7. CASE Change /\ UNCHANGED pipeVars  BY <1>2, <1>7 DEF Change, pipeVars, runtimeVars
<1>8. CASE UNCHANGED vars  BY <1>2, <1>8 DEF vars, pipeVars, runtimeVars
<1> QED  BY <1>3, <1>4, <1>5, <1>6, <1>7, <1>8 DEF Next

(* Which streams there are, and that the last one is asked first.            *)
LEMMA InitKinds ==
    ASSUME Init
    PROVE  \E last \in Main : /\ last \in 1..Stages /\ calls = <<last>> /\ LastStage = last
                              /\ \A j \in Ids : j \in Int /\ (kind[j] # "none" <=> j <= last)
<1>1. PICK p \in Pipelines :
        /\ kind = [i \in Ids |-> IF i <= Len(p) THEN p[i] ELSE "none"]
        /\ calls = <<Len(p)>>
  BY DEF Init
<1>2. /\ p \in Seq(SourceKinds \cup StageKinds) /\ Len(p) \in 1..Stages
      /\ \A i \in 1..Len(p) : p[i] # "none"
  <2>1. p \in Seq(SourceKinds \cup StageKinds) /\ Len(p) \in 1..Stages  BY PipelineAssumption
  <2>2. "none" \notin SourceKinds \cup StageKinds  BY DEF SourceKinds, StageKinds
  <2> QED  BY <2>1, <2>2
<1> DEFINE last == Len(p)
           T == {m \in Main : kind[m] # "none"}
<1>3. last \in 1..Stages /\ last \in Main /\ calls = <<last>> /\ Stages \in Nat
  BY <1>1, <1>2, IdFacts DEF Main
<1>4. \A j \in Ids : j \in Int /\ (kind[j] # "none" <=> j <= last)
  BY <1>1, <1>2, IdFacts
<1>5. T \subseteq 1..Stages /\ last \in T  BY <1>3, <1>4, IdFacts DEF Main
<1>6. \A m \in T : m \in Int /\ m <= last  BY <1>4, IdFacts
<1>7. LastStage = Max(T)  BY DEF LastStage
<1> HIDE DEF T, last
<1>8. Max(T) \in T /\ Max(T) >= last  BY <1>3, <1>5, Greatest
<1>9. Max(T) = last  BY <1>3, <1>6, <1>8
<1> QED  BY <1>3, <1>4, <1>7, <1>9

LEMMA InitFlows ==
    ASSUME Init
    PROVE  Flow
<1>1. IInv  BY InitIsSound
<1>2. PICK last \in Main : /\ last \in 1..Stages /\ calls = <<last>> /\ LastStage = last
                          /\ \A j \in Ids : j \in Int /\ (kind[j] # "none" <=> j <= last)
  BY InitKinds
<1>4. /\ st = [i \in Ids |-> Fresh(CASE kind[i] = "skip" -> 1 [] kind[i] = "take" -> 1
                                     [] OTHER -> Items, 0)]
      /\ RuntimeInit /\ answer = NoAnswer /\ phase = "start"
  BY DEF Init
<1>5. \A i \in Ids : /\ ~st[i].closed /\ st[i].inner = 0 /\ st[i].buffer = <<>> /\ st[i].held = End
                     /\ st[i].busy = "no" /\ ~st[i].done /\ ~st[i].started
  BY <1>4 DEF Fresh
<1>6. last \in 1..Stages /\ last \in Main /\ calls = <<last>> /\ Stages \in Nat
  BY <1>2, IdFacts
<1>7. \A j \in Ids : j \in Int /\ (kind[j] # "none" <=> j <= last)  BY <1>2
<1>8. LastStage = last  BY <1>2
<1>9. \A j \in Main : kind[Inner(j)] = "none"
  <2> TAKE j \in Main
  <2>1. j \in Int /\ j >= 1 /\ Inner(j) \in Ids  BY IdFacts
  <2>2. ~(Inner(j) <= last)  BY <1>6, <2>1 DEF Inner
  <2> QED  BY <1>7, <2>1, <2>2
<1>10. Len(calls) = 1 /\ calls[1] = last /\ calls # <<>> /\ \A m \in 1..Len(calls) : m = 1
  BY <1>6
<1>11. answer.from = 0 /\ answer.item = End  BY <1>4 DEF NoAnswer
<1>12. AllPresent
  <2>1. kind[1] # "skip" /\ kind[1] # "take"
    BY <1>1, BookFacts DEF IInv, Fit, KindsFit, SourceKinds
  <2>2. st[1] = Fresh(Items, 0)  BY <1>4, <2>1, SourceIsId
  <2>3. st[1].left = Items  BY <2>2 DEF Fresh
  <2>4. 1..(Items - st[1].left) = {}  BY <2>3, IdFacts
  <2> QED  BY <2>4 DEF AllPresent
<1>13. KeepsByKind  BY <1>5 DEF KeepsByKind, Keeps
<1>14. ReadToTheEnd
  <2>1. \A j \in Main : j \in Ids  BY IdFacts
  <2> QED  BY <1>5, <2>1 DEF ReadToTheEnd
<1>15. EndIsClosed  BY <1>11 DEF EndIsClosed
<1>16. InnerIsCalled
  <2>1. \A j \in Main : j \in Ids /\ ~Unasked(j)  BY <1>9, IdFacts DEF Unasked
  <2> QED  BY <1>5, <1>6, <1>10, <1>11, <2>1 DEF InnerIsCalled
<1>17. LastIsAsked  BY <1>4, <1>8, <1>10 DEF LastIsAsked
<1>18. ~failed  BY <1>4 DEF RuntimeInit
<1> QED  BY <1>12, <1>13, <1>14, <1>15, <1>16, <1>17, <1>18 DEF Flow, Flows

-----------------------------------------------------------------------------
(* What a save knows of the end.                                             *)

LEMMA StepSaves ==
    ASSUME IInv, SaveKnows, [Next]_vars
    PROVE  SaveKnows'
<1>1. SUFFICES ASSUME target' = "new"
               PROVE  phase' \in {"ended", "released"} /\ answer'.item = End /\ ~failed'
  BY DEF SaveKnows
<1>2. ASSUME UNCHANGED <<target, answer, failed>>, phase' = phase \/ phase' = "released"
      PROVE  phase' \in {"ended", "released"} /\ answer'.item = End /\ ~failed'
  BY <1>1, <1>2 DEF SaveKnows
<1>3. ASSUME target' = target, phase \in {"start", "pulling"} PROVE FALSE
  BY <1>1, <1>3 DEF SaveKnows
<1>4. CASE \E i \in Ids : Refuse(i) \/ SourceStep(i)
  BY <1>3, <1>4, SourcePulls DEF Pulls
<1>5. CASE \E i \in Main :
              ItemStep(i) \/ RowStep(i) \/ BarrierStep(i) \/ InnerStep(i) \/ ParallelStep(i)
  BY <1>3, <1>5, StagePulls DEF Pulls
<1>6. CASE Begin \/ ReadOn  BY <1>3, <1>6 DEF Begin, ReadOn, Answered
<1>7. CASE Stop
  <2>1. target = "new" => FALSE  BY <1>7 DEF Stop, Answered, SaveKnows
  <2>2. SaveComplete /\ phase' = "ended" /\ answer' = answer  BY <1>1, <1>7, <2>1 DEF Stop
  <2> QED  BY <2>2 DEF SaveComplete
<1>8. CASE Release  BY <1>2, <1>8 DEF Release
<1>9. CASE Mishap
  BY <1>3, <1>9, SourcePulls DEF Mishap, OutOfMemory, CollectOutOfMemory, Waiting, Asked, Pulls
<1>10. CASE \E i \in Main : Worker(i)
  BY <1>2, <1>10 DEF Worker, WorkerEnds, WorkerOverMemory, ChangeJobs, runtimeVars
<1>11. CASE Interrupt /\ UNCHANGED <<watchVars, pipeVars>>
  BY <1>2, <1>11 DEF Interrupt, pipeVars
<1>12. CASE Change /\ UNCHANGED pipeVars  BY <1>2, <1>12 DEF Change, pipeVars, runtimeVars
<1>13. CASE UNCHANGED vars  BY <1>2, <1>13 DEF vars, pipeVars, runtimeVars
<1> QED
  BY <1>4, <1>5, <1>6, <1>7, <1>8, <1>9, <1>10, <1>11, <1>12, <1>13 DEF Next, RuntimeStep

(* At the end the items are with the consumer, or were left out.             *)
LEMMA FlowIsWhole ==
    ASSUME IInv, Flow, SaveKnows
    PROVE  SaveIsWhole
<1>1. SUFFICES ASSUME target = "new", ~erred, ~CutShort, NEW v \in 1..(Items - st[1].left)
               PROVE  v \in Range(output) \cup dropped
  BY DEF SaveKnows, SaveIsWhole
<1>2. phase \in {"ended", "released"} /\ answer.item = End  BY <1>1 DEF SaveKnows
<1>3. Flows  BY <1>1, <1>2 DEF Flow, Watched
<1>4. calls = <<>> /\ st[LastStage].closed  BY <1>2, <1>3 DEF Flows, LastIsAsked
<1>5. v # End
  <2>1. v >= 1  OBVIOUS
  <2> QED  BY <2>1 DEF End
<1>6. \A j \in Main : ~Unasked(j)  BY <1>3, <1>4 DEF Flows, InnerIsCalled
<1>7. ASSUME NEW j \in Ids, v \in Has(st[j])
      PROVE  v \in dropped
  <2>1. Fit(kind, st) /\ HoldsAsOne(kind[j], st[j]) /\ Keeps(kind[j], st[j], dropped)
    BY <1>3, BookFacts DEF IInv, Fit, HoldsByKind, Flows, KeepsByKind
  <2>2. Void(st[j], dropped)
    <3>1. CASE j \in Main /\ kind[j] # "none"
      <4>1. st[j].closed  BY <1>4, <3>1, AllClosed
      <4> QED  BY <2>1, <3>1, <4>1 DEF HoldsAsOne, Keeps, Void
    <3>2. CASE kind[j] = "none"
      BY <2>1, <3>2 DEF HoldsAsOne, Keeps, Void, Barriers
    <3>3. CASE j \notin Main
      <4>1. j - Stages \in Main /\ Inner(j - Stages) = j  BY <3>3, IdFacts
      <4>2. kind[j] \in {"none", "list", "lines"}  BY <2>1, <4>1 DEF Fit, KindsFit
      <4> QED  BY <2>1, <4>2 DEF HoldsAsOne, Keeps, Void, Barriers
    <3> QED  BY <3>1, <3>2, <3>3
  <2> QED  BY <1>5, <1>7, <2>2, VoidHas
<1>8. Present(v)  BY <1>3 DEF Flows, AllPresent
<1> QED  BY <1>2, <1>5, <1>6, <1>7, <1>8 DEF Present

(* The target of a save is only replaced when the stream came to its end     *)
(* without an error under way, and without any error it then has all that    *)
(* the source gave but what a stage left out (write_string_stream_atomic,    *)
(* stream_next), whatever the stages buffer, hold back, hand to children or  *)
(* read through inner streams.                                               *)
THEOREM SavesAreWhole == Spec => []SaveIsWhole
<1> DEFINE Inv == IInv /\ Flow /\ SaveKnows
<1>1. Init => Inv
  BY InitIsSound, InitFlows DEF SaveKnows, Init
<1>2. Inv /\ [Next]_vars => Inv'
  BY StepKeeps, StepFlows, StepSaves
<1>3. Inv => SaveIsWhole  BY FlowIsWhole
<1> QED  BY <1>1, <1>2, <1>3, PTL DEF Spec

(* What is on its way is what each open stream holds, works on and is tagged *)
(* with, and the last answer.                                                *)
LEMMA FlightOf ==
    ASSUME NEW j \in Opened
    PROVE  /\ st[j].held \in InFlight /\ Range(st[j].buffer) \subseteq InFlight
           /\ \A k \in 1..Len(Jobs(j)) : Jobs(j)[k].item \in InFlight
           /\ st[j].tag \in InFlight
<1> DEFINE F(i) == {st[i].held, st[i].tag} \cup Range(st[i].buffer)
                    \cup {Jobs(i)[k].item : k \in 1..Len(Jobs(i))}
           G == {F(i) : i \in Opened}
<1>1. InFlight = {answer.item} \cup UNION G  BY DEF InFlight
<1>2. F(j) \in G  OBVIOUS
<1>3. /\ st[j].held \in F(j) /\ Range(st[j].buffer) \subseteq F(j)
      /\ \A k \in 1..Len(Jobs(j)) : Jobs(j)[k].item \in F(j)
      /\ st[j].tag \in F(j)
  OBVIOUS
<1> HIDE DEF F, G
<1>4. F(j) \subseteq InFlight  BY <1>1, <1>2
<1> QED  BY <1>3, <1>4

LEMMA AnswerInFlight == answer.item \in InFlight
  BY DEF InFlight

(* While no error came, what the source gave is with the consumer, in a      *)
(* stream, on its way, or was left out.                                      *)
LEMMA FlowLosesNothing ==
    ASSUME IInv, Flow
    PROVE  NothingLost
<1>1. SUFFICES ASSUME ~erred, ~CutShort, phase = "pulling" \/ answer.item = End,
                      NEW v \in 1..(Items - st[1].left)
               PROVE  v \in Range(output) \cup dropped \cup InFlight
  BY DEF NothingLost
<1>2. Flows  BY <1>1 DEF Flow, Watched
<1>3. v # End
  <2>1. v >= 1  OBVIOUS
  <2> QED  BY <2>1 DEF End
<1>4. ASSUME NEW j \in Ids, v \in Has(st[j])
      PROVE  v \in dropped \cup InFlight
  <2>1. CASE kind[j] # "none"
    <3>1. j \in Opened /\ st[j].jobs \in Seq(Job)
      BY <2>1 DEF Opened, IInv, Holding, HoldType, Stream
    <3>2. Has(st[j]) \subseteq {st[j].held} \cup Range(st[j].buffer)
                               \cup {Jobs(j)[k].item : k \in 1..Len(Jobs(j))}
      BY <3>1 DEF Has, Jobs
    <3>3. Has(st[j]) \subseteq InFlight  BY <3>1, <3>2, FlightOf
    <3> QED  BY <1>4, <3>3
  <2>2. CASE kind[j] = "none"
    <3>1. HoldsAsOne(kind[j], st[j]) /\ Keeps(kind[j], st[j], dropped)
      BY <1>2, BookFacts DEF IInv, Fit, HoldsByKind, Flows, KeepsByKind
    <3>2. Void(st[j], dropped)  BY <2>2, <3>1 DEF HoldsAsOne, Keeps, Void, Barriers
    <3> QED  BY <1>3, <1>4, <3>2, VoidHas
  <2> QED  BY <2>1, <2>2
<1>5. ASSUME NEW j \in Main, Unasked(j), v = st[Inner(j)].tag
      PROVE  v \in InFlight
  <2>1. Inner(j) \in Opened  BY <1>5, IdFacts DEF Unasked, Opened
  <2> QED  BY <1>5, <2>1, FlightOf
<1>6. Present(v) /\ answer.item \in InFlight  BY <1>2, AnswerInFlight DEF Flows, AllPresent
<1> QED  BY <1>4, <1>5, <1>6 DEF Present

(* Without an error no item of the source is lost between the stages: it is  *)
(* with the consumer, held by a stage, worked on by a child, given by the    *)
(* stage that answered last, or left out by a stage that leaves items out.   *)
THEOREM NoItemIsLost == Spec => []NothingLost
<1> DEFINE Inv == IInv /\ Flow
<1>1. Init => Inv  BY InitIsSound, InitFlows
<1>2. Inv /\ [Next]_vars => Inv'  BY StepKeeps, StepFlows
<1>3. Inv => NothingLost  BY FlowLosesNothing
<1> QED  BY <1>1, <1>2, <1>3, PTL DEF Spec
=============================================================================
