---------------------------- MODULE DbServiceProofs ----------------------------
(***************************************************************************)
(* The process of the database extension, for every number of workers and  *)
(* of entries of the ring.  First, what each of its steps does to ring and *)
(* workers, whatever the host: ExtCallsProofs cites these lemmas as well.  *)
(* Then the theorems about DbService, for every number of calls: no worker *)
(* sleeps over work, a cancel and a stop are never forgotten, and the ring *)
(* with its threads implements the first-in first-out queue of CallQueue.  *)
(***************************************************************************)
EXTENDS DbService, FiniteSetTheorems, SequenceTheorems, TLAPS

Entries == 0..Queue - 1

(* The ring's entry k places behind its head.                                *)
Place(k) == (head + k) % Queue

(* The tail is where the calls that wait end.                                *)
RingAgrees == tail = Place(queued)

(* Every call the process has not answered carries a request scope.          *)
ScopesKnown ==
    /\ \A k \in 1..Len(inbox) : inbox[k].type = "call" => inbox[k].scope \in Scopes
    /\ \A k \in Occupied : ring[k].scope \in Scopes
    /\ \A w \in Threads : Busy(w) => job[w].scope \in Scopes

ServerInv == ServerType /\ RingAgrees /\ ScopesKnown

-----------------------------------------------------------------------------
(* Indices modulo the size of the ring.                                      *)

LEMMA Wraps ==
    ASSUME NEW n \in 0..2 * Queue - 1
    PROVE  n % Queue = IF n < Queue THEN n ELSE n - Queue
BY ServerAssumption

LEMMA SumWraps ==
    ASSUME NEW i \in Entries, NEW j \in Entries
    PROVE  (i + j) % Queue = IF i + j < Queue THEN i + j ELSE i + j - Queue
<1>1. i + j \in 0..2 * Queue - 1
  BY ServerAssumption DEF Entries
<1> QED BY <1>1, Wraps, ServerAssumption DEF Entries

LEMMA Places ==
    ASSUME head \in Entries, NEW k \in 0..Queue
    PROVE  /\ Place(k) = IF head + k < Queue THEN head + k ELSE head + k - Queue
           /\ Place(k) \in Entries
BY Wraps, ServerAssumption DEF Place, Entries

LEMMA PlacesDiffer ==
    ASSUME head \in Entries, NEW j \in Entries, NEW k \in Entries, j # k
    PROVE  Place(j) # Place(k)
BY Places, ServerAssumption DEF Entries

LEMMA SuccWraps ==
    ASSUME NEW k \in Entries
    PROVE  Succ(k) = (IF k + 1 < Queue THEN k + 1 ELSE 0) /\ Succ(k) \in Entries
BY Wraps, ServerAssumption DEF Succ, Entries

-----------------------------------------------------------------------------
(* The pipes.                                                                *)

LEMMA MessageFields ==
    ASSUME NEW m \in Message
    PROVE  /\ m.type \in {"call", "scope_end"} => m.id \in Nat /\ m.scope \in Scopes \cup {None}
           /\ m.type = "cancel" => m.target \in Nat
           /\ m.type \in {"call", "scope_end", "cancel", "end"}
BY DEF Message

LEMMA Sendable ==
    ASSUME NEW id \in Nat, NEW scope \in Scopes \cup {None}
    PROVE  /\ CallOf(id, scope) \in Message /\ CancelOf(id) \in Message
           /\ ScopeEndOf(scope) \in Message /\ EndOf \in Message
           /\ \A type \in {"answer", "refused", "scope_ended"} : ReplyOf(type, id) \in Reply
BY DEF CallOf, CancelOf, ScopeEndOf, EndOf, ReplyOf, Message, Reply

(* A message the reader takes is one of the protocol, and the rest follows.  *)
LEMMA ConsumeEffect ==
    ASSUME ServerType, NEW type, Reading(type), Consume
    PROVE  /\ Head(inbox) \in Message /\ Head(inbox).type = type
           /\ Head(inbox) = inbox[1] /\ Len(inbox) \in Nat \ {0}
           /\ inbox' \in Seq(Message) /\ Len(inbox') = Len(inbox) - 1
           /\ \A k \in 1..Len(inbox') : inbox'[k] = inbox[k + 1]
<1>1. inbox \in Seq(Message) /\ inbox # <<>> /\ inbox' = Tail(inbox)
  BY DEF ServerType, Reading, Consume
<1>2. Head(inbox).type = type
  BY DEF Reading
<1> QED BY <1>1, <1>2, HeadTailProperties, EmptySeq

(* An answer goes to the end of the pipe.                                    *)
LEMMA SayEffect ==
    ASSUME ServerType, NEW r \in Reply, Say(r)
    PROVE  /\ outbox' \in Seq(Reply) /\ Len(outbox') = Len(outbox) + 1 /\ Len(outbox) \in Nat
           /\ \A k \in 1..Len(outbox) : outbox'[k] = outbox[k]
           /\ outbox'[Len(outbox) + 1] = r
<1>1. outbox \in Seq(Reply) /\ outbox' = Append(outbox, r)
  BY DEF ServerType, Say
<1> QED BY <1>1, AppendProperties, LenProperties

-----------------------------------------------------------------------------
(* The ring.                                                                 *)

LEMMA OccupiedPlaces ==
    ASSUME ServerType
    PROVE  /\ head \in Entries /\ tail \in Entries /\ queued \in 0..Queue
           /\ Occupied \subseteq Entries
           /\ \A k : k \in Occupied <=> \E j \in 0..queued - 1 : k = Place(j)
<1>1. head \in Entries /\ tail \in Entries /\ queued \in 0..Queue
  BY DEF ServerType, Entries
<1>2. \A k : k \in Occupied <=> \E j \in 0..queued - 1 : k = Place(j)
  BY DEF Occupied, Place
<1>3. ASSUME NEW j \in 0..queued - 1
      PROVE  Place(j) \in Entries
  <2>1. j \in 0..Queue
    BY <1>1, ServerAssumption
  <2> QED BY <1>1, <2>1, Places
<1> QED BY <1>1, <1>2, <1>3

(* The same after a step.                                                    *)
LEMMA OccupiedNext == ServerType' => Occupied' \subseteq Entries
<1>1. ServerType => Occupied \subseteq Entries
  BY OccupiedPlaces
<1>2. (ServerType => Occupied \subseteq Entries)'
  BY <1>1, PTL
<1> QED BY <1>2 DEF Entries

(* A call takes the entry behind the last of those that wait.                *)
LEMMA EnqueueEffect ==
    ASSUME ServerType, RingAgrees, Enqueue
    PROVE  /\ tail \in Entries /\ tail \notin Occupied
           /\ Occupied' = Occupied \cup {tail} /\ RingAgrees'
           /\ ring' \in [Entries -> Entry]
           /\ ring'[tail] = [id |-> Head(inbox).id, scope |-> Head(inbox).scope, cancelled |-> FALSE]
           /\ \A k \in Entries \ {tail} : ring'[k] = ring[k]
           /\ tail' \in Entries /\ queued' = queued + 1 /\ queued' \in 0..Queue /\ head' = head
<1>0. Reading("call") /\ queued < Queue /\ Consume
  BY DEF Enqueue
<1>1. /\ head \in Entries /\ tail \in Entries /\ queued \in 0..Queue
      /\ Occupied \subseteq Entries /\ ring \in [Entries -> Entry]
  BY OccupiedPlaces DEF ServerType, Entries
<1>2. queued' = queued + 1 /\ head' = head /\ tail' = Succ(tail) /\ queued \in Entries
  BY <1>0, <1>1, ServerAssumption DEF Enqueue, Entries
<1>3. tail = Place(queued)
  BY DEF RingAgrees
<1>4. tail \notin Occupied
  <2> SUFFICES ASSUME NEW j \in 0..queued - 1
               PROVE  Place(j) # Place(queued)
    BY <1>3, OccupiedPlaces
  <2>1. j \in Entries /\ j # queued
    BY <1>2, ServerAssumption DEF Entries
  <2> QED BY <1>1, <1>2, <2>1, PlacesDiffer
<1>5. \A j \in 0..queued : Place(j)' = Place(j)
  BY <1>2 DEF Place
<1>6. Occupied' = Occupied \cup {tail}
  <2>1. Occupied' = {Place(j) : j \in 0..queued}
    BY <1>1, <1>2, ServerAssumption DEF Occupied, Place, Entries
  <2>2. Occupied = {Place(j) : j \in 0..queued - 1}
    BY DEF Occupied, Place
  <2>3. 0..queued = (0..queued - 1) \cup {queued}
    BY <1>1, ServerAssumption
  <2> QED BY <1>3, <2>1, <2>2, <2>3
<1>7. RingAgrees'
  <2>1. (queued + 1) \in 0..Queue /\ queued \in 0..Queue
    BY <1>0, <1>1, ServerAssumption
  <2>2. Place(queued + 1) = IF head + (queued + 1) < Queue THEN head + (queued + 1)
                            ELSE head + (queued + 1) - Queue
    BY <1>1, <2>1, Places DEF Entries
  <2>3. tail = IF head + queued < Queue THEN head + queued ELSE head + queued - Queue
    BY <1>1, <1>3, <2>1, Places
  <2>4. Succ(tail) = IF tail + 1 < Queue THEN tail + 1 ELSE 0
    BY <1>1, SuccWraps
  <2>5. Succ(tail) = Place(queued + 1)
    BY <1>0, <1>1, <2>2, <2>3, <2>4, ServerAssumption DEF Entries
  <2> QED BY <1>2, <2>5 DEF RingAgrees, Place
<1>8. Head(inbox).id \in Nat /\ Head(inbox).scope \in Scopes \cup {None}
  BY <1>0, ConsumeEffect, MessageFields
<1>9. ring' = [ring EXCEPT ![tail] =
                  [id |-> Head(inbox).id, scope |-> Head(inbox).scope, cancelled |-> FALSE]]
  BY DEF Enqueue
<1>10. tail' \in Entries /\ queued' \in 0..Queue
  BY <1>0, <1>1, <1>2, SuccWraps, ServerAssumption DEF Entries
<1> QED BY <1>1, <1>2, <1>4, <1>6, <1>7, <1>8, <1>9, <1>10 DEF Entry

(* The oldest call leaves the ring.                                          *)
LEMMA TakeEffect ==
    ASSUME ServerType, RingAgrees, NEW w \in Threads, TakeCall(w)
    PROVE  /\ head \in Occupied /\ Occupied' = Occupied \ {head} /\ RingAgrees'
           /\ head' \in Entries /\ queued \in 1..Queue /\ queued' = queued - 1
           /\ queued' \in 0..Queue
           /\ \A j \in 0..queued - 2 : Place(j)' = Place(j + 1)
           /\ head = Place(0)
<1>1. head \in Entries /\ tail \in Entries /\ queued \in 1..Queue
  BY OccupiedPlaces DEF TakeCall
<1>2. queued' = queued - 1 /\ head' = Succ(head) /\ tail' = tail
  BY DEF TakeCall
<1>3. head = Place(0)
  BY <1>1, Places, ServerAssumption DEF Entries
<1>4. head \in Occupied
  BY <1>1, <1>3, OccupiedPlaces
<1>5. head' \in Entries /\ Succ(head) = IF head + 1 < Queue THEN head + 1 ELSE 0
  BY <1>1, <1>2, SuccWraps
<1>6. ASSUME NEW j \in 0..queued - 1
      PROVE  (head' + j) % Queue = Place(j + 1)
  <2>1. j \in Entries
    BY <1>1, ServerAssumption DEF Entries
  <2>2. (head' + j) % Queue = IF head' + j < Queue THEN head' + j ELSE head' + j - Queue
    BY <1>5, <2>1, SumWraps
  <2>3. Place(j + 1) = IF head + (j + 1) < Queue THEN head + (j + 1) ELSE head + (j + 1) - Queue
    BY <1>1, <2>1, Places, ServerAssumption DEF Entries
  <2> QED BY <1>1, <1>2, <1>5, <2>1, <2>2, <2>3, ServerAssumption DEF Entries
<1>7. \A j \in 0..queued - 2 : Place(j)' = Place(j + 1)
  BY <1>1, <1>6, ServerAssumption DEF Place
<1>8. RingAgrees'
  <2>1. (queued - 1) \in 0..queued - 1 /\ (queued - 1) + 1 = queued
    BY <1>1, ServerAssumption
  <2>2. (head' + (queued - 1)) % Queue = Place(queued)
    BY <1>6, <2>1
  <2> QED BY <1>2, <2>2 DEF RingAgrees, Place
<1>9. Occupied' = Occupied \ {head}
  <2>1. ASSUME NEW k \in Occupied'
        PROVE  k \in Occupied \ {head}
    <3>1. PICK j \in 0..queued - 2 : k = Place(j)'
      BY <1>1, <1>2, <2>1, ServerAssumption DEF Occupied, Place
    <3>2. k = Place(j + 1) /\ j + 1 \in 1..queued - 1
      BY <1>1, <1>7, <3>1, ServerAssumption
    <3>3. Place(j + 1) # Place(0)
      BY <1>1, <3>2, PlacesDiffer, ServerAssumption DEF Entries
    <3> QED BY <1>1, <1>3, <3>2, <3>3, OccupiedPlaces, ServerAssumption
  <2>2. ASSUME NEW k \in Occupied, k # head
        PROVE  k \in Occupied'
    <3>1. PICK j \in 0..queued - 1 : k = Place(j)
      BY OccupiedPlaces
    <3>2. j # 0 /\ j - 1 \in 0..queued - 2 /\ (j - 1) + 1 = j
      BY <1>1, <1>3, <2>2, <3>1, ServerAssumption
    <3>3. k = Place(j - 1)'
      BY <1>7, <3>1, <3>2
    <3> QED BY <1>1, <1>2, <3>2, <3>3, ServerAssumption DEF Occupied, Place
  <2> QED BY <2>1, <2>2
<1>10. queued' \in 0..Queue
  BY <1>1, <1>2, ServerAssumption
<1> QED BY <1>1, <1>2, <1>3, <1>4, <1>5, <1>7, <1>8, <1>9, <1>10
-----------------------------------------------------------------------------
(* Marks and threads.                                                        *)

(* Marking sets the flags of the calls it names and changes nothing else.    *)
LEMMA MarkedEffect ==
    ASSUME ServerType, NEW S, Marked(S)
    PROVE  /\ ring' \in [Entries -> Entry] /\ flag' \in [Threads -> BOOLEAN]
           /\ \A k \in Entries :
                 /\ ring'[k].id = ring[k].id /\ ring'[k].scope = ring[k].scope
                 /\ ring'[k].cancelled <=>
                       ring[k].cancelled \/ (k \in Occupied /\ ring[k].id \in S)
           /\ \A w \in Threads : flag'[w] <=> flag[w] \/ (Busy(w) /\ job[w].id \in S)
<1>1. ring \in [Entries -> Entry] /\ flag \in [Threads -> BOOLEAN]
  BY DEF ServerType, Entries
<1>2. ring' = [k \in Entries |-> IF k \in Occupied /\ ring[k].id \in S
                                THEN [ring[k] EXCEPT !.cancelled = TRUE] ELSE ring[k]]
  BY Zenon DEF Marked, Entries
<1>3. flag' = [w \in Threads |-> flag[w] \/ (Busy(w) /\ job[w].id \in S)]
  BY Zenon DEF Marked
<1>4. ASSUME NEW k \in Entries
      PROVE  /\ ring'[k] \in Entry /\ ring'[k].id = ring[k].id /\ ring'[k].scope = ring[k].scope
             /\ ring'[k].cancelled <=>
                   ring[k].cancelled \/ (k \in Occupied /\ ring[k].id \in S)
  BY <1>1, <1>2 DEF Entry
<1>5. ASSUME NEW w \in Threads
      PROVE  /\ flag'[w] \in BOOLEAN
             /\ flag'[w] <=> flag[w] \/ (Busy(w) /\ job[w].id \in S)
  BY <1>1, <1>3
<1>6. ring' \in [Entries -> Entry] /\ flag' \in [Threads -> BOOLEAN]
  BY <1>2, <1>3, <1>4, <1>5
<1> QED BY <1>4, <1>5, <1>6

Where == {"awake", "asleep", "running", "done", "gone"}

(* A signal wakes at most one of those asleep.                               *)
LEMMA SignalEffect ==
    ASSUME ServerType, Signal
    PROVE  /\ thread' \in [Threads -> Where]
           /\ \A w \in Threads : thread'[w] = thread[w]
                                 \/ (thread[w] = "asleep" /\ thread'[w] = "awake")
           /\ Asleep # {} => \E w \in Threads :
                 thread[w] = "asleep" /\ thread' = [thread EXCEPT ![w] = "awake"]
<1>1. thread \in [Threads -> Where]
  BY DEF ServerType, Where
<1> QED BY <1>1 DEF Signal, Asleep, Where

LEMMA WokenEffect ==
    ASSUME ServerType
    PROVE  /\ Woken \in [Threads -> Where]
           /\ \A w \in Threads : /\ Woken[w] # "asleep"
                                 /\ Woken[w] = thread[w]
                                      \/ (thread[w] = "asleep" /\ Woken[w] = "awake")
<1>1. thread \in [Threads -> Where]
  BY DEF ServerType, Where
<1> QED BY <1>1 DEF Woken, Where

-----------------------------------------------------------------------------
(* Every step of the process keeps to its types and the tail behind the      *)
(* calls that wait.                                                          *)

LEMMA ReadTypes ==
    ASSUME ServerType, RingAgrees, Read
    PROVE  ServerType' /\ RingAgrees'
<1>1. CASE Enqueue
  <2>1. Consume /\ Reading("call") /\ Signal /\ UNCHANGED <<head, job, flag, outbox, reader, stopping, open>>
    BY <1>1 DEF Enqueue
  <2>2. inbox' \in Seq(Message) /\ thread' \in [Threads -> Where]
    BY <2>1, ConsumeEffect, SignalEffect
  <2>3. /\ ring' \in [Entries -> Entry] /\ RingAgrees' /\ tail' \in Entries
        /\ queued' \in 0..Queue
    BY <1>1, EnqueueEffect
  <2> QED BY <2>1, <2>2, <2>3 DEF ServerType, Where, Entries
<1>2. CASE RefuseCall
  <2>1. /\ Consume /\ Reading("call") /\ Say(ReplyOf("refused", Head(inbox).id))
        /\ UNCHANGED <<ringVars, workerVars, reader, stopping, open>>
    BY <1>2 DEF RefuseCall
  <2>2. inbox' \in Seq(Message) /\ Head(inbox).id \in Nat
    BY <2>1, ConsumeEffect, MessageFields
  <2>3. ReplyOf("refused", Head(inbox).id) \in Reply
    BY <2>2 DEF ReplyOf, Reply
  <2>4. outbox' \in Seq(Reply)
    BY <2>1, <2>3, SayEffect
  <2> QED BY <2>1, <2>2, <2>4 DEF ServerType, RingAgrees, Place, ringVars, workerVars
<1>3. CASE CancelCall
  <2>1. /\ Consume /\ Reading("cancel") /\ Marked({Head(inbox).target})
        /\ UNCHANGED <<head, tail, queued, thread, job, outbox, reader, stopping, open>>
    BY <1>3 DEF CancelCall
  <2>2. /\ inbox' \in Seq(Message) /\ ring' \in [Entries -> Entry]
        /\ flag' \in [Threads -> BOOLEAN]
    BY <2>1, ConsumeEffect, MarkedEffect
  <2> QED BY <2>1, <2>2 DEF ServerType, Entries, RingAgrees, Place
<1>4. CASE EndScope
  <2>1. /\ Consume /\ Reading("scope_end") /\ Say(ReplyOf("scope_ended", Head(inbox).id))
        /\ open' = open \ {Head(inbox).scope}
        /\ UNCHANGED <<ringVars, workerVars, reader, stopping>>
    BY <1>4 DEF EndScope
  <2>2. inbox' \in Seq(Message) /\ Head(inbox).id \in Nat
    BY <2>1, ConsumeEffect, MessageFields
  <2>3. ReplyOf("scope_ended", Head(inbox).id) \in Reply
    BY <2>2 DEF ReplyOf, Reply
  <2>4. outbox' \in Seq(Reply)
    BY <2>1, <2>3, SayEffect
  <2> QED BY <2>1, <2>2, <2>4 DEF ServerType, RingAgrees, Place, ringVars, workerVars
<1>5. CASE Stop
  <2>1. /\ Consume /\ Reading("end") /\ Marked(Nat) /\ stopping' = TRUE /\ thread' = Woken
        /\ reader' = "joining" /\ UNCHANGED <<head, tail, queued, job, outbox, open>>
    BY <1>5 DEF Stop
  <2>2. /\ inbox' \in Seq(Message) /\ ring' \in [Entries -> Entry]
        /\ flag' \in [Threads -> BOOLEAN] /\ thread' \in [Threads -> Where]
    BY <2>1, ConsumeEffect, MarkedEffect, WokenEffect
  <2> QED BY <2>1, <2>2 DEF ServerType, Entries, Where, RingAgrees, Place
<1>6. CASE Exit
  BY <1>6 DEF Exit, ServerType, RingAgrees, Place, ringVars, workerVars
<1> QED BY <1>1, <1>2, <1>3, <1>4, <1>5, <1>6 DEF Read

LEMMA WorkTypes ==
    ASSUME ServerType, RingAgrees, ScopesKnown, NEW w \in Threads, Work(w) \/ AnswerCall(w)
    PROVE  ServerType' /\ RingAgrees'
<1>0. thread \in [Threads -> Where]
  BY DEF ServerType, Where
<1>1. CASE Sleep(w) \/ Leave(w)
  <2>1. thread' \in [Threads -> Where]
    BY <1>0, <1>1 DEF Sleep, Leave, Where
  <2> QED BY <1>1, <2>1 DEF Sleep, Leave, ServerType, Where, RingAgrees, Place, ringVars
<1>2. CASE TakeCall(w)
  <2>1. /\ thread' = [thread EXCEPT ![w] = "running"] /\ job' = [job EXCEPT ![w] = ring[head]]
        /\ flag' = [flag EXCEPT ![w] = FALSE]
        /\ UNCHANGED <<inbox, outbox, ring, tail, reader, stopping, open>>
    BY <1>2 DEF TakeCall
  <2>2. RingAgrees' /\ head' \in Entries /\ queued' \in 0..Queue
    BY <1>2, TakeEffect
  <2>3. thread' \in [Threads -> Where] /\ job' \in [Threads -> Entry] /\ flag' \in [Threads -> BOOLEAN]
    BY <1>0, <2>1 DEF ServerType, Where
  <2> QED BY <2>1, <2>2, <2>3 DEF ServerType, Where, Entries
<1>3. CASE AnswerCall(w)
  <2>1. /\ Say(ReplyOf("answer", job[w].id)) /\ thread' = [thread EXCEPT ![w] = "done"]
        /\ UNCHANGED <<inbox, ringVars, job, flag, reader, stopping>>
    BY <1>3 DEF AnswerCall
  <2>2. job[w] \in Entry
    BY DEF ServerType
  <2>3. ReplyOf("answer", job[w].id) \in Reply
    BY <2>2 DEF ReplyOf, Reply, Entry
  <2>4. outbox' \in Seq(Reply)
    BY <2>1, <2>3, SayEffect
  <2>5. open' \subseteq Scopes
    <3>1. Busy(w) /\ (open' = open \/ open' \in {open \cup {job[w].scope}, open \ {job[w].scope}})
      BY <1>3 DEF AnswerCall
    <3>2. job[w].scope \in Scopes
      BY <3>1 DEF ScopesKnown
    <3> QED BY <3>1, <3>2 DEF ServerType
  <2>6. thread' \in [Threads -> Where]
    BY <1>0, <2>1 DEF Where
  <2> QED BY <2>1, <2>4, <2>5, <2>6 DEF ServerType, Where, RingAgrees, Place, ringVars
<1>4. CASE EndJob(w)
  <2>1. /\ thread' = [Woken EXCEPT ![w] = "awake"] /\ job' = [job EXCEPT ![w] = NoEntry]
        /\ flag' = [flag EXCEPT ![w] = FALSE]
        /\ UNCHANGED <<inbox, outbox, ringVars, reader, stopping, open>>
    BY <1>4 DEF EndJob
  <2>2. thread' \in [Threads -> Where]
    BY <2>1, WokenEffect DEF Where
  <2>3. NoEntry \in Entry
    BY DEF NoEntry, Entry
  <2>4. job' \in [Threads -> Entry] /\ flag' \in [Threads -> BOOLEAN]
    BY <2>1, <2>3 DEF ServerType
  <2> QED BY <2>1, <2>2, <2>4 DEF ServerType, Where, RingAgrees, Place, ringVars
<1> QED BY <1>1, <1>2, <1>3, <1>4 DEF Work

(* The scopes travel with the calls.                                         *)
LEMMA ReadScopes ==
    ASSUME ServerType, RingAgrees, ScopesKnown, Read
    PROVE  ScopesKnown'
<1>1. CASE Enqueue
  <2>1. /\ Consume /\ Reading("call") /\ Signal /\ job' = job
        /\ \A w \in Threads : Busy(w)' => Busy(w)
    BY <1>1, SignalEffect DEF Enqueue, Busy
  <2>2. /\ Head(inbox) = inbox[1] /\ Head(inbox).type = "call" /\ Len(inbox) \in Nat \ {0}
        /\ Len(inbox') = Len(inbox) - 1
        /\ \A k \in 1..Len(inbox') : inbox'[k] = inbox[k + 1]
    BY <2>1, ConsumeEffect
  <2>3. Head(inbox).scope \in Scopes
    BY <2>2 DEF ScopesKnown
  <2>4. ring'[tail].scope \in Scopes
    BY <1>1, <2>3, EnqueueEffect
  <2>5. \A k \in Occupied' : ring'[k].scope \in Scopes
    BY <1>1, <2>4, EnqueueEffect, OccupiedPlaces DEF ScopesKnown
  <2> QED BY <2>1, <2>2, <2>5 DEF ScopesKnown
<1>2. CASE RefuseCall \/ CancelCall \/ EndScope \/ Stop
  <2>1. Consume /\ job' = job /\ Occupied' = Occupied /\ \E type : Reading(type)
    BY <1>2 DEF RefuseCall, CancelCall, EndScope, Stop, ringVars, workerVars, Occupied
  <2>2. /\ Len(inbox) \in Nat \ {0} /\ Len(inbox') = Len(inbox) - 1
        /\ \A k \in 1..Len(inbox') : inbox'[k] = inbox[k + 1]
    BY <2>1, ConsumeEffect
  <2>3. ring' = ring \/ \E X : Marked(X)
    BY <1>2 DEF RefuseCall, CancelCall, EndScope, Stop, ringVars
  <2>4. \A k \in Occupied : ring'[k].scope = ring[k].scope
    BY <2>3, MarkedEffect, OccupiedPlaces
  <2>5. thread' = thread \/ thread' = Woken
    BY <1>2 DEF RefuseCall, CancelCall, EndScope, Stop, workerVars
  <2>6. \A w \in Threads : Busy(w)' => Busy(w)
    BY <2>5, WokenEffect DEF Busy
  <2> QED BY <2>1, <2>2, <2>4, <2>6 DEF ScopesKnown
<1>3. CASE Exit
  BY <1>3 DEF Exit, ScopesKnown, ringVars, workerVars, Occupied, Busy
<1> QED BY <1>1, <1>2, <1>3 DEF Read

LEMMA WorkScopes ==
    ASSUME ServerType, RingAgrees, ScopesKnown, NEW w \in Threads, Work(w) \/ AnswerCall(w)
    PROVE  ScopesKnown'
<1>0. thread \in [Threads -> Where] /\ inbox' = inbox /\ ring' = ring
  BY DEF ServerType, Where, Work, Sleep, TakeCall, EndJob, Leave, AnswerCall, ringVars
<1>1. CASE Sleep(w) \/ Leave(w) \/ AnswerCall(w)
  <2>1. job' = job /\ Occupied' = Occupied /\ \A v \in Threads : Busy(v)' => Busy(v)
    BY <1>0, <1>1 DEF Sleep, Leave, AnswerCall, ringVars, Occupied, Busy
  <2> QED BY <1>0, <2>1 DEF ScopesKnown
<1>2. CASE TakeCall(w)
  <2>1. head \in Occupied /\ Occupied' \subseteq Occupied
    BY <1>2, TakeEffect
  <2>2. \A v \in Threads : Busy(v)' => job'[v] = ring[head] \/ (Busy(v) /\ job'[v] = job[v])
    BY <1>0, <1>2 DEF TakeCall, ServerType, Busy
  <2> QED BY <1>0, <2>1, <2>2 DEF ScopesKnown
<1>3. CASE EndJob(w)
  <2>1. \A v \in Threads : Busy(v)' => Busy(v) /\ job'[v] = job[v]
    BY <1>3, WokenEffect DEF EndJob, ServerType, Busy
  <2>2. Occupied' = Occupied
    BY <1>3 DEF EndJob, ringVars, Occupied
  <2> QED BY <1>0, <2>1, <2>2 DEF ScopesKnown
<1> QED BY <1>1, <1>2, <1>3 DEF Work

LEMMA ServerStep ==
    ASSUME ServerInv, ServerNext
    PROVE  ServerInv'
BY ReadTypes, WorkTypes, ReadScopes, WorkScopes DEF ServerNext, ServerInv

LEMMA ServerStarts ==
    ASSUME ServerInit, reader \in {"reading", "exited"}
    PROVE  ServerInv
<1>1. NoEntry \in Entry
  BY DEF NoEntry, Entry
<1>2. Queue \in Nat \ {0} /\ head = 0 /\ tail = 0 /\ queued = 0
  BY ServerAssumption DEF ServerInit
<1>3. head \in 0..Queue - 1 /\ tail \in 0..Queue - 1 /\ queued \in 0..Queue
  BY <1>2
<1>4. RingAgrees
  BY <1>2, Places DEF RingAgrees, Entries
<1>5. inbox \in Seq(Message) /\ outbox \in Seq(Reply)
  BY DEF ServerInit
<1>6. ServerType
  BY <1>1, <1>3, <1>5 DEF ServerInit, ServerType
<1>7. ScopesKnown
  <2>1. Len(inbox) = 0 /\ Occupied = {} /\ \A w \in Threads : ~Busy(w)
    BY <1>2 DEF ServerInit, Occupied, Busy
  <2> QED BY <2>1 DEF ScopesKnown
<1> QED BY <1>4, <1>6, <1>7 DEF ServerInv

LEMMA ServerRests == ASSUME ServerInv, UNCHANGED serverVars PROVE ServerInv'
BY DEF ServerInv, ServerType, RingAgrees, Place, ScopesKnown, Occupied, Busy, serverVars, ringVars,
       workerVars

(* The host's end of the pipes: one more message, one answer less.           *)
LEMMA MessageSent ==
    ASSUME ServerInv, NEW m \in Message, m.type = "call" => m.scope \in Scopes,
           inbox' = Append(inbox, m),
           UNCHANGED <<outbox, ringVars, workerVars, reader, stopping, open>>
    PROVE  /\ ServerInv' /\ Len(inbox) \in Nat /\ Len(inbox') = Len(inbox) + 1
           /\ \A k \in 1..Len(inbox) : inbox'[k] = inbox[k]
           /\ inbox'[Len(inbox) + 1] = m
<1>1. inbox \in Seq(Message)
  BY DEF ServerInv, ServerType
<1>2. /\ inbox' \in Seq(Message) /\ Len(inbox) \in Nat /\ Len(inbox') = Len(inbox) + 1
      /\ \A k \in 1..Len(inbox) : inbox'[k] = inbox[k]
      /\ inbox'[Len(inbox) + 1] = m
  BY <1>1, AppendProperties, LenProperties
<1>3. ServerType' /\ RingAgrees'
  BY <1>2 DEF ServerInv, ServerType, RingAgrees, Place, ringVars, workerVars
<1>4. Occupied' = Occupied /\ ring' = ring /\ job' = job /\ thread' = thread
  BY DEF Occupied, ringVars, workerVars
<1>5. ScopesKnown
  BY DEF ServerInv
<1>6. ASSUME NEW k \in 1..Len(inbox'), inbox'[k].type = "call"
      PROVE  inbox'[k].scope \in Scopes
  <2>1. k \in 1..Len(inbox) \/ k = Len(inbox) + 1
    BY <1>2
  <2> QED BY <1>2, <1>5, <1>6, <2>1 DEF ScopesKnown
<1>7. ScopesKnown'
  BY <1>4, <1>5, <1>6 DEF ScopesKnown, Busy
<1> QED BY <1>2, <1>3, <1>7 DEF ServerInv

LEMMA ReplyRead ==
    ASSUME ServerInv, outbox # <<>>, outbox' = Tail(outbox),
           UNCHANGED <<inbox, ringVars, workerVars, reader, stopping, open>>
    PROVE  /\ ServerInv' /\ Head(outbox) = outbox[1] /\ Head(outbox) \in Reply
           /\ Len(outbox) \in Nat \ {0} /\ Len(outbox') = Len(outbox) - 1
           /\ \A k \in 1..Len(outbox') : outbox'[k] = outbox[k + 1]
<1>1. outbox \in Seq(Reply)
  BY DEF ServerInv, ServerType
<1>2. /\ outbox' \in Seq(Reply) /\ Len(outbox') = Len(outbox) - 1 /\ Head(outbox) \in Reply
      /\ \A k \in 1..Len(outbox') : outbox'[k] = outbox[k + 1]
      /\ Len(outbox) \in Nat \ {0} /\ Head(outbox) = outbox[1]
  BY <1>1, HeadTailProperties, EmptySeq
<1>3. ServerType' /\ RingAgrees' /\ ScopesKnown'
  BY <1>2 DEF ServerInv, ServerType, RingAgrees, Place, ScopesKnown, Occupied, Busy, ringVars,
              workerVars
<1> QED BY <1>2, <1>3 DEF ServerInv

-----------------------------------------------------------------------------
(* The host that pipelines its calls.                                        *)

IsCall(k) == inbox[k].type = "call"
Cancels(k, id) == inbox[k].type = "cancel" /\ inbox[k].target = id

(* An id is in one place only: it is still on its way to the process, or it  *)
(* waits in the ring, or one worker runs it, or it was answered.             *)
OnePlace ==
    /\ \A j, k \in 1..Len(inbox) : IsCall(j) /\ IsCall(k) /\ j # k => inbox[j].id # inbox[k].id
    /\ \A k \in 1..Len(inbox) :
          IsCall(k) => inbox[k].id \in 1..sent \ (InRing \cup Running \cup Answers \cup replied)
    /\ \A j, k \in Occupied : j # k => ring[j].id # ring[k].id
    /\ InRing \cup Running \cup Answers \cup replied \subseteq 1..sent
    /\ InRing \cap Running = {}
    /\ \A v, w \in Threads : Busy(v) /\ Busy(w) /\ v # w => job[v].id # job[w].id

ClientType == sent \in 0..MaxSent /\ closed \in BOOLEAN /\ cancels \subseteq 1..sent

(* Every call with this id that the process has taken from the pipe is       *)
(* marked.                                                                   *)
AllMarked(id) ==
    /\ \A k \in Occupied : ring[k].id = id => ring[k].cancelled
    /\ \A w \in Threads : Busy(w) /\ job[w].id = id => flag[w] \/ job[w].cancelled

(* A cancel follows its call, and when it has arrived the call is marked.    *)
CancelsHold ==
    \A id \in cancels :
        /\ \A k \in 1..Len(inbox) :
              IsCall(k) /\ inbox[k].id = id => \E j \in k + 1..Len(inbox) : Cancels(j, id)
        /\ (\A k \in 1..Len(inbox) : ~Cancels(k, id)) => AllMarked(id)

(* After the stop everything is marked, and a worker that leaves leaves      *)
(* nothing behind.                                                           *)
StopHolds ==
    /\ stopping <=> reader # "reading"
    /\ stopping => /\ \A k \in Occupied : ring[k].cancelled
                   /\ \A w \in Threads : Busy(w) => flag[w] \/ job[w].cancelled
    /\ (\E w \in Threads : thread[w] = "gone") => stopping /\ queued = 0

ServiceInv == ServerInv /\ NoSleepingWork /\ ClientType /\ OnePlace /\ CancelsHold /\ StopHolds

USE DEF IsCall, Cancels

-----------------------------------------------------------------------------
(* No worker sleeps over work.                                               *)

Awake == {w \in Threads : thread[w] = "awake"}

LEMMA AwakeCount ==
    /\ IsFiniteSet(Awake) /\ Cardinality(Awake) \in Nat
    /\ IsFiniteSet(Awake') /\ Cardinality(Awake') \in Nat
<1>1. Awake \in SUBSET Threads /\ Awake' \in SUBSET Threads /\ IsFiniteSet(Threads)
  BY ServerAssumption DEF Awake
<1> QED BY <1>1, FS_Subset, FS_CardinalityType

LEMMA NobodyOversleeps ==
    ASSUME ServerInv, NoSleepingWork, ServerNext
    PROVE  NoSleepingWork'
<1>0. /\ ServerType /\ RingAgrees /\ thread \in [Threads -> Where] /\ queued \in 0..Queue
      /\ Queue \in Nat
  BY ServerAssumption DEF ServerInv, ServerType, Where
<1>1. CASE Enqueue
  <2>1. queued' = queued + 1 /\ Signal
    BY <1>1 DEF Enqueue
  <2>2. CASE Asleep = {}
    <3>1. Asleep' = {}
      BY <2>1, <2>2 DEF Signal, Asleep
    <3> QED BY <3>1 DEF NoSleepingWork
  <2>3. CASE Asleep # {}
    <3>1. PICK w \in Threads : thread[w] = "asleep" /\ thread' = [thread EXCEPT ![w] = "awake"]
      BY <1>0, <2>1, <2>3, SignalEffect
    <3>2. Awake' = Awake \cup {w} /\ w \notin Awake
      BY <1>0, <3>1 DEF Awake
    <3>3. Cardinality(Awake') = Cardinality(Awake) + 1
      BY <3>2, AwakeCount, FS_AddElement
    <3>4. Cardinality(Awake) >= queued
      BY <2>3 DEF NoSleepingWork, Awake
    <3>5. Cardinality(Awake') >= queued'
      BY <1>0, <2>1, <3>3, <3>4, AwakeCount
    <3> QED BY <3>5 DEF NoSleepingWork, Awake
  <2> QED BY <2>2, <2>3
<1>2. CASE RefuseCall \/ CancelCall \/ EndScope \/ Exit
  <2>1. thread' = thread /\ queued' = queued
    BY <1>2 DEF RefuseCall, CancelCall, EndScope, Exit, ringVars, workerVars
  <2> QED BY <2>1 DEF NoSleepingWork, Asleep
<1>3. CASE Stop
  <2>1. \A w \in Threads : thread'[w] # "asleep"
    BY <1>0, <1>3, WokenEffect DEF Stop
  <2> QED BY <2>1 DEF NoSleepingWork, Asleep
<1>4. ASSUME NEW w \in Threads, Work(w) \/ AnswerCall(w)
      PROVE  NoSleepingWork'
  <2>1. CASE Sleep(w) \/ Leave(w)
    <3>1. queued' = 0
      BY <2>1 DEF Sleep, Leave, ringVars
    <3> QED BY <3>1, AwakeCount DEF NoSleepingWork, Awake
  <2>2. CASE TakeCall(w)
    <3>1. /\ thread[w] = "awake" /\ thread' = [thread EXCEPT ![w] = "running"]
          /\ queued' = queued - 1 /\ queued \in Nat
      BY <1>0, <2>2 DEF TakeCall
    <3>2. Asleep' = Asleep /\ Awake' = Awake \ {w} /\ w \in Awake
      BY <1>0, <3>1 DEF Asleep, Awake
    <3>3. Cardinality(Awake') = Cardinality(Awake) - 1
      BY <3>2, AwakeCount, FS_RemoveElement
    <3>4. Asleep # {} => Cardinality(Awake) >= queued
      BY DEF NoSleepingWork, Awake
    <3>5. Asleep' # {} => Cardinality(Awake') >= queued'
      BY <3>1, <3>2, <3>3, <3>4, AwakeCount
    <3> QED BY <3>5 DEF NoSleepingWork, Awake
  <2>3. CASE AnswerCall(w)
    <3>1. /\ thread[w] = "running" /\ thread' = [thread EXCEPT ![w] = "done"] /\ queued' = queued
      BY <2>3 DEF AnswerCall, Busy, ringVars
    <3>2. Asleep' = Asleep /\ Awake' = Awake
      BY <1>0, <3>1 DEF Asleep, Awake
    <3> QED BY <3>1, <3>2 DEF NoSleepingWork, Awake
  <2>4. CASE EndJob(w)
    <3>1. \A v \in Threads : thread'[v] # "asleep"
      BY <1>0, <2>4, WokenEffect DEF EndJob
    <3> QED BY <3>1 DEF NoSleepingWork, Asleep
  <2> QED BY <1>4, <2>1, <2>2, <2>3, <2>4 DEF Work
<1> QED BY <1>1, <1>2, <1>3, <1>4 DEF ServerNext, Read

-----------------------------------------------------------------------------
(* Where each step of the process moves an id.                               *)

LEMMA EnqueueMoves ==
    ASSUME ServerInv, Enqueue
    PROVE  /\ InRing' = InRing \cup {Head(inbox).id}
           /\ Running' = Running /\ Answers' = Answers
<1>1. ServerType /\ RingAgrees
  BY DEF ServerInv
<1>2. Signal /\ job' = job /\ outbox' = outbox
  BY <1>1 DEF Enqueue
<1>3. \A w \in Threads : Busy(w)' <=> Busy(w)
  BY <1>1, <1>2, SignalEffect DEF Busy
<1>4. Running' = Running
  BY <1>2, <1>3 DEF Running
<1>5. /\ Occupied' = Occupied \cup {tail} /\ tail \notin Occupied
      /\ ring'[tail].id = Head(inbox).id /\ \A k \in Occupied : ring'[k].id = ring[k].id
  BY <1>1, EnqueueEffect, OccupiedPlaces
<1>6. InRing' = InRing \cup {Head(inbox).id}
  BY <1>5 DEF InRing
<1> QED BY <1>2, <1>4, <1>6 DEF Answers

LEMMA RefuseMoves ==
    ASSUME ServerInv, RefuseCall
    PROVE  /\ Answers' = Answers \cup {Head(inbox).id}
           /\ Running' = Running /\ InRing' = InRing
<1>1. /\ ServerType /\ Say(ReplyOf("refused", Head(inbox).id)) /\ Reading("call") /\ Consume
      /\ UNCHANGED <<ringVars, workerVars>>
  BY DEF ServerInv, RefuseCall
<1>2. Head(inbox).id \in Nat
  BY <1>1, ConsumeEffect, MessageFields
<1>3. ReplyOf("refused", Head(inbox).id) \in Reply
  BY <1>2 DEF ReplyOf, Reply
<1>4. /\ Len(outbox') = Len(outbox) + 1 /\ Len(outbox) \in Nat
      /\ \A k \in 1..Len(outbox) : outbox'[k] = outbox[k]
      /\ outbox'[Len(outbox) + 1] = ReplyOf("refused", Head(inbox).id)
  BY <1>1, <1>3, SayEffect
<1>5. outbox'[Len(outbox) + 1].type = "refused" /\ outbox'[Len(outbox) + 1].id = Head(inbox).id
  BY <1>4 DEF ReplyOf
<1>6. 1..Len(outbox') = 1..Len(outbox) \cup {Len(outbox) + 1}
  BY <1>4
<1>7. Answers' = Answers \cup {Head(inbox).id}
  BY <1>4, <1>5, <1>6 DEF Answers
<1>8. Running' = Running /\ InRing' = InRing
  BY <1>1 DEF Running, InRing, Busy, Occupied, ringVars, workerVars
<1> QED BY <1>7, <1>8

LEMMA MarkMoves ==
    ASSUME ServerInv, CancelCall \/ EndScope \/ Stop \/ Exit
    PROVE  Answers' = Answers /\ Running' = Running /\ InRing' = InRing
<1>1. ServerType
  BY DEF ServerInv
<1>2. Occupied' = Occupied /\ job' = job
  BY DEF CancelCall, EndScope, Stop, Exit, ringVars, workerVars, Occupied
<1>3. ring' = ring \/ \E X : Marked(X)
  BY DEF CancelCall, EndScope, Stop, Exit, ringVars
<1>4. \A k \in Occupied : ring'[k].id = ring[k].id
  BY <1>1, <1>3, MarkedEffect, OccupiedPlaces
<1>5. InRing' = InRing
  BY <1>2, <1>4 DEF InRing
<1>6. thread' = thread \/ thread' = Woken
  BY DEF CancelCall, EndScope, Stop, Exit, workerVars
<1>7. \A w \in Threads : Busy(w)' <=> Busy(w)
  BY <1>1, <1>6, WokenEffect DEF Busy
<1>8. Running' = Running
  BY <1>2, <1>7 DEF Running
<1>9. Answers' = Answers
  <2>1. CASE EndScope
    <3>1. Say(ReplyOf("scope_ended", Head(inbox).id)) /\ Reading("scope_end") /\ Consume
      BY <2>1 DEF EndScope
    <3>2. Head(inbox).id \in Nat
      BY <1>1, <3>1, ConsumeEffect, MessageFields
    <3>3. ReplyOf("scope_ended", Head(inbox).id) \in Reply
      BY <3>2 DEF ReplyOf, Reply
    <3>4. /\ Len(outbox') = Len(outbox) + 1 /\ Len(outbox) \in Nat
          /\ \A k \in 1..Len(outbox) : outbox'[k] = outbox[k]
          /\ outbox'[Len(outbox) + 1].type = "scope_ended"
      BY <1>1, <3>1, <3>3, SayEffect DEF ReplyOf
    <3>5. 1..Len(outbox') = 1..Len(outbox) \cup {Len(outbox) + 1}
      BY <3>4
    <3> QED BY <3>4, <3>5 DEF Answers
  <2>2. CASE CancelCall \/ Stop \/ Exit
    BY <2>2 DEF CancelCall, Stop, Exit, Answers
  <2> QED BY <2>1, <2>2
<1> QED BY <1>5, <1>8, <1>9

LEMMA TakeMoves ==
    ASSUME ServerInv, OnePlace, NEW w \in Threads, TakeCall(w)
    PROVE  /\ ring[head].id \in InRing /\ InRing' = InRing \ {ring[head].id}
           /\ Running' = Running \cup {ring[head].id}
           /\ Answers' = Answers
           /\ Busy(w)' /\ ~Busy(w) /\ job'[w] = ring[head]
           /\ \A v \in Threads \ {w} : (Busy(v)' <=> Busy(v)) /\ job'[v] = job[v]
<1>1. /\ ServerType /\ RingAgrees /\ thread \in [Threads -> Where] /\ job \in [Threads -> Entry]
  BY DEF ServerInv, ServerType, Where
<1>2. head \in Occupied /\ Occupied' = Occupied \ {head} /\ ring' = ring
  BY <1>1, TakeEffect DEF TakeCall
<1>3. /\ thread[w] = "awake" /\ thread' = [thread EXCEPT ![w] = "running"]
      /\ job' = [job EXCEPT ![w] = ring[head]] /\ outbox' = outbox
  BY DEF TakeCall
<1>4. /\ Busy(w)' /\ ~Busy(w) /\ job'[w] = ring[head]
      /\ \A v \in Threads \ {w} : (Busy(v)' <=> Busy(v)) /\ job'[v] = job[v]
  BY <1>1, <1>3 DEF Busy
<1>5. Running' = Running \cup {ring[head].id}
  BY <1>4 DEF Running
<1>6. \A k \in Occupied : k # head => ring[k].id # ring[head].id
  BY <1>2 DEF OnePlace
<1>7. ring[head].id \in InRing /\ InRing' = InRing \ {ring[head].id}
  BY <1>2, <1>6 DEF InRing
<1> QED BY <1>3, <1>4, <1>5, <1>7 DEF Answers

LEMMA AnswerMoves ==
    ASSUME ServerInv, OnePlace, NEW w \in Threads, AnswerCall(w)
    PROVE  /\ job[w].id \in Running /\ Running' = Running \ {job[w].id}
           /\ InRing' = InRing /\ Answers' = Answers \cup {job[w].id}
           /\ \A v \in Threads : (Busy(v)' => Busy(v)) /\ job'[v] = job[v]
<1>1. /\ ServerType /\ thread \in [Threads -> Where] /\ job \in [Threads -> Entry]
  BY DEF ServerInv, ServerType, Where
<1>2. /\ Busy(w) /\ Say(ReplyOf("answer", job[w].id)) /\ thread' = [thread EXCEPT ![w] = "done"]
      /\ UNCHANGED <<ringVars, job>>
  BY DEF AnswerCall
<1>3. \A v \in Threads : (Busy(v)' <=> Busy(v) /\ v # w) /\ job'[v] = job[v]
  BY <1>1, <1>2 DEF Busy
<1>4. \A v \in Threads : Busy(v) /\ v # w => job[v].id # job[w].id
  BY <1>2 DEF OnePlace
<1>5. job[w].id \in Running /\ Running' = Running \ {job[w].id}
  BY <1>2, <1>3, <1>4 DEF Running
<1>6. InRing' = InRing
  BY <1>2 DEF InRing, Occupied, ringVars
<1>7. job[w].id \in Nat
  BY <1>1 DEF Entry
<1>8. ReplyOf("answer", job[w].id) \in Reply
  BY <1>7 DEF ReplyOf, Reply
<1>9. /\ Len(outbox') = Len(outbox) + 1 /\ Len(outbox) \in Nat
      /\ \A k \in 1..Len(outbox) : outbox'[k] = outbox[k]
      /\ outbox'[Len(outbox) + 1] = ReplyOf("answer", job[w].id)
  BY <1>1, <1>2, <1>8, SayEffect
<1>10. outbox'[Len(outbox) + 1].type = "answer" /\ outbox'[Len(outbox) + 1].id = job[w].id
  BY <1>9 DEF ReplyOf
<1>11. 1..Len(outbox') = 1..Len(outbox) \cup {Len(outbox) + 1}
  BY <1>9
<1>12. Answers' = Answers \cup {job[w].id}
  BY <1>9, <1>10, <1>11 DEF Answers
<1> QED BY <1>3, <1>5, <1>6, <1>12

LEMMA RestMoves ==
    ASSUME ServerInv, NEW w \in Threads, Sleep(w) \/ EndJob(w) \/ Leave(w)
    PROVE  /\ Running' = Running /\ InRing' = InRing /\ Answers' = Answers
           /\ \A v \in Threads : (Busy(v)' <=> Busy(v)) /\ (Busy(v) => job'[v] = job[v])
<1>1. /\ ServerType /\ thread \in [Threads -> Where] /\ job \in [Threads -> Entry]
  BY DEF ServerInv, ServerType, Where
<1>2. UNCHANGED ringVars /\ outbox' = outbox
  BY DEF Sleep, EndJob, Leave
<1>3. \A v \in Threads : (Busy(v)' <=> Busy(v)) /\ (Busy(v) => job'[v] = job[v])
  <2>1. CASE Sleep(w) \/ Leave(w)
    BY <1>1, <2>1 DEF Sleep, Leave, Busy
  <2>2. CASE EndJob(w)
    BY <1>1, <2>2, WokenEffect DEF EndJob, Busy
  <2> QED BY <2>1, <2>2
<1>4. Running' = Running
  BY <1>3 DEF Running
<1> QED BY <1>2, <1>3, <1>4 DEF InRing, Answers, Occupied, ringVars

-----------------------------------------------------------------------------
(* An id stays in one place.                                                 *)

LEMMA ReadOnePlace ==
    ASSUME ServerInv, OnePlace, Read, UNCHANGED clientVars
    PROVE  OnePlace'
<1>0. ServerType /\ RingAgrees /\ sent' = sent /\ replied' = replied
  BY DEF ServerInv, clientVars
<1>1. CASE Enqueue \/ RefuseCall
  <2> DEFINE x == Head(inbox).id
  <2>1. Reading("call") /\ Consume
    BY <1>1 DEF Enqueue, RefuseCall
  <2>2. /\ Head(inbox) = inbox[1] /\ inbox[1].type = "call" /\ Len(inbox) \in Nat \ {0}
        /\ Len(inbox') = Len(inbox) - 1
        /\ \A k \in 1..Len(inbox') : inbox'[k] = inbox[k + 1]
    BY <1>0, <2>1, ConsumeEffect
  <2>3. x \in 1..sent \ (InRing \cup Running \cup Answers \cup replied)
    BY <2>2 DEF OnePlace
  <2>4. /\ Running' = Running
        /\ \/ InRing' = InRing \cup {x} /\ Answers' = Answers
           \/ InRing' = InRing /\ Answers' = Answers \cup {x}
    BY <1>1, EnqueueMoves, RefuseMoves
  <2>5. \A v \in Threads : (Busy(v)' => Busy(v)) /\ job'[v] = job[v]
    BY <1>0, <1>1, SignalEffect DEF Enqueue, RefuseCall, workerVars, Busy
  <2>6. ASSUME NEW j \in Occupied', NEW k \in Occupied', j # k
        PROVE  ring'[j].id # ring'[k].id
    <3>1. CASE RefuseCall
      BY <2>6, <3>1 DEF RefuseCall, ringVars, Occupied, OnePlace
    <3>2. CASE Enqueue
      <4>1. /\ Occupied' = Occupied \cup {tail} /\ tail \notin Occupied /\ ring'[tail].id = x
            /\ \A l \in Occupied : ring'[l].id = ring[l].id
        BY <1>0, <3>2, EnqueueEffect, OccupiedPlaces
      <4>2. \A l \in Occupied : ring[l].id # x
        BY <2>3 DEF InRing
      <4> QED BY <2>6, <4>1, <4>2 DEF OnePlace
    <3> QED BY <1>1, <3>1, <3>2
  <2>7. ASSUME NEW k \in 1..Len(inbox'), inbox'[k].type = "call"
        PROVE  inbox'[k].id \in 1..sent' \ (InRing \cup Running \cup Answers \cup replied)'
    <3>1. k + 1 \in 1..Len(inbox) /\ k + 1 # 1 /\ inbox'[k] = inbox[k + 1] /\ 1 \in 1..Len(inbox)
      BY <2>2
    <3>2. inbox[k + 1].id # x
      BY <2>2, <2>7, <3>1 DEF OnePlace
    <3>3. inbox[k + 1].id \in 1..sent \ (InRing \cup Running \cup Answers \cup replied)
      BY <2>7, <3>1 DEF OnePlace
    <3> QED BY <1>0, <2>4, <3>1, <3>2, <3>3
  <2>8. ASSUME NEW j \in 1..Len(inbox'), NEW k \in 1..Len(inbox'),
               inbox'[j].type = "call", inbox'[k].type = "call", j # k
        PROVE  inbox'[j].id # inbox'[k].id
    <3>1. /\ j + 1 \in 1..Len(inbox) /\ inbox'[j] = inbox[j + 1]
          /\ k + 1 \in 1..Len(inbox) /\ inbox'[k] = inbox[k + 1] /\ j + 1 # k + 1
      BY <2>2, <2>8
    <3> QED BY <2>8, <3>1 DEF OnePlace
  <2> HIDE DEF x
  <2>9. (InRing \cup Running \cup Answers \cup replied \subseteq 1..sent)' /\ (InRing \cap Running = {})'
    BY <1>0, <2>3, <2>4 DEF OnePlace
  <2>10. \A v, w \in Threads : Busy(v)' /\ Busy(w)' /\ v # w => job'[v].id # job'[w].id
    BY <2>5 DEF OnePlace
  <2> QED BY <2>6, <2>7, <2>8, <2>9, <2>10 DEF OnePlace
<1>2. CASE CancelCall \/ EndScope \/ Stop \/ Exit
  <2>1. Answers' = Answers /\ Running' = Running /\ InRing' = InRing
    BY <1>2, MarkMoves
  <2>2. \/ inbox' = inbox
        \/ /\ Len(inbox) \in Nat \ {0} /\ Len(inbox') = Len(inbox) - 1
           /\ \A k \in 1..Len(inbox') : inbox'[k] = inbox[k + 1]
    BY <1>0, <1>2, ConsumeEffect DEF CancelCall, EndScope, Stop, Exit
  <2>3. \A v \in Threads : (Busy(v)' => Busy(v)) /\ job'[v] = job[v]
    <3>1. job' = job /\ (thread' = thread \/ thread' = Woken)
      BY <1>2 DEF CancelCall, EndScope, Stop, Exit, workerVars
    <3> QED BY <1>0, <3>1, WokenEffect DEF Busy
  <2>4. Occupied' = Occupied /\ \A k \in Occupied : ring'[k].id = ring[k].id
    <3>1. ring' = ring \/ \E X : Marked(X)
      BY <1>2 DEF CancelCall, EndScope, Stop, Exit, ringVars
    <3>2. Occupied' = Occupied
      BY <1>2 DEF CancelCall, EndScope, Stop, Exit, ringVars, Occupied
    <3> QED BY <1>0, <3>1, <3>2, MarkedEffect, OccupiedPlaces
  <2>5. ASSUME NEW k \in 1..Len(inbox'), inbox'[k].type = "call"
        PROVE  inbox'[k].id \in 1..sent' \ (InRing \cup Running \cup Answers \cup replied)'
    BY <1>0, <2>1, <2>2, <2>5 DEF OnePlace
  <2>6. ASSUME NEW j \in 1..Len(inbox'), NEW k \in 1..Len(inbox'),
               inbox'[j].type = "call", inbox'[k].type = "call", j # k
        PROVE  inbox'[j].id # inbox'[k].id
    <3>1. PICK d \in {0, 1} : /\ j + d \in 1..Len(inbox) /\ inbox'[j] = inbox[j + d]
                              /\ k + d \in 1..Len(inbox) /\ inbox'[k] = inbox[k + d]
                              /\ j + d # k + d
      BY <2>2, <2>6
    <3> QED BY <2>6, <3>1 DEF OnePlace
  <2>7. \A j, k \in Occupied' : j # k => ring'[j].id # ring'[k].id
    BY <2>4 DEF OnePlace
  <2>8. \A v, w \in Threads : Busy(v)' /\ Busy(w)' /\ v # w => job'[v].id # job'[w].id
    BY <2>3 DEF OnePlace
  <2>9. (InRing \cup Running \cup Answers \cup replied \subseteq 1..sent)' /\ (InRing \cap Running = {})'
    BY <1>0, <2>1 DEF OnePlace
  <2> QED BY <2>5, <2>6, <2>7, <2>8, <2>9 DEF OnePlace
<1> QED BY <1>1, <1>2 DEF Read

LEMMA WorkOnePlace ==
    ASSUME ServerInv, OnePlace, NEW w \in Threads, Work(w) \/ AnswerCall(w), UNCHANGED clientVars
    PROVE  OnePlace'
<1>0. ServerType /\ RingAgrees /\ sent' = sent /\ replied' = replied
  BY DEF ServerInv, clientVars
<1>1. inbox' = inbox /\ ring' = ring /\ Occupied' \subseteq Occupied
  BY <1>0, TakeEffect DEF Work, Sleep, TakeCall, EndJob, Leave, AnswerCall, ringVars, Occupied
<1>2. /\ (InRing \cup Running \cup Answers)' = InRing \cup Running \cup Answers
      /\ InRing' \cap Running' = {}
      /\ \A v, u \in Threads : Busy(v)' /\ Busy(u)' /\ v # u => job'[v].id # job'[u].id
  <2>1. CASE TakeCall(w)
    <3>1. \A v \in Threads : Busy(v) => job[v].id # ring[head].id
      BY <2>1, TakeMoves DEF OnePlace, Running
    <3> QED BY <2>1, <3>1, TakeMoves DEF OnePlace
  <2>2. CASE AnswerCall(w)
    BY <2>2, AnswerMoves DEF OnePlace
  <2>3. CASE Sleep(w) \/ EndJob(w) \/ Leave(w)
    BY <2>3, RestMoves DEF OnePlace
  <2> QED BY <2>1, <2>2, <2>3 DEF Work
<1>3. \A j, k \in Occupied' : j # k => ring'[j].id # ring'[k].id
  BY <1>1 DEF OnePlace
<1>4. (InRing \cup Running \cup Answers \cup replied \subseteq 1..sent)'
  BY <1>0, <1>2 DEF OnePlace
<1>5. \A k \in 1..Len(inbox') : inbox'[k].type = "call" =>
         inbox'[k].id \in 1..sent' \ (InRing \cup Running \cup Answers \cup replied)'
  BY <1>0, <1>1, <1>2 DEF OnePlace
<1>6. \A j, k \in 1..Len(inbox') :
         inbox'[j].type = "call" /\ inbox'[k].type = "call" /\ j # k => inbox'[j].id # inbox'[k].id
  BY <1>1 DEF OnePlace
<1> QED BY <1>2, <1>3, <1>4, <1>5, <1>6 DEF OnePlace

-----------------------------------------------------------------------------
(* A mark stays with its call.                                               *)

LEMMA MarksStay ==
    ASSUME ServerInv, NEW id, AllMarked(id), ServerNext,
           ~(Enqueue /\ Head(inbox).id = id)
    PROVE  AllMarked(id)'
<1>0. /\ ServerType /\ RingAgrees /\ thread \in [Threads -> Where] /\ job \in [Threads -> Entry]
      /\ flag \in [Threads -> BOOLEAN] /\ Occupied \subseteq Entries
  BY OccupiedPlaces DEF ServerInv, ServerType, Where
<1>1. CASE Enqueue
  <2>1. /\ Occupied' = Occupied \cup {tail} /\ ring'[tail].id # id
        /\ \A k \in Occupied : ring'[k] = ring[k]
    BY <1>0, <1>1, EnqueueEffect
  <2>2. job' = job /\ flag' = flag /\ \A v \in Threads : Busy(v)' <=> Busy(v)
    BY <1>0, <1>1, SignalEffect DEF Enqueue, Busy
  <2> QED BY <2>1, <2>2 DEF AllMarked
<1>2. CASE RefuseCall \/ CancelCall \/ EndScope \/ Stop \/ Exit
  <2>1. /\ Occupied' = Occupied /\ job' = job
        /\ thread' = thread \/ thread' = Woken
        /\ (ring' = ring /\ flag' = flag) \/ \E X : Marked(X)
    BY <1>2 DEF RefuseCall, CancelCall, EndScope, Stop, Exit, ringVars, workerVars, Occupied
  <2>2. \A k \in Occupied : ring'[k].id = ring[k].id /\ (ring[k].cancelled => ring'[k].cancelled)
    BY <1>0, <2>1, MarkedEffect
  <2>3. \A v \in Threads : (Busy(v)' <=> Busy(v)) /\ (flag[v] => flag'[v])
    BY <1>0, <2>1, MarkedEffect, WokenEffect DEF Busy
  <2> QED BY <2>1, <2>2, <2>3 DEF AllMarked
<1>3. ASSUME NEW w \in Threads, Work(w) \/ AnswerCall(w)
      PROVE  AllMarked(id)'
  <2>1. CASE TakeCall(w)
    <3>1. /\ head \in Occupied /\ Occupied' \subseteq Occupied /\ ring' = ring
      BY <1>0, <2>1, TakeEffect DEF TakeCall
    <3>2. \A v \in Threads : Busy(v)' => \/ v = w /\ job'[v] = ring[head]
                                         \/ Busy(v) /\ job'[v] = job[v] /\ flag'[v] = flag[v]
      BY <1>0, <2>1 DEF TakeCall, Busy
    <3> QED BY <3>1, <3>2 DEF AllMarked
  <2>2. CASE Sleep(w) \/ Leave(w) \/ AnswerCall(w)
    <3>1. /\ UNCHANGED <<ring, head, queued, job, flag>>
          /\ \A v \in Threads : Busy(v)' => Busy(v)
      BY <1>0, <2>2 DEF Sleep, Leave, AnswerCall, Busy, ringVars
    <3> QED BY <3>1 DEF AllMarked, Occupied
  <2>3. CASE EndJob(w)
    <3>1. /\ UNCHANGED <<ring, head, queued>>
          /\ \A v \in Threads : Busy(v)' => Busy(v) /\ job'[v] = job[v] /\ flag'[v] = flag[v]
      BY <1>0, <2>3, WokenEffect DEF EndJob, Busy, ringVars
    <3> QED BY <3>1 DEF AllMarked, Occupied
  <2> QED BY <1>3, <2>1, <2>2, <2>3 DEF Work
<1> QED BY <1>1, <1>2, <1>3 DEF ServerNext, Read

(* What the reader marks is marked.                                          *)
LEMMA MarkedMarks ==
    ASSUME ServerType, NEW ids, Marked(ids), UNCHANGED <<head, queued, job>>,
           thread' = thread \/ thread' = Woken,
           NEW id \in ids
    PROVE  AllMarked(id)'
<1>1. Occupied' = Occupied /\ Occupied \subseteq Entries
  BY OccupiedPlaces DEF Occupied
<1>2. \A k \in Occupied : ring'[k].id = ring[k].id /\ (ring[k].id = id => ring'[k].cancelled)
  BY <1>1, MarkedEffect
<1>3. \A v \in Threads : (Busy(v)' => Busy(v)) /\ (Busy(v) /\ job[v].id = id => flag'[v])
  BY MarkedEffect, WokenEffect DEF Busy
<1> QED BY <1>1, <1>2, <1>3 DEF AllMarked

LEMMA CancelsGoOn ==
    ASSUME ServerInv, CancelsHold, ServerNext, UNCHANGED clientVars
    PROVE  CancelsHold'
<1>0. ServerType /\ cancels' = cancels
  BY DEF ServerInv, clientVars
<1> SUFFICES ASSUME NEW id \in cancels
             PROVE  /\ \A k \in 1..Len(inbox') :
                          inbox'[k].type = "call" /\ inbox'[k].id = id =>
                             \E j \in k + 1..Len(inbox') :
                                inbox'[j].type = "cancel" /\ inbox'[j].target = id
                    /\ (\A k \in 1..Len(inbox') : ~(inbox'[k].type = "cancel" /\ inbox'[k].target = id))
                          => AllMarked(id)'
  BY <1>0 DEF CancelsHold
<1>1. \A k \in 1..Len(inbox) : IsCall(k) /\ inbox[k].id = id => \E j \in k + 1..Len(inbox) : Cancels(j, id)
  BY DEF CancelsHold
<1>2. (\A k \in 1..Len(inbox) : ~Cancels(k, id)) => AllMarked(id)
  BY DEF CancelsHold
<1>3. \/ inbox' = inbox /\ ~Enqueue /\ ~CancelCall
      \/ /\ Len(inbox) \in Nat \ {0} /\ Len(inbox') = Len(inbox) - 1
         /\ \A k \in 1..Len(inbox') : inbox'[k] = inbox[k + 1]
         /\ Head(inbox) = inbox[1] /\ Reading(Head(inbox).type)
  <2>1. CASE Exit \/ \E w \in Threads : Work(w) \/ AnswerCall(w)
    <3>1. inbox' = inbox
      BY <2>1 DEF Exit, Work, Sleep, TakeCall, EndJob, Leave, AnswerCall
    <3>2. ASSUME Enqueue \/ CancelCall PROVE FALSE
      <4>1. \E type : Reading(type) /\ Consume
        BY <3>2 DEF Enqueue, CancelCall
      <4>2. Len(inbox') = Len(inbox) - 1 /\ Len(inbox) \in Nat
        BY <1>0, <4>1, ConsumeEffect
      <4> QED BY <3>1, <4>2
    <3> QED BY <3>1, <3>2
  <2>2. CASE Enqueue \/ RefuseCall \/ CancelCall \/ EndScope \/ Stop
    <3>1. \E type : Reading(type) /\ Consume
      BY <2>2 DEF Enqueue, RefuseCall, CancelCall, EndScope, Stop
    <3> QED BY <1>0, <3>1, ConsumeEffect DEF Reading
  <2> QED BY <2>1, <2>2 DEF ServerNext, Read
<1>4. \A k \in 1..Len(inbox') :
         inbox'[k].type = "call" /\ inbox'[k].id = id =>
            \E j \in k + 1..Len(inbox') : inbox'[j].type = "cancel" /\ inbox'[j].target = id
  <2> SUFFICES ASSUME NEW k \in 1..Len(inbox'), inbox'[k].type = "call", inbox'[k].id = id
               PROVE  \E j \in k + 1..Len(inbox') :
                         inbox'[j].type = "cancel" /\ inbox'[j].target = id
    OBVIOUS
  <2>1. CASE inbox' = inbox
    BY <1>1, <2>1
  <2>2. CASE inbox' # inbox
    <3>1. k + 1 \in 1..Len(inbox) /\ inbox'[k] = inbox[k + 1]
      BY <1>3, <2>2
    <3>2. PICK j \in (k + 1) + 1..Len(inbox) : Cancels(j, id)
      BY <1>1, <3>1
    <3>3. j - 1 \in k + 1..Len(inbox') /\ inbox'[j - 1] = inbox[j]
      BY <1>3, <2>2, <3>1, <3>2
    <3> QED BY <3>2, <3>3
  <2> QED BY <2>1, <2>2
<1>5. ASSUME \A k \in 1..Len(inbox') : ~(inbox'[k].type = "cancel" /\ inbox'[k].target = id)
      PROVE  AllMarked(id)'
  <2>1. CASE CancelCall /\ Head(inbox).target = id
    BY <1>0, <2>1, MarkedMarks DEF CancelCall
  <2>2. CASE ~(CancelCall /\ Head(inbox).target = id)
    <3>1. \A k \in 1..Len(inbox) : ~Cancels(k, id)
      <4> SUFFICES ASSUME NEW k \in 1..Len(inbox), Cancels(k, id) PROVE FALSE
        OBVIOUS
      <4>1. CASE inbox' = inbox
        BY <1>5, <4>1
      <4>2. CASE inbox' # inbox
        <5>1. k # 1 => k - 1 \in 1..Len(inbox') /\ inbox'[k - 1] = inbox[k]
          BY <1>3, <4>2
        <5>2. k = 1
          BY <1>5, <5>1
        <5>3. Head(inbox).type = "cancel" /\ Head(inbox).target = id
          BY <1>3, <4>2, <5>2
        <5>4. ~Enqueue /\ ~RefuseCall /\ ~EndScope /\ ~Stop
          BY <5>3 DEF Enqueue, RefuseCall, EndScope, Stop, Reading
        <5>5. ~Exit /\ \A w \in Threads : ~(Work(w) \/ AnswerCall(w))
          BY <4>2 DEF Exit, Work, Sleep, TakeCall, EndJob, Leave, AnswerCall
        <5> QED BY <2>2, <5>3, <5>4, <5>5 DEF ServerNext, Read
      <4> QED BY <4>1, <4>2
    <3>2. AllMarked(id)
      BY <1>2, <3>1
    <3>3. ~(Enqueue /\ Head(inbox).id = id)
      <4> SUFFICES ASSUME Enqueue, Head(inbox).id = id PROVE FALSE
        OBVIOUS
      <4>1. 1 \in 1..Len(inbox) /\ IsCall(1) /\ inbox[1].id = id
        BY <1>3 DEF Enqueue, Reading
      <4> QED BY <1>1, <3>1, <4>1
    <3> QED BY <3>2, <3>3, MarksStay
  <2> QED BY <2>1, <2>2
<1> QED BY <1>4, <1>5

LEMMA StopGoesOn ==
    ASSUME ServerInv, StopHolds, ServerNext
    PROVE  StopHolds'
<1>0. /\ ServerType /\ RingAgrees /\ thread \in [Threads -> Where] /\ queued \in Nat
      /\ Occupied \subseteq Entries
      /\ reader \in {"reading", "joining", "exited"} /\ reader # "exited"
  BY OccupiedPlaces, ServerAssumption DEF ServerInv, ServerType, Where, ServerNext
<1>1. stopping' <=> reader' # "reading"
  <2>1. CASE Stop \/ Exit
    BY <1>0, <2>1 DEF Stop, Exit, StopHolds
  <2>2. CASE Enqueue \/ RefuseCall \/ CancelCall \/ EndScope
    BY <2>2 DEF Enqueue, RefuseCall, CancelCall, EndScope, StopHolds
  <2>3. CASE \E w \in Threads : Work(w) \/ AnswerCall(w)
    BY <2>3 DEF Work, Sleep, TakeCall, EndJob, Leave, AnswerCall, StopHolds
  <2> QED BY <2>1, <2>2, <2>3 DEF ServerNext, Read
<1>2. ASSUME stopping', NEW id \in Nat
      PROVE  AllMarked(id)'
  <2>1. CASE Stop
    BY <1>0, <2>1, MarkedMarks DEF Stop
  <2>2. CASE ~Stop
    <3>1. stopping
      BY <1>2, <2>2 DEF ServerNext, Read, Enqueue, RefuseCall, CancelCall, EndScope, Exit,
                        Work, Sleep, TakeCall, EndJob, Leave, AnswerCall
    <3>2. ~Enqueue
      BY <3>1 DEF StopHolds, Enqueue, Reading
    <3>3. AllMarked(id)
      BY <3>1 DEF StopHolds, AllMarked
    <3> QED BY <3>2, <3>3, MarksStay
  <2> QED BY <2>1, <2>2
<1>3. ASSUME stopping'
      PROVE  /\ \A k \in Occupied' : ring'[k].cancelled
             /\ \A w \in Threads : Busy(w)' => flag'[w] \/ job'[w].cancelled
  <2>1. ServerType'
    BY ServerStep DEF ServerInv
  <2>2. \A k \in Occupied' : ring'[k] \in Entry
    <3>1. Occupied' \subseteq Entries
      BY <2>1, OccupiedNext
    <3> QED BY <2>1, <3>1 DEF ServerType, Entries
  <2>3. \A w \in Threads : job'[w] \in Entry
    BY <2>1 DEF ServerType
  <2>4. /\ \A k \in Occupied' : ring'[k].id \in Nat
        /\ \A w \in Threads : job'[w].id \in Nat
    BY <2>2, <2>3 DEF Entry
  <2> QED BY <1>2, <1>3, <2>4 DEF AllMarked
<1>4. ASSUME NEW w \in Threads, thread'[w] = "gone"
      PROVE  stopping' /\ queued' = 0
  <2>1. CASE Leave(w)
    BY <2>1 DEF Leave, ringVars
  <2>2. CASE ~Leave(w)
    <3>1. thread[w] = "gone"
      <4>1. CASE Enqueue
        BY <1>0, <1>4, <4>1, SignalEffect DEF Enqueue
      <4>2. CASE RefuseCall \/ CancelCall \/ EndScope \/ Exit
        BY <1>4, <4>2 DEF RefuseCall, CancelCall, EndScope, Exit, workerVars
      <4>3. CASE Stop
        BY <1>0, <1>4, <4>3, WokenEffect DEF Stop
      <4>4. ASSUME NEW v \in Threads, Sleep(v) \/ TakeCall(v) \/ AnswerCall(v) \/ Leave(v)
            PROVE  thread[w] = "gone"
        BY <1>0, <1>4, <2>2, <4>4 DEF Sleep, TakeCall, AnswerCall, Leave
      <4>5. ASSUME NEW v \in Threads, EndJob(v)
            PROVE  thread[w] = "gone"
        BY <1>0, <1>4, <4>5, WokenEffect DEF EndJob
      <4> QED BY <4>1, <4>2, <4>3, <4>4, <4>5 DEF ServerNext, Read, Work
    <3>2. stopping /\ queued = 0
      BY <3>1 DEF StopHolds
    <3>3. ~Enqueue
      BY <3>2 DEF StopHolds, Enqueue, Reading
    <3>4. \A v \in Threads : ~TakeCall(v)
      BY <3>2 DEF TakeCall
    <3>5. queued' = queued
      BY <3>3, <3>4 DEF ServerNext, Read, RefuseCall, CancelCall, EndScope, Stop, Exit, Work, Sleep,
                        EndJob, Leave, AnswerCall, ringVars
    <3>6. stopping'
      BY <3>2, <3>3, <3>4 DEF ServerNext, Read, RefuseCall, CancelCall, EndScope, Stop, Exit, Work,
                              Sleep, EndJob, Leave, AnswerCall
    <3> QED BY <3>2, <3>5, <3>6
  <2> QED BY <2>1, <2>2
<1> QED BY <1>1, <1>3, <1>4 DEF StopHolds

-----------------------------------------------------------------------------
(* The invariant is inductive.                                               *)

LEMMA ProcessKeepsInv ==
    ASSUME ServiceInv, ServerTurn
    PROVE  ServiceInv'
<1>1. ServerInv' /\ NoSleepingWork' /\ CancelsHold' /\ StopHolds'
  BY ServerStep, NobodyOversleeps, CancelsGoOn, StopGoesOn DEF ServiceInv, ServerTurn
<1>2. OnePlace'
  BY ReadOnePlace, WorkOnePlace DEF ServiceInv, ServerTurn, ServerNext
<1>3. ClientType'
  BY DEF ServiceInv, ServerTurn, ClientType, clientVars
<1> QED BY <1>1, <1>2, <1>3 DEF ServiceInv

LEMMA SubmitKeepsInv ==
    ASSUME ServiceInv, SubmitCall \/ SubmitCancel \/ SubmitScopeEnd \/ Close
    PROVE  ServiceInv'
<1> DEFINE m == inbox'[Len(inbox) + 1]
<1>0. ServerInv /\ sent \in Nat /\ MaxSent \in Nat /\ replied' = replied
  BY ServiceAssumption DEF ServiceInv, ClientType, SubmitCall, SubmitCancel, SubmitScopeEnd, Close, clientVars
<1>1. ASSUME NEW l \in Message, Submit(l), l.type = "call" => l.scope \in Scopes
      PROVE  /\ ServerInv' /\ Len(inbox) \in Nat /\ Len(inbox') = Len(inbox) + 1
             /\ \A k \in 1..Len(inbox) : inbox'[k] = inbox[k]
             /\ m = l
  BY <1>0, <1>1, MessageSent DEF Submit
<1>2. /\ ServerInv' /\ Len(inbox) \in Nat /\ Len(inbox') = Len(inbox) + 1
      /\ \A k \in 1..Len(inbox) : inbox'[k] = inbox[k]
      /\ \/ m.type = "call" /\ m.id = sent + 1 /\ sent < MaxSent /\ sent' = sent + 1 /\ cancels' = cancels
         \/ /\ m.type = "cancel" /\ m.target \in 1..sent /\ cancels' = cancels \cup {m.target}
            /\ sent' = sent
         \/ m.type \in {"scope_end", "end"} /\ sent' = sent /\ cancels' = cancels
  <2>1. CASE SubmitCall
    <3>1. PICK scope \in Scopes : Submit(CallOf(sent + 1, scope))
      BY <2>1 DEF SubmitCall
    <3>2. CallOf(sent + 1, scope) \in Message
      BY <1>0, Sendable
    <3> QED BY <1>1, <2>1, <3>1, <3>2 DEF SubmitCall, CallOf
  <2>2. CASE SubmitCancel
    <3>1. PICK id \in 1..sent \ cancels : Submit(CancelOf(id)) /\ cancels' = cancels \cup {id}
      BY <2>2 DEF SubmitCancel
    <3>2. CancelOf(id) \in Message
      BY <1>0, <3>1, Sendable
    <3> QED BY <1>1, <2>2, <3>1, <3>2 DEF SubmitCancel, CancelOf
  <2>3. CASE SubmitScopeEnd
    <3>1. PICK scope \in Scopes : Submit(ScopeEndOf(scope))
      BY <2>3 DEF SubmitScopeEnd
    <3>2. ScopeEndOf(scope) \in Message
      BY Sendable
    <3> QED BY <1>1, <2>3, <3>1, <3>2 DEF SubmitScopeEnd, ScopeEndOf, clientVars
  <2>4. CASE Close
    <3>1. Submit(EndOf) /\ EndOf \in Message
      BY <2>4 DEF Close, EndOf, Message
    <3> QED BY <1>1, <2>4, <3>1 DEF Close, EndOf
  <2> QED BY <2>1, <2>2, <2>3, <2>4
<1> HIDE DEF m
<1>3. UNCHANGED <<outbox, ring, head, tail, queued, thread, job, flag, reader, stopping>>
  BY DEF SubmitCall, SubmitCancel, SubmitScopeEnd, Close, Submit, ringVars, workerVars
<1>4. Occupied' = Occupied /\ \A w \in Threads : Busy(w)' <=> Busy(w)
  BY <1>3 DEF Occupied, Busy
<1>5. InRing' = InRing /\ Running' = Running /\ Answers' = Answers
  BY <1>3, <1>4 DEF InRing, Running, Answers
<1>6. NoSleepingWork' /\ StopHolds'
  BY <1>3, <1>4 DEF ServiceInv, NoSleepingWork, Asleep, StopHolds
<1>7. ClientType' /\ sent' \in Nat /\ sent \in 0..sent'
  <2>1. closed' \in BOOLEAN
    BY DEF ServiceInv, ClientType, SubmitCall, SubmitCancel, SubmitScopeEnd, Close, clientVars
  <2>2. ClientType /\ cancels \subseteq 1..sent /\ sent \in 0..MaxSent
    BY DEF ServiceInv, ClientType
  <2>3. sent' \in 0..MaxSent /\ sent \in 0..sent'
    BY <1>0, <1>2, <2>2
  <2>4. cancels' \subseteq 1..sent'
    <3>1. 1..sent \subseteq 1..sent' /\ cancels \subseteq 1..sent'
      BY <2>2, <2>3
    <3>2. cancels' = cancels \/ (cancels' = cancels \cup {m.target} /\ m.target \in 1..sent)
      BY <1>2
    <3> QED BY <3>1, <3>2
  <2> QED BY <1>0, <2>1, <2>3, <2>4 DEF ClientType
<1>8. \A k \in 1..Len(inbox') : k \in 1..Len(inbox) \/ (k = Len(inbox) + 1 /\ inbox'[k] = m)
  BY <1>2 DEF m
<1>9. OnePlace'
  <2>0. OnePlace
    BY DEF ServiceInv
  <2>1. ASSUME NEW k \in 1..Len(inbox'), inbox'[k].type = "call"
        PROVE  inbox'[k].id \in 1..sent' \ (InRing \cup Running \cup Answers \cup replied)'
    <3>1. CASE k \in 1..Len(inbox)
      BY <1>0, <1>2, <1>5, <1>7, <2>0, <2>1, <3>1 DEF OnePlace
    <3>2. CASE inbox'[k] = m
      BY <1>0, <1>2, <1>5, <1>7, <2>0, <2>1, <3>2 DEF OnePlace
    <3> QED BY <1>8, <3>1, <3>2
  <2>2. ASSUME NEW j \in 1..Len(inbox'), NEW k \in 1..Len(inbox'),
               inbox'[j].type = "call", inbox'[k].type = "call", j # k
        PROVE  inbox'[j].id # inbox'[k].id
    <3>1. \A i \in 1..Len(inbox) : IsCall(i) => inbox[i].id \in 1..sent
      BY <2>0 DEF OnePlace
    <3>2. m.type = "call" => m.id \notin 1..sent
      BY <1>0, <1>2
    <3> QED BY <1>2, <1>8, <2>0, <2>2, <3>1, <3>2 DEF OnePlace
  <2>3. (InRing \cup Running \cup Answers \cup replied \subseteq 1..sent)'
    BY <1>0, <1>5, <1>7, <2>0 DEF OnePlace
  <2> QED BY <1>3, <1>4, <1>5, <2>0, <2>1, <2>2, <2>3 DEF OnePlace
<1>10. CancelsHold'
  <2>0. CancelsHold /\ OnePlace
    BY DEF ServiceInv
  <2> SUFFICES ASSUME NEW id \in cancels'
               PROVE  /\ \A k \in 1..Len(inbox') :
                            inbox'[k].type = "call" /\ inbox'[k].id = id =>
                               \E j \in k + 1..Len(inbox') :
                                  inbox'[j].type = "cancel" /\ inbox'[j].target = id
                      /\ (\A k \in 1..Len(inbox') : ~(inbox'[k].type = "cancel" /\ inbox'[k].target = id))
                            => AllMarked(id)'
    BY DEF CancelsHold
  <2>1. inbox'[Len(inbox) + 1] = m /\ Len(inbox) + 1 \in 1..Len(inbox')
    BY <1>2 DEF m
  <2>2. CASE m.type = "cancel" /\ m.target = id
    <3>1. \A k \in 1..Len(inbox') : inbox'[k].type = "call" => Len(inbox) + 1 \in k + 1..Len(inbox')
      BY <1>2, <1>8, <2>1, <2>2
    <3> QED BY <2>1, <2>2, <3>1
  <2>3. CASE ~(m.type = "cancel" /\ m.target = id)
    <3>1. id \in cancels /\ id \in 1..sent
      BY <1>2, <2>3 DEF ServiceInv, ClientType
    <3>2. m.type = "call" => m.id # id
      BY <1>0, <1>2, <3>1
    <3>3. ASSUME NEW k \in 1..Len(inbox'), inbox'[k].type = "call", inbox'[k].id = id
          PROVE  \E j \in k + 1..Len(inbox') : inbox'[j].type = "cancel" /\ inbox'[j].target = id
      <4>1. k \in 1..Len(inbox) /\ IsCall(k) /\ inbox[k].id = id
        BY <1>2, <1>8, <3>2, <3>3
      <4>2. PICK j \in k + 1..Len(inbox) : Cancels(j, id)
        BY <2>0, <3>1, <4>1 DEF CancelsHold
      <4>3. j \in k + 1..Len(inbox') /\ inbox'[j] = inbox[j]
        BY <1>2, <4>1, <4>2
      <4> QED BY <4>2, <4>3
    <3>4. ASSUME \A k \in 1..Len(inbox') : ~(inbox'[k].type = "cancel" /\ inbox'[k].target = id)
          PROVE  AllMarked(id)'
      <4>1. \A k \in 1..Len(inbox) : ~Cancels(k, id)
        BY <1>2, <3>4
      <4>2. AllMarked(id)
        BY <2>0, <3>1, <4>1 DEF CancelsHold
      <4> QED BY <1>3, <1>4, <4>2 DEF AllMarked
    <3> QED BY <3>3, <3>4
  <2> QED BY <2>2, <2>3
<1> QED BY <1>2, <1>6, <1>7, <1>9, <1>10 DEF ServiceInv

LEMMA ReceiveKeepsAnswers ==
    ASSUME ServerInv, TakeReply
    PROVE  (Answers \cup replied)' = Answers \cup replied
<1>1. /\ Head(outbox) = outbox[1] /\ Len(outbox) \in Nat \ {0} /\ Len(outbox') = Len(outbox) - 1
      /\ \A k \in 1..Len(outbox') : outbox'[k] = outbox[k + 1]
  BY ReplyRead DEF TakeReply
<1> DEFINE said == IF outbox[1].type = "scope_ended" THEN {} ELSE {outbox[1].id}
<1>2. replied' = replied \cup said
  BY <1>1 DEF TakeReply
<1>3. Answers = Answers' \cup said
  <2>1. ASSUME NEW id \in Answers
        PROVE  id \in Answers' \cup said
    <3>1. PICK k \in 1..Len(outbox) : outbox[k].type # "scope_ended" /\ outbox[k].id = id
      BY <2>1 DEF Answers
    <3>2. CASE k = 1
      BY <3>1, <3>2
    <3>3. CASE k # 1
      <4>1. k - 1 \in 1..Len(outbox') /\ outbox'[k - 1] = outbox[k]
        BY <1>1, <3>3
      <4> QED BY <3>1, <4>1 DEF Answers
    <3> QED BY <3>2, <3>3
  <2>2. ASSUME NEW id \in Answers'
        PROVE  id \in Answers
    <3>1. PICK k \in 1..Len(outbox') : outbox'[k].type # "scope_ended" /\ outbox'[k].id = id
      BY <2>2 DEF Answers
    <3>2. k + 1 \in 1..Len(outbox) /\ outbox'[k] = outbox[k + 1]
      BY <1>1
    <3> QED BY <3>1, <3>2 DEF Answers
  <2>3. said \subseteq Answers
    BY <1>1 DEF Answers
  <2> QED BY <2>1, <2>2, <2>3
<1> QED BY <1>2, <1>3

LEMMA ReceiveKeepsInv ==
    ASSUME ServiceInv, TakeReply
    PROVE  ServiceInv'
<1>1. ServerInv'
  BY ReplyRead DEF ServiceInv, TakeReply
<1>2. /\ UNCHANGED <<inbox, ring, head, tail, queued, thread, job, flag, reader, stopping, sent,
                     cancels, closed>>
      /\ (Answers \cup replied)' = Answers \cup replied
  BY ReceiveKeepsAnswers DEF ServiceInv, TakeReply, ringVars, workerVars
<1>3. Occupied' = Occupied /\ \A w \in Threads : Busy(w)' <=> Busy(w)
  BY <1>2 DEF Occupied, Busy
<1>4. InRing' = InRing /\ Running' = Running
  BY <1>2, <1>3 DEF InRing, Running
<1>5. NoSleepingWork' /\ StopHolds' /\ ClientType' /\ CancelsHold'
  BY <1>2, <1>3 DEF ServiceInv, NoSleepingWork, Asleep, StopHolds, ClientType, CancelsHold, AllMarked
<1>6. OnePlace'
  <2>1. InRing \cup Running \cup Answers \cup replied
           = (InRing \cup Running \cup Answers \cup replied)'
    BY <1>2, <1>4
  <2> QED BY <1>2, <1>3, <1>4, <2>1 DEF ServiceInv, OnePlace
<1> QED BY <1>1, <1>5, <1>6 DEF ServiceInv

LEMMA ServiceInvStarts == ServiceInit => ServiceInv
<1> SUFFICES ASSUME ServiceInit PROVE ServiceInv
  OBVIOUS
<1>0. /\ ServerInit /\ reader = "reading" /\ sent = 0 /\ cancels = {} /\ closed = FALSE /\ replied = {}
      /\ ServerInv
  BY ServerStarts DEF ServiceInit
<1>1. /\ Len(inbox) = 0 /\ Len(outbox) = 0 /\ Occupied = {} /\ \A w \in Threads : thread[w] = "awake"
      /\ ~stopping
  BY <1>0 DEF ServerInit, Occupied
<1>2. Asleep = {} /\ \A w \in Threads : ~Busy(w)
  BY <1>1 DEF Asleep, Busy
<1>3. InRing = {} /\ Running = {} /\ Answers = {}
  BY <1>1, <1>2 DEF InRing, Running, Answers
<1>4. NoSleepingWork /\ StopHolds /\ ClientType /\ CancelsHold
  <2>0. 0 \in 0..MaxSent
    BY ServiceAssumption
  <2>1. NoSleepingWork /\ ClientType
    BY <1>0, <1>2, <2>0 DEF NoSleepingWork, ClientType
  <2>2. StopHolds /\ CancelsHold
    BY <1>0, <1>1, <1>2 DEF StopHolds, CancelsHold
  <2> QED BY <2>1, <2>2
<1>5. OnePlace
  BY <1>0, <1>1, <1>2, <1>3 DEF OnePlace
<1> QED BY <1>0, <1>4, <1>5 DEF ServiceInv

LEMMA ServiceInvHolds == ServiceSpec => []ServiceInv
<1>1. ServiceInit => ServiceInv
  BY ServiceInvStarts
<1>2. ServiceInv /\ [ServiceNext]_allVars => ServiceInv'
  <2> SUFFICES ASSUME ServiceInv, [ServiceNext]_allVars PROVE ServiceInv'
    OBVIOUS
  <2>1. CASE UNCHANGED allVars
    <3>1. /\ UNCHANGED <<inbox, outbox, ring, head, tail, queued, thread, job, flag, reader, stopping,
                         sent, cancels, closed, replied>>
          /\ ServerInv'
      BY <2>1, ServerRests DEF ServiceInv, allVars, clientVars, serverVars, ringVars, workerVars
    <3>2. Occupied' = Occupied /\ \A w \in Threads : Busy(w)' <=> Busy(w)
      BY <3>1 DEF Occupied, Busy
    <3>3. InRing' = InRing /\ Running' = Running /\ Answers' = Answers
      BY <3>1, <3>2 DEF InRing, Running, Answers
    <3>4. NoSleepingWork' /\ StopHolds' /\ ClientType' /\ CancelsHold'
      BY <3>1, <3>2 DEF ServiceInv, NoSleepingWork, Asleep, StopHolds, ClientType, CancelsHold, AllMarked
    <3>5. OnePlace'
      BY <3>1, <3>2, <3>3 DEF ServiceInv, OnePlace
    <3> QED BY <3>1, <3>4, <3>5 DEF ServiceInv
  <2> QED BY <2>1, ProcessKeepsInv, SubmitKeepsInv, ReceiveKeepsInv DEF ServiceNext
<1> QED BY <1>1, <1>2, PTL DEF ServiceSpec

(* The process stays well typed, and no worker sleeps while a call waits     *)
(* that nobody was woken for, however many workers and entries there are     *)
(* (main.c, reader loop and worker).                                         *)
THEOREM WorkersStayAtWork == ServiceSpec => []AtWork
<1>1. ServiceInv => AtWork
  <2> SUFFICES ASSUME ServiceInv PROVE AtWork
    OBVIOUS
  <2>1. ServerType /\ NoSleepingWork /\ ClientType /\ OnePlace
    BY DEF ServiceInv, ServerInv
  <2>2. 1..sent \subseteq 1..MaxSent
    BY <2>1, ServiceAssumption DEF ClientType
  <2>3. cancels \subseteq Ids /\ replied \subseteq Ids
    BY <2>1, <2>2 DEF ClientType, OnePlace, Ids
  <2> QED BY <2>1, <2>3 DEF AtWork, ServiceType, ClientType
<1> QED BY <1>1, ServiceInvHolds, PTL

(* A cancel the reader has handled is not forgotten: the call it names is    *)
(* marked in the ring and with the worker until it is answered.              *)
THEOREM CancelsStick == ServiceSpec => []CancelSticks
<1>1. ServiceInv => CancelSticks
  <2> SUFFICES ASSUME ServiceInv, NEW id \in cancels,
                      \A k \in 1..Len(inbox) : inbox[k].type = "cancel" => inbox[k].target # id
               PROVE  /\ id \in InRing => MarkedInRing(id)
                      /\ id \in Running => MarkedRunning(id)
    BY DEF CancelSticks
  <2>1. AllMarked(id)
    BY DEF ServiceInv, CancelsHold
  <2> QED BY <2>1 DEF AllMarked, InRing, Running, MarkedInRing, MarkedRunning
<1> QED BY <1>1, ServiceInvHolds, PTL

(* From the stop on every call the process owes an answer for is marked.     *)
THEOREM StopReachesEveryCall == ServiceSpec => []StopReachesAll
<1>1. ServiceInv => StopReachesAll
  BY DEF ServiceInv, StopHolds, StopReachesAll, InRing, Running, MarkedInRing, MarkedRunning
<1> QED BY <1>1, ServiceInvHolds, PTL

-----------------------------------------------------------------------------
(* The refinement.                                                           *)

Line == [k \in 1..queued |-> ring[(head + k - 1) % Queue].id]

PromiseVars == <<Line, Running, Answers \cup replied, reader = "exited">>

(* The calls that wait, as a sequence.                                       *)
LEMMA LineIsSeq ==
    ASSUME ServerType
    PROVE  /\ Line \in Seq(Nat) /\ Len(Line) = queued
           /\ \A k \in 1..queued : k - 1 \in 0..queued - 1 /\ Line[k] = ring[Place(k - 1)].id
           /\ Promise!Waiting = InRing
<1>1. queued \in Nat /\ head \in Nat /\ ring \in [Entries -> Entry]
  BY OccupiedPlaces, ServerAssumption DEF ServerType, Entries
<1>2. ASSUME NEW k \in 1..queued
      PROVE  /\ k - 1 \in 0..queued - 1 /\ Line[k] = ring[Place(k - 1)].id
             /\ Line[k] \in Nat
  <2>1. k - 1 \in 0..queued - 1 /\ head + k - 1 = head + (k - 1)
    BY <1>1
  <2>2. Line[k] = ring[(head + k - 1) % Queue].id
    BY DEF Line
  <2>3. Line[k] = ring[Place(k - 1)].id
    BY <2>1, <2>2 DEF Place
  <2>4. Place(k - 1) \in Entries
    BY <2>1, OccupiedPlaces
  <2> QED BY <1>1, <2>1, <2>3, <2>4 DEF Entry
<1>3. Line \in [1..queued -> Nat]
  BY <1>2 DEF Line
<1>4. Line \in Seq(Nat) /\ Len(Line) = queued
  BY <1>1, <1>3, SeqDef, LenProperties
<1>5. Promise!Waiting = InRing
  <2>1. Promise!Waiting = {Line[k] : k \in 1..queued}
    BY <1>4 DEF Promise!Waiting, Line
  <2>2. ASSUME NEW k \in 0..queued - 1
        PROVE  k + 1 \in 1..queued /\ (k + 1) - 1 = k
    BY <1>1
  <2>3. InRing = {ring[Place(k)].id : k \in 0..queued - 1}
    BY DEF InRing, Occupied, Place
  <2>4. \A x \in Promise!Waiting : x \in InRing
    BY <1>2, <2>1, <2>3
  <2>5. \A x \in InRing : x \in Promise!Waiting
    BY <1>2, <2>1, <2>2, <2>3
  <2> QED BY <2>4, <2>5
<1> QED BY <1>2, <1>4, <1>5

LEMMA LineIsSeqNext ==
    ServerType' => /\ Line' \in Seq(Nat) /\ Len(Line') = queued'
                   /\ \A k \in 1..queued' : Line'[k] = ring'[Place(k - 1)'].id
<1>1. ServerType => /\ Line \in Seq(Nat) /\ Len(Line) = queued
                    /\ \A k \in 1..queued : Line[k] = ring[Place(k - 1)].id
  BY LineIsSeq
<1>2. (ServerType => /\ Line \in Seq(Nat) /\ Len(Line) = queued
                     /\ \A k \in 1..queued : Line[k] = ring[Place(k - 1)].id)'
  BY <1>1, PTL
<1> QED BY <1>2 DEF Place

LEMMA EnqueueAccepts ==
    ASSUME ServiceInv, ServiceInv', Enqueue, UNCHANGED clientVars
    PROVE  \E id \in Ids : Promise!Accept(id)
<1> DEFINE x == Head(inbox).id
<1>0. ServerType /\ RingAgrees /\ ServerType' /\ OnePlace /\ replied' = replied
  BY DEF ServiceInv, ServerInv, clientVars
<1>1. /\ Reading("call") /\ queued < Queue /\ reader' = reader /\ reader = "reading"
  BY DEF Enqueue, Reading
<1>2. IsCall(1) /\ Head(inbox) = inbox[1] /\ Len(inbox) \in Nat \ {0}
  BY <1>0, ConsumeEffect DEF Enqueue
<1>3. x \in 1..sent /\ x \notin InRing \cup Running \cup Answers \cup replied
  BY <1>2 DEF OnePlace, ServiceInv
<1>4. x \in Ids /\ x \in Nat
  BY <1>3, ServiceAssumption DEF ServiceInv, ClientType, Ids
<1>5. Running' = Running /\ Answers' = Answers
  BY EnqueueMoves DEF ServiceInv
<1>6. /\ Line \in Seq(Nat) /\ Len(Line) = queued /\ Promise!Waiting = InRing
      /\ \A k \in 1..queued : k - 1 \in 0..queued - 1 /\ Line[k] = ring[Place(k - 1)].id
  BY <1>0, LineIsSeq
<1>7. /\ Line' \in Seq(Nat) /\ Len(Line') = queued'
      /\ \A k \in 1..queued' : Line'[k] = ring'[Place(k - 1)'].id
  BY <1>0, LineIsSeqNext
<1>8. /\ head \in Entries /\ tail \in Entries /\ tail \notin Occupied /\ ring'[tail].id = x
      /\ \A k \in Entries \ {tail} : ring'[k] = ring[k]
      /\ queued' = queued + 1 /\ head' = head /\ tail = Place(queued) /\ queued \in Nat
  BY <1>0, EnqueueEffect, OccupiedPlaces, ServerAssumption DEF RingAgrees
<1> HIDE DEF x
<1>9. Line' = Append(Line, x)
  <2>1. /\ Append(Line, x) \in Seq(Nat) /\ Len(Append(Line, x)) = queued + 1
        /\ \A k \in 1..queued : Append(Line, x)[k] = Line[k]
        /\ Append(Line, x)[queued + 1] = x
    BY <1>4, <1>6, AppendProperties
  <2>2. ASSUME NEW k \in 1..queued + 1
        PROVE  Line'[k] = Append(Line, x)[k]
    <3>1. Place(k - 1)' = Place(k - 1) /\ Line'[k] = ring'[Place(k - 1)].id
      BY <1>7, <1>8 DEF Place
    <3>2. CASE k = queued + 1
      <4>1. k - 1 = queued
        BY <1>8, <3>2
      <4> QED BY <1>8, <2>1, <3>1, <3>2, <4>1
    <3>3. CASE k # queued + 1
      <4>1. k \in 1..queued /\ k - 1 \in 0..queued - 1
        BY <1>8, <3>3
      <4>2. Place(k - 1) \in Occupied /\ Place(k - 1) \in Entries
        BY <1>0, <4>1, OccupiedPlaces
      <4>3. ring'[Place(k - 1)] = ring[Place(k - 1)]
        BY <1>8, <4>2
      <4> QED BY <1>6, <2>1, <3>1, <4>1, <4>3
    <3> QED BY <3>2, <3>3
  <2>3. Len(Line') = queued + 1
    BY <1>7, <1>8
  <2> QED BY <1>7, <2>1, <2>2, <2>3, SeqEqual
<1>10. Promise!New(x)
  BY <1>1, <1>3, <1>6 DEF Promise!New
<1>11. \A id : id = x => Promise!Accept(id)
  BY <1>0, <1>1, <1>5, <1>6, <1>9, <1>10 DEF Promise!Accept, Line
<1> QED BY <1>4, <1>11

(* A step that leaves the ring's calls in their places leaves the line.      *)
LEMMA LineStays ==
    ASSUME ServerType, ServerType', head' = head, queued' = queued,
           \A k \in Occupied : ring'[k].id = ring[k].id
    PROVE  Line' = Line
<1>1. /\ Line \in Seq(Nat) /\ Len(Line) = queued
      /\ \A k \in 1..queued : k - 1 \in 0..queued - 1 /\ Line[k] = ring[Place(k - 1)].id
  BY LineIsSeq
<1>2. /\ Line' \in Seq(Nat) /\ Len(Line') = queued
      /\ \A k \in 1..queued : Line'[k] = ring'[Place(k - 1)'].id
  BY LineIsSeqNext
<1>3. ASSUME NEW k \in 1..queued
      PROVE  Line'[k] = Line[k]
  <2>1. Place(k - 1)' = Place(k - 1)
    BY DEF Place
  <2>2. Place(k - 1) \in Occupied
    BY <1>1, OccupiedPlaces
  <2> QED BY <1>1, <1>2, <2>1, <2>2
<1> QED BY <1>1, <1>2, <1>3, SeqEqual

LEMMA RefuseRefuses ==
    ASSUME ServiceInv, ServiceInv', RefuseCall, UNCHANGED clientVars
    PROVE  \E id \in Ids : Promise!Refuse(id)
<1> DEFINE x == Head(inbox).id
<1>0. ServerType /\ RingAgrees /\ ServerType' /\ OnePlace /\ replied' = replied
  BY DEF ServiceInv, ServerInv, clientVars
<1>1. /\ Reading("call") /\ queued = Queue /\ reader' = reader /\ reader = "reading"
      /\ UNCHANGED <<ring, head, queued>>
  BY DEF RefuseCall, Reading, ringVars
<1>2. IsCall(1) /\ Head(inbox) = inbox[1] /\ Len(inbox) \in Nat \ {0}
  BY <1>0, ConsumeEffect DEF RefuseCall
<1>3. x \in 1..sent /\ x \notin InRing \cup Running \cup Answers \cup replied
  BY <1>2 DEF OnePlace, ServiceInv
<1>4. x \in Ids
  BY <1>3, ServiceAssumption DEF ServiceInv, ClientType, Ids
<1>5. Running' = Running /\ Answers' = Answers \cup {x}
  BY RefuseMoves DEF ServiceInv
<1>6. Len(Line) = queued /\ Promise!Waiting = InRing
  BY <1>0, LineIsSeq
<1> HIDE DEF x
<1>7. Line' = Line
  BY <1>0, <1>1, LineStays
<1>8. Promise!New(x)
  BY <1>1, <1>3, <1>6 DEF Promise!New
<1>9. Promise!Refuse(x)
  BY <1>0, <1>1, <1>5, <1>6, <1>7, <1>8 DEF Promise!Refuse, Line
<1> QED BY <1>4, <1>9

LEMMA TakeStarts ==
    ASSUME ServiceInv, ServiceInv', NEW w \in Threads, TakeCall(w), UNCHANGED clientVars
    PROVE  Promise!Start
<1>0. ServerType /\ RingAgrees /\ ServerType' /\ replied' = replied /\ reader' = reader
  BY DEF ServiceInv, ServerInv, clientVars, TakeCall
<1>1. Running' = Running \cup {ring[head].id} /\ Answers' = Answers /\ ring' = ring
  BY TakeMoves DEF ServiceInv, TakeCall
<1>2. /\ Line \in Seq(Nat) /\ Len(Line) = queued
      /\ \A k \in 1..queued : Line[k] = ring[Place(k - 1)].id
  BY <1>0, LineIsSeq
<1>3. /\ Line' \in Seq(Nat) /\ Len(Line') = queued'
      /\ \A k \in 1..queued' : Line'[k] = ring'[Place(k - 1)'].id
  BY <1>0, LineIsSeqNext
<1>4. /\ queued \in 1..Queue /\ queued' = queued - 1 /\ head = Place(0) /\ queued \in Nat
      /\ \A j \in 0..queued - 2 : Place(j)' = Place(j + 1)
  BY <1>0, TakeEffect, ServerAssumption
<1>5. Line # <<>>
  BY <1>2, <1>4, EmptySeq
<1>6. Head(Line) = ring[head].id
  <2>1. 1 \in 1..queued /\ 1 - 1 = 0
    BY <1>4
  <2>2. Head(Line) = Line[1]
    BY <1>2, <1>5
  <2> QED BY <1>2, <1>4, <2>1, <2>2
<1>7. Line' = Tail(Line)
  <2>1. /\ Tail(Line) \in Seq(Nat) /\ Len(Tail(Line)) = queued - 1
        /\ \A k \in 1..queued - 1 : Tail(Line)[k] = Line[k + 1]
    BY <1>2, <1>5, HeadTailProperties
  <2>2. ASSUME NEW k \in 1..queued - 1
        PROVE  Line'[k] = Tail(Line)[k]
    <3>1. k - 1 \in 0..queued - 2 /\ (k - 1) + 1 = k /\ k + 1 \in 1..queued /\ (k + 1) - 1 = k
      BY <1>4
    <3>2. Line'[k] = ring[Place(k)].id
      BY <1>1, <1>3, <1>4, <3>1
    <3> QED BY <1>2, <2>1, <3>1, <3>2
  <2>3. Len(Line') = queued - 1
    BY <1>3, <1>4
  <2> QED BY <1>3, <2>1, <2>2, <2>3, SeqEqual
<1> QED BY <1>0, <1>1, <1>5, <1>6, <1>7 DEF Promise!Start, Line

LEMMA AnswerAnswers ==
    ASSUME ServiceInv, ServiceInv', NEW w \in Threads, AnswerCall(w), UNCHANGED clientVars
    PROVE  \E id \in Ids : Promise!Answer(id)
<1>0. ServerType /\ ServerType' /\ replied' = replied /\ reader' = reader /\ OnePlace
  BY DEF ServiceInv, ServerInv, clientVars, AnswerCall
<1>1. /\ job[w].id \in Running /\ Running' = Running \ {job[w].id}
      /\ Answers' = Answers \cup {job[w].id}
  BY AnswerMoves DEF ServiceInv
<1>2. UNCHANGED <<ring, head, queued>>
  BY DEF AnswerCall, ringVars
<1>3. Line' = Line
  BY <1>0, <1>2, LineStays
<1>4. 1..sent \subseteq Ids
  BY ServiceAssumption DEF ServiceInv, ClientType, Ids
<1>5. job[w].id \in Ids
  BY <1>0, <1>1, <1>4 DEF OnePlace
<1>6. Promise!Answer(job[w].id)
  BY <1>0, <1>1, <1>3 DEF Promise!Answer, Line
<1> QED BY <1>5, <1>6

(* When the process exits every worker has left, so nothing waits and        *)
(* nothing runs.                                                             *)
LEMMA ExitExits ==
    ASSUME ServiceInv, ServiceInv', Exit, UNCHANGED clientVars
    PROVE  Promise!Exit
<1>0. ServerType /\ ServerType' /\ replied' = replied /\ reader = "joining" /\ reader' = "exited"
  BY DEF ServiceInv, ServerInv, clientVars, Exit
<1>1. Running' = Running /\ Answers' = Answers /\ UNCHANGED <<ring, head, queued>>
  BY MarkMoves DEF ServiceInv, Exit, ringVars
<1>2. Line' = Line
  BY <1>0, <1>1, LineStays
<1>3. \A w \in Threads : thread[w] = "gone"
  BY DEF Exit
<1>4. queued = 0
  BY <1>3, ServerAssumption DEF ServiceInv, StopHolds
<1>5. Line = <<>>
  BY <1>0, <1>4, LineIsSeq, EmptySeq
<1>6. Running = {}
  BY <1>3 DEF Running, Busy
<1> QED BY <1>0, <1>1, <1>2, <1>5, <1>6 DEF Promise!Exit, Line

(* Every other step is none of the queue.                                    *)
LEMMA OthersStutter ==
    ASSUME ServiceInv, ServiceInv',
           \/ (CancelCall \/ EndScope \/ Stop) /\ UNCHANGED clientVars
           \/ UNCHANGED clientVars /\ \E w \in Threads : Sleep(w) \/ EndJob(w) \/ Leave(w)
           \/ SubmitCall \/ SubmitCancel \/ SubmitScopeEnd \/ Close
           \/ TakeReply
           \/ UNCHANGED allVars
    PROVE  UNCHANGED PromiseVars
<1>0. ServerType /\ RingAgrees /\ ServerType' /\ ServerInv
  BY DEF ServiceInv, ServerInv
<1>1. CASE (CancelCall \/ EndScope \/ Stop) /\ UNCHANGED clientVars
  <2>1. Answers' = Answers /\ Running' = Running /\ replied' = replied
    BY <1>0, <1>1, MarkMoves DEF clientVars
  <2>2. (reader' = "exited") = (reader = "exited")
    BY <1>1 DEF CancelCall, EndScope, Stop, Reading
  <2>3. head' = head /\ queued' = queued /\ (ring' = ring \/ \E X : Marked(X))
    BY <1>1 DEF CancelCall, EndScope, Stop, ringVars
  <2>4. \A k \in Occupied : ring'[k].id = ring[k].id
    BY <1>0, <2>3, MarkedEffect, OccupiedPlaces
  <2>5. Line' = Line
    BY <1>0, <2>3, <2>4, LineStays
  <2> QED BY <2>1, <2>2, <2>5 DEF PromiseVars
<1>2. CASE UNCHANGED clientVars /\ \E w \in Threads : Sleep(w) \/ EndJob(w) \/ Leave(w)
  <2>1. Answers' = Answers /\ Running' = Running /\ replied' = replied
    BY <1>0, <1>2, RestMoves DEF clientVars
  <2>2. reader' = reader /\ UNCHANGED <<ring, head, queued>>
    BY <1>2 DEF Sleep, EndJob, Leave, ringVars
  <2>3. Line' = Line
    BY <1>0, <2>2, LineStays
  <2> QED BY <2>1, <2>2, <2>3 DEF PromiseVars
<1>3. CASE SubmitCall \/ SubmitCancel \/ SubmitScopeEnd \/ Close \/ UNCHANGED allVars
  <2>1. UNCHANGED <<outbox, ring, head, queued, thread, job, reader, replied>>
    BY <1>3 DEF SubmitCall, SubmitCancel, SubmitScopeEnd, Close, Submit, allVars, clientVars, serverVars, ringVars,
                workerVars
  <2>2. Answers' = Answers /\ Running' = Running
    BY <2>1 DEF Answers, Running, Busy
  <2>3. Line' = Line
    BY <1>0, <2>1, LineStays
  <2> QED BY <2>1, <2>2, <2>3 DEF PromiseVars
<1>4. CASE TakeReply
  <2>1. UNCHANGED <<ring, head, queued, thread, job, reader>>
    BY <1>4 DEF TakeReply, ringVars, workerVars
  <2>2. (Answers \cup replied)' = Answers \cup replied /\ Running' = Running
    BY <1>0, <1>4, <2>1, ReceiveKeepsAnswers DEF Running, Busy
  <2>3. Line' = Line
    BY <1>0, <2>1, LineStays
  <2> QED BY <2>1, <2>2, <2>3 DEF PromiseVars
<1> QED BY <1>1, <1>2, <1>3, <1>4

(* The ring, the condition variable and the worker threads implement the     *)
(* queue a reader of the protocol expects (CallQueue): a call is accepted or *)
(* refused at once, accepted calls are started in their order and answered   *)
(* once, and the process does not exit before the last answer.               *)
THEOREM ImplementsCallQueue == ServiceSpec => KeepsPromise
<1>1. ServiceInit => Promise!Init
  <2> SUFFICES ASSUME ServiceInit PROVE Promise!Init
    OBVIOUS
  <2>1. ServerInit /\ reader = "reading" /\ replied = {} /\ ServerType
    BY ServerStarts DEF ServiceInit, ServerInv
  <2>2. Line = <<>>
    BY <2>1, LineIsSeq, EmptySeq DEF ServerInit
  <2>3. Running = {} /\ Answers = {}
    BY <2>1 DEF ServerInit, Running, Answers, Busy
  <2> QED BY <2>1, <2>2, <2>3 DEF Promise!Init, Line
<1>2. ServiceInv /\ ServiceInv' /\ [ServiceNext]_allVars => [Promise!Next]_(Promise!vars)
  <2> SUFFICES ASSUME ServiceInv, ServiceInv', [ServiceNext]_allVars, ~Promise!Next
               PROVE  UNCHANGED PromiseVars
    BY DEF Promise!vars, PromiseVars, Line
  <2>1. CASE ServerTurn
    <3>1. UNCHANGED clientVars
      BY <2>1 DEF ServerTurn
    <3>2. ~Enqueue /\ ~RefuseCall /\ ~Exit /\ \A w \in Threads : ~TakeCall(w) /\ ~AnswerCall(w)
      BY <3>1, EnqueueAccepts, RefuseRefuses, ExitExits, TakeStarts, AnswerAnswers DEF Promise!Next
    <3>3. \/ CancelCall \/ EndScope \/ Stop
          \/ \E w \in Threads : Sleep(w) \/ EndJob(w) \/ Leave(w)
      BY <2>1, <3>2 DEF ServerTurn, ServerNext, Read, Work
    <3> QED BY <3>1, <3>3, OthersStutter
  <2>2. CASE SubmitCall \/ SubmitCancel \/ SubmitScopeEnd \/ Close \/ TakeReply \/ UNCHANGED allVars
    BY <2>2, OthersStutter
  <2> QED BY <2>1, <2>2 DEF ServiceNext
<1> QED BY <1>1, <1>2, ServiceInvHolds, PTL DEF ServiceSpec, KeepsPromise, Promise!Spec
=============================================================================
